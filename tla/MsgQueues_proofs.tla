-------------------------- MODULE MsgQueues_proofs --------------------------
(***************************************************************************)
(* Proofs about the message queues, for any number of messages.            *)
(***************************************************************************)
EXTENDS MsgQueues, SequenceTheorems, TLAPS

\* A path has at most three hops.
LEMMA PathLength ==
    ASSUME NEW m \in Msgs
    PROVE  Len(Path[m]) \in 1..3
<1>1. Path[m] \in ServerPaths \cup ClientPaths
  BY MsgQueuesAssumption
<1> QED
  BY <1>1 DEF ServerPaths, ClientPaths

\* What a consumer passes on is again a message with a hop of its path.
LEMMA NextHopIsItem ==
    ASSUME TypeOK, NEW q \in Queues, HasNext(q)
    PROVE  NextHop(q) \in Items
<1>1. hand[q] \in Items
  BY DEF TypeOK, HasNext
<1>2. hand[q][1] \in Msgs /\ hand[q][2] \in 1..3
  BY <1>1 DEF Items
<1>3. Len(Path[hand[q][1]]) \in 1..3
  BY <1>2, PathLength
<1>4. hand[q][2] < Len(Path[hand[q][1]])
  BY DEF HasNext
<1>5. \A h, n \in 1..3 : h < n => h + 1 \in 1..3
  OBVIOUS
<1>6. hand[q][2] + 1 \in 1..3
  BY <1>2, <1>3, <1>4, <1>5
<1> QED
  BY <1>2, <1>6 DEF NextHop, Items

\* Queueing keeps the types, never makes a consumer wait, and leaves no consumer
\* waiting at a queue that has something in it.
LEMMA EnqueueEffect ==
    ASSUME IInv, NEW q \in Queues, NEW item \in Items, Enqueue(q, item)
    PROVE  /\ queue' \in [Queues -> Seq(Items)]
           /\ st' \in [Queues -> {"run", "wait", "exited"}]
           /\ \A r \in Queues : st'[r] = "wait" => st[r] = "wait" /\ queue'[r] = <<>>
           /\ \A r \in Queues : st'[r] = "exited" => st[r] = "exited"
<1>1. queue \in [Queues -> Seq(Items)] /\ st \in [Queues -> {"run", "wait", "exited"}]
  BY DEF IInv, TypeOK
<1>2. \A r \in Queues : st[r] = "wait" => queue[r] = <<>>
  BY DEF IInv, WaitingMeansEmpty
<1>3. queue' \in [Queues -> Seq(Items)]
  BY <1>1 DEF Enqueue
<1>4. CASE queue[q] = <<>>
  BY <1>1, <1>2, <1>3, <1>4 DEF Enqueue, Woken
<1>5. CASE queue[q] # <<>>
  BY <1>1, <1>2, <1>3, <1>5 DEF Enqueue
<1> QED
  BY <1>4, <1>5

\* A history keeps its type when a message is added to it.
LEMMA RecordedType ==
    ASSUME NEW f \in [Paths -> Seq(Msgs)], NEW m \in Msgs
    PROVE  Recorded(f, m) \in [Paths -> Seq(Msgs)]
BY DEF Recorded, Paths

\* A consumer that hands its message on to queue to.
PassOnTo(q, to) == HasNext(q) /\ Enqueue(to, NextHop(q)) /\ PassOn(q)

\* A consumer that passes its message on keeps the inductive invariant.
LEMMA PassOnPreserves ==
    ASSUME IInv, NEW q \in Queues, NEW to \in Queues, PassOnTo(q, to)
    PROVE  IInv'
<1> USE DEF IInv
<1>1. NextHop(q) \in Items
  BY NextHopIsItem DEF PassOnTo
<1>2. /\ queue' \in [Queues -> Seq(Items)]
      /\ st' \in [Queues -> {"run", "wait", "exited"}]
      /\ \A r \in Queues : st'[r] = "wait" => st[r] = "wait" /\ queue'[r] = <<>>
      /\ \A r \in Queues : st'[r] = "exited" => st[r] = "exited"
  BY <1>1, EnqueueEffect DEF PassOnTo
<1>3. hand' = [hand EXCEPT ![q] = NULL] /\ UNCHANGED <<mpc, upc, umsg, g_shutdown, accepted, handled, early>>
  BY DEF PassOnTo, PassOn
<1>4. TypeOK'
  BY <1>2, <1>3 DEF TypeOK
<1>5. \A r \in Queues : hand[r] = NULL => hand'[r] = NULL
  BY <1>3 DEF TypeOK
<1>6. WaitingMeansEmpty' /\ ExitedIsIdle'
  BY <1>2, <1>3, <1>5 DEF WaitingMeansEmpty, ExitedIsIdle
<1>7. SignalledRuns'
  BY <1>2, <1>3 DEF SignalledRuns, Queues
<1> QED
  BY <1>4, <1>6, <1>7

\* So does one that takes a message, finishes it, exits or begins to wait.
LEMMA ConsumePreserves ==
    ASSUME IInv, NEW q \in Queues, Consume(q)
    PROVE  IInv'
<1> USE DEF IInv
<1>1. CASE Take(q)
  <2>1. Head(queue[q]) \in Items /\ Tail(queue[q]) \in Seq(Items)
    BY <1>1 DEF Take, TypeOK
  <2>2. TypeOK'
    BY <1>1, <2>1 DEF Take, TypeOK
  <2>3. WaitingMeansEmpty' /\ ExitedIsIdle'
    BY <1>1 DEF Take, TypeOK, WaitingMeansEmpty, ExitedIsIdle
  <2>4. SignalledRuns'
    BY <1>1 DEF Take, SignalledRuns
  <2> QED
    BY <2>2, <2>3, <2>4
<1>2. CASE Exit(q)
  BY <1>2 DEF Exit, TypeOK, WaitingMeansEmpty, ExitedIsIdle, SignalledRuns, Queues
<1>3. CASE Wait(q)
  <2>1. ~g_shutdown /\ (~early => mpc = "loop")
    BY <1>3 DEF Wait, SignalledRuns
  <2> QED
    BY <1>3, <2>1 DEF Wait, TypeOK, WaitingMeansEmpty, ExitedIsIdle, SignalledRuns
<1>4. CASE Finish(q)
  <2>1. hand[q][1] \in Msgs
    BY <1>4 DEF Finish, TypeOK, Items
  <2>2. TypeOK'
    BY <1>4, <2>1, RecordedType DEF Finish, TypeOK
  <2>3. WaitingMeansEmpty' /\ ExitedIsIdle'
    BY <1>4 DEF Finish, TypeOK, WaitingMeansEmpty, ExitedIsIdle
  <2>4. SignalledRuns'
    BY <1>4 DEF Finish, SignalledRuns
  <2> QED
    BY <2>2, <2>3, <2>4
<1> QED
  BY <1>1, <1>2, <1>3, <1>4 DEF Consume

\* So do the three signals of the main thread.
LEMMA SignalPreserves ==
    ASSUME IInv, SignalConsumers
    PROVE  IInv'
<1> USE DEF IInv
<1>1. CASE Signal("sig_crud", "crud", "sig_g")
  BY <1>1 DEF Signal, Woken, TypeOK, WaitingMeansEmpty, ExitedIsIdle, SignalledRuns, Queues
<1>2. CASE Signal("sig_g", "down", "sig_nano")
  BY <1>2 DEF Signal, Woken, TypeOK, WaitingMeansEmpty, ExitedIsIdle, SignalledRuns, Queues
<1>3. CASE Signal("sig_nano", "up", "join")
  BY <1>3 DEF Signal, Woken, TypeOK, WaitingMeansEmpty, ExitedIsIdle, SignalledRuns, Queues
<1> QED
  BY <1>1, <1>2, <1>3 DEF SignalConsumers

\* Every step of every thread keeps the inductive invariant.
LEMMA NextPreserves ==
    ASSUME IInv, [Next]_vars
    PROVE  IInv'
<1> USE DEF IInv
<1>1. ASSUME NEW m \in Msgs, listenerOnMessage_queue(m)
      PROVE  IInv'
  <2>1. "down" \in Queues /\ <<m, 1>> \in Items
    BY DEF Queues, Items
  <2>2. /\ queue' \in [Queues -> Seq(Items)]
        /\ st' \in [Queues -> {"run", "wait", "exited"}]
        /\ \A r \in Queues : st'[r] = "wait" => st[r] = "wait" /\ queue'[r] = <<>>
        /\ \A r \in Queues : st'[r] = "exited" => st[r] = "exited"
    BY <1>1, <2>1, EnqueueEffect DEF listenerOnMessage_queue
  <2>3. TypeOK'
    BY <1>1, <2>2, RecordedType DEF listenerOnMessage_queue, TypeOK
  <2>4. WaitingMeansEmpty' /\ ExitedIsIdle'
    BY <1>1, <2>2 DEF listenerOnMessage_queue, WaitingMeansEmpty, ExitedIsIdle
  <2>5. SignalledRuns'
    BY <1>1, <2>2 DEF listenerOnMessage_queue, SignalledRuns, Queues
  <2> QED
    BY <2>3, <2>4, <2>5
<1>2. ASSUME NEW m \in Msgs, UpstreamRecv(m)
      PROVE  IInv'
  BY <1>2 DEF UpstreamRecv, TypeOK, WaitingMeansEmpty, ExitedIsIdle, SignalledRuns
<1>3. CASE UpstreamCheck
  BY <1>3 DEF UpstreamCheck, TypeOK, WaitingMeansEmpty, ExitedIsIdle, SignalledRuns
<1>4. CASE UpstreamPush
  <2>1. umsg \in Msgs
    BY <1>4 DEF UpstreamPush, TypeOK
  <2>2. "up" \in Queues /\ <<umsg, 1>> \in Items
    BY <2>1 DEF Queues, Items
  <2>3. /\ queue' \in [Queues -> Seq(Items)]
        /\ st' \in [Queues -> {"run", "wait", "exited"}]
        /\ \A r \in Queues : st'[r] = "wait" => st[r] = "wait" /\ queue'[r] = <<>>
        /\ \A r \in Queues : st'[r] = "exited" => st[r] = "exited"
    BY <1>4, <2>2, EnqueueEffect DEF UpstreamPush
  <2>4. TypeOK'
    BY <1>4, <2>1, <2>3, RecordedType DEF UpstreamPush, TypeOK
  <2>5. WaitingMeansEmpty' /\ ExitedIsIdle'
    BY <1>4, <2>3 DEF UpstreamPush, WaitingMeansEmpty, ExitedIsIdle
  <2>6. SignalledRuns'
    BY <1>4, <2>3 DEF UpstreamPush, SignalledRuns, Queues
  <2> QED
    BY <2>4, <2>5, <2>6
<1>5. CASE messageHandlerTask
  BY <1>5, ConsumePreserves, PassOnPreserves
     DEF messageHandlerTask, PassOnTo, addCRUDmsgToQueue, Queues
<1>6. CASE processUpstreamMessage
  BY <1>6, ConsumePreserves, PassOnPreserves
     DEF processUpstreamMessage, PassOnTo, addCRUDmsgToQueue, Queues
<1>7. CASE CRUDHandlerTask
  BY <1>7, ConsumePreserves, PassOnPreserves
     DEF CRUDHandlerTask, PassOnTo, addCRUDresponseToUpstreamQ, Queues
<1>8. CASE shutdownSocketConnection
  BY <1>8 DEF shutdownSocketConnection, TypeOK, WaitingMeansEmpty, ExitedIsIdle,
              SignalledRuns
<1>9. CASE LeaveLoop
  BY <1>9 DEF LeaveLoop, TypeOK, WaitingMeansEmpty, ExitedIsIdle, SignalledRuns
<1>10. CASE SignalConsumers
  BY <1>10, SignalPreserves
<1>11. CASE Join
  BY <1>11 DEF Join, TypeOK, WaitingMeansEmpty, ExitedIsIdle, SignalledRuns
<1>12. CASE LeaveLoopForRetry
  BY <1>12 DEF LeaveLoopForRetry, TypeOK, WaitingMeansEmpty, ExitedIsIdle, SignalledRuns
<1>13. CASE UNCHANGED vars
  BY <1>13 DEF vars, TypeOK, WaitingMeansEmpty, ExitedIsIdle, SignalledRuns
<1> QED
  BY <1>1, <1>2, <1>3, <1>4, <1>5, <1>6, <1>7, <1>8, <1>9, <1>10, <1>11, <1>12, <1>13
     DEF Next, Finished

\* The invariant holds when the threads have been started.
LEMMA InitIInv == Init => IInv
<1> SUFFICES ASSUME Init PROVE IInv
  OBVIOUS
<1>1. <<>> \in Seq(Items) /\ <<>> \in Seq(Msgs)
  OBVIOUS
<1>2. TypeOK
  BY <1>1 DEF Init, TypeOK
<1>3. WaitingMeansEmpty /\ ExitedIsIdle
  BY DEF Init, WaitingMeansEmpty, ExitedIsIdle
<1>4. SignalledRuns
  BY DEF Init, SignalledRuns
<1> QED
  BY <1>2, <1>3, <1>4 DEF IInv

\* The inductive invariant holds of every behaviour, for any set of messages and
\* any assignment of paths.
THEOREM IInvAlways == Spec => []IInv
<1>1. IInv /\ [Next]_vars => IInv'
  BY NextPreserves
<1> QED
  BY <1>1, InitIInv, PTL DEF Spec

\* The queues, the hands of the consumers and the states of the threads are
\* always of their types; in particular no message takes more hops than its path.
THEOREM TypeCorrect == Spec => []TypeOK
<1>1. IInv => TypeOK
  BY DEF IInv
<1> QED
  BY <1>1, IInvAlways, PTL

\* No wake-up is lost: although producers signal a queue only when they find it
\* empty, no consumer ever waits while there is something for it to do.
THEOREM NoLostWakeup == Spec => []WaitingMeansEmpty
<1>1. IInv => WaitingMeansEmpty
  BY DEF IInv
<1> QED
  BY <1>1, IInvAlways, PTL

\* Once the main thread has sent its signals and joins, no consumer waits, unless the
\* loop was left for close_retry before there was a shutdown: one signal on each
\* condition variable is enough.
THEOREM JoinWaitsForNoWaiter == Spec => []NobodyWaitsAtJoin
<1>1. IInv => NobodyWaitsAtJoin
  BY DEF IInv, SignalledRuns, NobodyWaitsAtJoin, Queues
<1> QED
  BY <1>1, IInvAlways, PTL

\* No signal of a producer is lost, nor one of a shutdown unless the loop was left
\* before it, which is what a run checks.
THEOREM SignalsAlwaysReach == Spec => []SignalsReach
<1>1. WaitingMeansEmpty /\ NobodyWaitsAtJoin => SignalsReach
  BY DEF SignalsReach
<1> QED
  BY <1>1, NoLostWakeup, JoinWaitsForNoWaiter, PTL
-----------------------------------------------------------------------------
(* The order of messages.  A place is a queue and a number; taking a message *)
(* from a queue shifts its places by one.                                    *)

\* Message m, at hop h, is at place k of queue q; place 0 is the consumer's hand.
Here(q, k, m, h) ==
    \/ k = 0 /\ hand[q] = <<m, h>>
    \/ k \in 1..Len(queue[q]) /\ queue[q][k] = <<m, h>>

\* Message m is the i-th that was accepted of its path.
Nth(i, m) == i \in 1..Len(accepted[Path[m]]) /\ accepted[Path[m]][i] = m

\* done are the first of all, which differ and are of path p.
PrefixOf(done, all, p) ==
    /\ Len(done) <= Len(all)
    /\ \A i \in 1..Len(done) : done[i] = all[i]
    /\ \A i \in 1..Len(all) : Path[all[i]] = p
    /\ \A i, j \in 1..Len(all) : all[i] = all[j] => i = j

\* The messages of a path that are handled are the first that were accepted.
HandledArePrefix == \A p \in Paths : PrefixOf(handled[p], accepted[p], p)

\* The message that handle_upstream has received comes from a client and is new.
ReceivedIsNew ==
    upc \in {"got", "push"} => Path[umsg] \in ClientPaths /\ ~InSeq(umsg, accepted[Path[umsg]])

\* Every message in a queue or a hand is where its path says, and has been accepted
\* and not handled yet.
HereIsOnPath ==
    \A q \in Queues, k \in Nat, m \in Msgs, h \in 1..3 : Here(q, k, m, h) =>
        /\ h <= Len(Path[m]) /\ Path[m][h] = q
        /\ \E i \in Nat : Nth(i, m) /\ i > Len(handled[Path[m]])

\* No message is lost: what was accepted and is not handled is somewhere.
NoneIsLost ==
    \A m \in Msgs, i \in Nat : Nth(i, m) /\ i > Len(handled[Path[m]]) =>
        \E q \in Queues, k \in Nat, h \in 1..3 : Here(q, k, m, h)

\* Message m was accepted before n.
Before(m, n) == \A i, j \in Nat : Nth(i, m) /\ Nth(j, n) => i < j

\* Of two messages of one path the one that got further came first.
NoneOvertakes ==
    \A q, r \in Queues, k, l \in Nat, m, n \in Msgs, h, g \in 1..3 :
        /\ Here(q, k, m, h) /\ Here(r, l, n, g) /\ Path[m] = Path[n]
        /\ h > g \/ (h = g /\ k < l)
        => Before(m, n)

\* What the order of messages rests on,
OrderInv == HandledArePrefix /\ HereIsOnPath /\ NoneIsLost /\ NoneOvertakes

\* and with ReceivedIsNew the inductive invariant behind ImplementsFifo.
FifoInv == OrderInv /\ ReceivedIsNew

\* Nothing in a hand is NULL.
LEMMA HandIsItem ==
    ASSUME NEW m \in Msgs, NEW h \in 1..3
    PROVE  <<m, h>> # NULL
BY MsgQueuesAssumption

\* Taking the head of a queue moves everything in it one place forward.
LEMMA TakeMoves ==
    ASSUME TypeOK, NEW q \in Queues, Take(q),
           NEW r \in Queues, NEW k \in Nat, NEW m \in Msgs, NEW h \in 1..3
    PROVE  Here(r, k, m, h)' <=> Here(r, IF r = q THEN k + 1 ELSE k, m, h)
<1>1. /\ queue \in [Queues -> Seq(Items)] /\ queue[q] # <<>> /\ hand[q] = NULL
      /\ hand' = [hand EXCEPT ![q] = Head(queue[q])]
      /\ queue' = [queue EXCEPT ![q] = Tail(queue[q])]
      /\ hand \in [Queues -> Items \cup {NULL}]
  BY DEF Take, TypeOK
<1>2. CASE r # q
  BY <1>1, <1>2 DEF Here
<1>3. CASE r = q
  <2>1. queue[q] \in Seq(Items) /\ hand'[q] = Head(queue[q]) /\ queue'[q] = Tail(queue[q])
    BY <1>1
  <2>2. Head(queue[q]) = queue[q][1] /\ 1 \in 1..Len(queue[q])
    BY <1>1, <2>1
  <2>3. Len(Tail(queue[q])) = Len(queue[q]) - 1
    BY <1>1, <2>1
  <2>4. \A i \in 1..Len(Tail(queue[q])) : Tail(queue[q])[i] = queue[q][i + 1]
    BY <1>1, <2>1
  <2>5. CASE k = 0
    BY <1>3, <2>1, <2>2, <2>5 DEF Here
  <2>6. CASE k # 0
    <3>1. Here(r, k, m, h)' <=> k \in 1..Len(Tail(queue[q])) /\ Tail(queue[q])[k] = <<m, h>>
      BY <1>3, <2>1, <2>6 DEF Here
    <3>2. Here(r, k + 1, m, h) <=> k + 1 \in 1..Len(queue[q]) /\ queue[q][k + 1] = <<m, h>>
      BY <1>3, <2>6 DEF Here
    <3>3. Len(queue[q]) \in Nat
      BY <2>1
    <3>4. k \in 1..Len(Tail(queue[q])) <=> k + 1 \in 1..Len(queue[q])
      BY <2>3, <2>6, <3>3
    <3> QED
      BY <1>3, <2>4, <3>1, <3>2, <3>4
  <2> QED
    BY <2>5, <2>6
<1> QED
  BY <1>2, <1>3

\* Queueing adds one message behind the others.
LEMMA EnqueueAdds ==
    ASSUME TypeOK, NEW q \in Queues, NEW item \in Items, Enqueue(q, item)
    PROVE  \A r \in Queues, k \in Nat \ {0}, m \in Msgs, h \in 1..3 :
             Here(r, k, m, h)' <=> \/ Here(r, k, m, h)
                                   \/ r = q /\ k = Len(queue[q]) + 1 /\ item = <<m, h>>
<1> SUFFICES ASSUME NEW r \in Queues, NEW k \in Nat \ {0}, NEW m \in Msgs, NEW h \in 1..3
             PROVE  Here(r, k, m, h)' <=>
                      \/ Here(r, k, m, h)
                      \/ r = q /\ k = Len(queue[q]) + 1 /\ item = <<m, h>>
  OBVIOUS
<1>1. /\ queue \in [Queues -> Seq(Items)]
      /\ queue' = [queue EXCEPT ![q] = Append(queue[q], item)]
  BY DEF Enqueue, TypeOK
<1>2. CASE r # q
  BY <1>1, <1>2 DEF Here
<1>3. CASE r = q
  <2>1. queue[q] \in Seq(Items) /\ queue'[q] = Append(queue[q], item)
    BY <1>1
  <2>2. /\ Len(queue[q]) \in Nat
        /\ Len(queue'[q]) = Len(queue[q]) + 1
        /\ queue'[q][Len(queue[q]) + 1] = item
        /\ \A i \in 1..Len(queue[q]) : queue'[q][i] = queue[q][i]
    BY <2>1
  <2>3. Here(r, k, m, h)' <=> k \in 1..Len(queue'[q]) /\ queue'[q][k] = <<m, h>>
    BY <1>3 DEF Here
  <2>4. Here(r, k, m, h) <=> k \in 1..Len(queue[q]) /\ queue[q][k] = <<m, h>>
    BY <1>3 DEF Here
  <2>5. k \in 1..Len(queue'[q]) <=> k \in 1..Len(queue[q]) \/ k = Len(queue[q]) + 1
    BY <2>2
  <2>6. ~(Len(queue[q]) + 1 \in 1..Len(queue[q]))
    BY <2>2
  <2> QED
    BY <1>3, <2>2, <2>3, <2>4, <2>5, <2>6
<1> QED
  BY <1>2, <1>3

\* An empty hand, and only that, loses a message.
LEMMA HandEmptied ==
    ASSUME TypeOK, NEW q \in Queues, hand' = [hand EXCEPT ![q] = NULL],
           NEW r \in Queues, NEW m \in Msgs, NEW h \in 1..3
    PROVE  Here(r, 0, m, h)' <=> Here(r, 0, m, h) /\ r # q
<1>1. hand \in [Queues -> Items \cup {NULL}] /\ <<m, h>> # NULL
  BY HandIsItem DEF TypeOK
<1>2. Here(r, 0, m, h)' <=> hand'[r] = <<m, h>>
  BY DEF Here
<1>3. Here(r, 0, m, h) <=> hand[r] = <<m, h>>
  BY DEF Here
<1>4. hand'[r] = IF r = q THEN NULL ELSE hand[r]
  BY <1>1
<1> QED
  BY <1>1, <1>2, <1>3, <1>4

\* What is in a queue is at a place of it.
LEMMA PlaceIsInQueue ==
    ASSUME TypeOK, NEW q \in Queues, NEW k \in Nat, NEW m \in Msgs, NEW h \in 1..3,
           Here(q, k, m, h)
    PROVE  k <= Len(queue[q]) /\ Len(queue[q]) \in Nat
<1>1. Len(queue[q]) \in Nat
  BY DEF TypeOK
<1> QED
  BY <1>1 DEF Here

\* Accepting a message gives it the next number of its path.
LEMMA AcceptCounts ==
    ASSUME TypeOK, NEW n \in Msgs, accepted' = Recorded(accepted, n),
           NEW m \in Msgs, NEW i \in Nat
    PROVE  Nth(i, m)' <=> Nth(i, m) \/ (m = n /\ i = Len(accepted[Path[n]]) + 1)
<1>1. /\ accepted \in [Paths -> Seq(Msgs)] /\ Path[n] \in Paths /\ Path[m] \in Paths
      /\ accepted' = [accepted EXCEPT ![Path[n]] = Append(accepted[Path[n]], n)]
  BY DEF TypeOK, Recorded, Paths
<1>2. CASE Path[m] # Path[n]
  BY <1>1, <1>2 DEF Nth
<1>3. CASE Path[m] = Path[n]
  <2>1. /\ accepted[Path[n]] \in Seq(Msgs) /\ Len(accepted[Path[n]]) \in Nat
        /\ accepted'[Path[n]] = Append(accepted[Path[n]], n)
    BY <1>1
  <2>2. /\ Len(accepted'[Path[n]]) = Len(accepted[Path[n]]) + 1
        /\ accepted'[Path[n]][Len(accepted[Path[n]]) + 1] = n
        /\ \A x \in 1..Len(accepted[Path[n]]) : accepted'[Path[n]][x] = accepted[Path[n]][x]
    BY <2>1
  <2>3. Nth(i, m)' <=> i \in 1..Len(accepted'[Path[n]]) /\ accepted'[Path[n]][i] = m
    BY <1>3 DEF Nth
  <2>4. Nth(i, m) <=> i \in 1..Len(accepted[Path[n]]) /\ accepted[Path[n]][i] = m
    BY <1>3 DEF Nth
  <2>5. i \in 1..Len(accepted'[Path[n]])
          <=> i \in 1..Len(accepted[Path[n]]) \/ i = Len(accepted[Path[n]]) + 1
    BY <2>1, <2>2
  <2>6. ~(Len(accepted[Path[n]]) + 1 \in 1..Len(accepted[Path[n]]))
    BY <2>1
  <2> QED
    BY <2>2, <2>3, <2>4, <2>5, <2>6
<1> QED
  BY <1>2, <1>3

\* Steps that accept nothing leave the numbers of messages alone.
LEMMA NumbersStay ==
    ASSUME accepted' = accepted, NEW m \in Msgs, NEW n \in Msgs
    PROVE  /\ \A i \in Nat : Nth(i, m)' <=> Nth(i, m)
           /\ Before(m, n)' <=> Before(m, n)
BY DEF Nth, Before

\* A message that is new is nowhere.
LEMMA NewIsNowhere ==
    ASSUME HereIsOnPath, NEW n \in Msgs, ~InSeq(n, accepted[Path[n]]),
           NEW q \in Queues, NEW k \in Nat, NEW h \in 1..3
    PROVE  ~Here(q, k, n, h)
BY DEF HereIsOnPath, Nth, InSeq

\* Taking a message keeps the order.
LEMMA TakeKeepsOrder ==
    ASSUME TypeOK, OrderInv, NEW q \in Queues, Take(q)
    PROVE  OrderInv'
<1> DEFINE From(r, k) == IF r = q THEN k + 1 ELSE k
<1>1. accepted' = accepted /\ handled' = handled
  BY DEF Take
<1>2. \A r \in Queues, k \in Nat, m \in Msgs, h \in 1..3 :
        From(r, k) \in Nat /\ (Here(r, k, m, h)' <=> Here(r, From(r, k), m, h))
  BY TakeMoves
<1>3. \A m, n \in Msgs : /\ \A i \in Nat : Nth(i, m)' <=> Nth(i, m)
                         /\ Before(m, n)' <=> Before(m, n)
  BY <1>1, NumbersStay
<1>4. HandledArePrefix'
  BY <1>1 DEF OrderInv, HandledArePrefix
<1>5. HereIsOnPath'
  <2> SUFFICES ASSUME NEW r \in Queues, NEW k \in Nat, NEW m \in Msgs, NEW h \in 1..3,
                      Here(r, k, m, h)'
               PROVE  /\ h <= Len(Path[m]) /\ Path[m][h] = r
                      /\ \E i \in Nat : Nth(i, m)' /\ i > Len(handled'[Path[m]])
    BY DEF HereIsOnPath
  <2>1. From(r, k) \in Nat /\ Here(r, From(r, k), m, h)
    BY <1>2
  <2>2. /\ h <= Len(Path[m]) /\ Path[m][h] = r
        /\ \E i \in Nat : Nth(i, m) /\ i > Len(handled[Path[m]])
    BY <2>1 DEF OrderInv, HereIsOnPath
  <2> QED
    BY <1>1, <1>3, <2>2
<1>6. NoneIsLost'
  <2> SUFFICES ASSUME NEW m \in Msgs, NEW i \in Nat, Nth(i, m)', i > Len(handled'[Path[m]])
               PROVE  \E r \in Queues, k \in Nat, h \in 1..3 : Here(r, k, m, h)'
    BY DEF NoneIsLost
  <2>1. PICK r \in Queues, k \in Nat, h \in 1..3 : Here(r, k, m, h)
    BY <1>1, <1>3 DEF OrderInv, NoneIsLost
  <2>2. r = q => k # 0
    <3>1. hand[q] = NULL /\ <<m, h>> # NULL
      BY HandIsItem DEF Take
    <3>2. ~Here(q, 0, m, h)
      BY <3>1 DEF Here
    <3> QED
      BY <2>1, <3>2
  <2>3. PICK l \in Nat : k = From(r, l)
    <3>1. CASE r = q
      <4>1. k - 1 \in Nat /\ k = From(r, k - 1)
        BY <2>2, <3>1
      <4> QED
        BY <4>1
    <3>2. CASE r # q
      BY <3>2
    <3> QED
      BY <3>1, <3>2
  <2> QED
    BY <1>2, <2>1, <2>3
<1>7. NoneOvertakes'
  <2> SUFFICES ASSUME NEW r \in Queues, NEW s \in Queues, NEW k \in Nat, NEW l \in Nat,
                      NEW m \in Msgs, NEW n \in Msgs, NEW h \in 1..3, NEW g \in 1..3,
                      Here(r, k, m, h)', Here(s, l, n, g)', Path[m] = Path[n],
                      h > g \/ (h = g /\ k < l)
               PROVE  Before(m, n)'
    BY DEF NoneOvertakes
  <2>1. Here(r, From(r, k), m, h) /\ Here(s, From(s, l), n, g)
    BY <1>2
  <2>2. From(r, k) \in Nat /\ From(s, l) \in Nat
    BY <1>2
  <2>3. h = g => r = s
    BY <2>1, <2>2 DEF OrderInv, HereIsOnPath
  <2>4. h > g \/ (h = g /\ From(r, k) < From(s, l))
    BY <2>3
  <2>5. Before(m, n)
    BY <2>1, <2>2, <2>4 DEF OrderInv, NoneOvertakes
  <2> QED
    BY <1>3, <2>5
<1> QED
  BY <1>4, <1>5, <1>6, <1>7 DEF OrderInv

\* A sequence with one more element.
LEMMA AppendExtends ==
    ASSUME NEW S, NEW s \in Seq(S), NEW e \in S
    PROVE  /\ Len(s) \in Nat /\ Append(s, e) \in Seq(S)
           /\ Len(Append(s, e)) = Len(s) + 1
           /\ Append(s, e)[Len(s) + 1] = e
           /\ \A i \in 1..Len(s) : Append(s, e)[i] = s[i]
           /\ \A i \in 1..Len(Append(s, e)) : i \in 1..Len(s) \/ i = Len(s) + 1
OBVIOUS

\* PrefixOf holds still with a message more,
LEMMA PrefixExtends ==
    ASSUME NEW p, NEW d \in Seq(Msgs), NEW a \in Seq(Msgs), PrefixOf(d, a, p),
           NEW n \in Msgs, Path[n] = p, ~InSeq(n, a)
    PROVE  PrefixOf(d, Append(a, n), p)
<1> DEFINE b == Append(a, n)
<1>1. /\ Len(a) \in Nat
      /\ Len(b) = Len(a) + 1
      /\ b[Len(a) + 1] = n
      /\ \A i \in 1..Len(a) : b[i] = a[i]
      /\ \A i \in 1..Len(b) : i \in 1..Len(a) \/ i = Len(a) + 1
  BY AppendExtends
<1>2. Len(d) \in Nat /\ Len(d) <= Len(a)
  BY DEF PrefixOf
<1>3. \A i \in 1..Len(a) : a[i] # n
  BY DEF InSeq
<1> HIDE DEF b
<1>4. Len(d) <= Len(b)
  BY <1>1, <1>2
<1>5. ASSUME NEW i \in 1..Len(d) PROVE d[i] = b[i]
  <2>1. i \in 1..Len(a)
    BY <1>1, <1>2
  <2> QED
    BY <1>1, <2>1 DEF PrefixOf
<1>6. ASSUME NEW i \in 1..Len(b) PROVE Path[b[i]] = p
  <2>1. CASE i \in 1..Len(a)
    BY <1>1, <2>1 DEF PrefixOf
  <2>2. CASE i = Len(a) + 1
    BY <1>1, <2>2
  <2> QED
    BY <1>1, <2>1, <2>2
<1>7. ASSUME NEW i \in 1..Len(b), NEW j \in 1..Len(b), b[i] = b[j] PROVE i = j
  <2>1. CASE i \in 1..Len(a) /\ j \in 1..Len(a)
    BY <1>1, <1>7, <2>1 DEF PrefixOf
  <2>2. CASE i \in 1..Len(a) /\ j = Len(a) + 1
    BY <1>1, <1>3, <1>7, <2>2
  <2>3. CASE i = Len(a) + 1 /\ j \in 1..Len(a)
    BY <1>1, <1>3, <1>7, <2>3
  <2> QED
    BY <1>1, <2>1, <2>2, <2>3
<1>8. PrefixOf(d, b, p)
  BY <1>4, <1>5, <1>6, <1>7 DEF PrefixOf
<1> QED
  BY <1>8 DEF b

\* and with the next message handled.
LEMMA PrefixAdvances ==
    ASSUME NEW p, NEW d \in Seq(Msgs), NEW a \in Seq(Msgs), PrefixOf(d, a, p),
           NEW n \in Msgs, Len(d) + 1 \in 1..Len(a), a[Len(d) + 1] = n
    PROVE  PrefixOf(Append(d, n), a, p)
<1> DEFINE b == Append(d, n)
<1>1. /\ Len(d) \in Nat
      /\ Len(b) = Len(d) + 1
      /\ b[Len(d) + 1] = n
      /\ \A i \in 1..Len(d) : b[i] = d[i]
      /\ \A i \in 1..Len(b) : i \in 1..Len(d) \/ i = Len(d) + 1
  BY AppendExtends
<1>2. Len(a) \in Nat
  OBVIOUS
<1> HIDE DEF b
<1>3. Len(b) <= Len(a)
  BY <1>1, <1>2
<1>4. ASSUME NEW i \in 1..Len(b) PROVE b[i] = a[i]
  <2>1. CASE i \in 1..Len(d)
    BY <1>1, <2>1 DEF PrefixOf
  <2>2. CASE i = Len(d) + 1
    BY <1>1, <2>2
  <2> QED
    BY <1>1, <2>1, <2>2
<1>5. PrefixOf(b, a, p)
  BY <1>3, <1>4 DEF PrefixOf
<1> QED
  BY <1>5 DEF b

\* Queueing a new message keeps the order.
LEMMA AcceptKeepsOrder ==
    ASSUME TypeOK, OrderInv, NEW q \in Queues, NEW n \in Msgs, Path[n][1] = q,
           ~InSeq(n, accepted[Path[n]]), Enqueue(q, <<n, 1>>),
           accepted' = Recorded(accepted, n), hand' = hand, handled' = handled
    PROVE  OrderInv'
<1>a. PICK L \in Nat : L = Len(queue[q])
  <2>1. queue[q] \in Seq(Items)
    BY DEF TypeOK
  <2> QED
    BY <2>1
<1>b. PICK N \in Nat : N = Len(accepted[Path[n]])
  <2>1. accepted[Path[n]] \in Seq(Msgs)
    BY DEF TypeOK, Paths
  <2> QED
    BY <2>1
<1>1. Path[n] \in Paths
  BY DEF Paths
<1>2. \A r \in Queues, k \in Nat, m \in Msgs, h \in 1..3 :
        Here(r, k, m, h)' <=> \/ Here(r, k, m, h)
                              \/ r = q /\ k = L + 1 /\ m = n /\ h = 1
  <2> SUFFICES ASSUME NEW r \in Queues, NEW k \in Nat, NEW m \in Msgs, NEW h \in 1..3
               PROVE  Here(r, k, m, h)' <=> \/ Here(r, k, m, h)
                                            \/ r = q /\ k = L + 1 /\ m = n /\ h = 1
    OBVIOUS
  <2>1. CASE k = 0
    <3>1. Here(r, 0, m, h)' <=> Here(r, 0, m, h)
      BY DEF Here
    <3> QED
      BY <1>1, <2>1, <3>1
  <2>2. CASE k # 0
    <3>1. k \in Nat \ {0} /\ <<n, 1>> \in Items
      BY <2>2 DEF Items
    <3>2. Here(r, k, m, h)' <=> \/ Here(r, k, m, h)
                                \/ r = q /\ k = Len(queue[q]) + 1 /\ <<n, 1>> = <<m, h>>
      BY <3>1, EnqueueAdds
    <3>3. <<n, 1>> = <<m, h>> <=> m = n /\ h = 1
      OBVIOUS
    <3> QED
      BY <1>a, <3>2, <3>3
  <2> QED
    BY <2>1, <2>2
<1>3. \A m \in Msgs, i \in Nat : Nth(i, m)' <=> Nth(i, m) \/ (m = n /\ i = N + 1)
  BY <1>b, AcceptCounts
<1>4. \A r \in Queues, k \in Nat, h \in 1..3 : ~Here(r, k, n, h)
  BY NewIsNowhere DEF OrderInv
<1>5. \A i \in Nat : ~Nth(i, n)
  BY DEF Nth, InSeq
<1>6. Len(handled[Path[n]]) <= N
  BY <1>1, <1>b DEF OrderInv, HandledArePrefix, PrefixOf
<1>7. Len(Path[n]) \in 1..3
  BY PathLength
<1>8. HandledArePrefix'
  <2>1. accepted \in [Paths -> Seq(Msgs)] /\ handled \in [Paths -> Seq(Msgs)]
    BY DEF TypeOK
  <2>2. accepted' = [accepted EXCEPT ![Path[n]] = Append(accepted[Path[n]], n)]
    BY DEF Recorded
  <2> SUFFICES ASSUME NEW p \in Paths
               PROVE  PrefixOf(handled[p], accepted'[p], p)
    BY DEF HandledArePrefix
  <2>3. PrefixOf(handled[p], accepted[p], p)
    BY DEF OrderInv, HandledArePrefix
  <2>4. CASE p # Path[n]
    BY <2>1, <2>2, <2>3, <2>4
  <2>5. CASE p = Path[n]
    <3>1. /\ accepted[p] \in Seq(Msgs) /\ accepted'[p] = Append(accepted[p], n)
          /\ handled[p] \in Seq(Msgs)
      BY <2>1, <2>2, <2>5
    <3> QED
      BY <2>3, <2>5, <3>1, PrefixExtends
  <2> QED
    BY <2>4, <2>5
<1>9. HereIsOnPath'
  <2> SUFFICES ASSUME NEW r \in Queues, NEW k \in Nat, NEW m \in Msgs, NEW h \in 1..3,
                      Here(r, k, m, h)'
               PROVE  /\ h <= Len(Path[m]) /\ Path[m][h] = r
                      /\ \E i \in Nat : Nth(i, m)' /\ i > Len(handled'[Path[m]])
    BY DEF HereIsOnPath
  <2>1. CASE Here(r, k, m, h)
    BY <1>3, <2>1 DEF OrderInv, HereIsOnPath
  <2>2. CASE r = q /\ k = L + 1 /\ m = n /\ h = 1
    <3>1. N + 1 \in Nat /\ Nth(N + 1, n)'
      BY <1>1, <1>3
    <3>2. Len(handled[Path[n]]) \in Nat
      BY <1>1 DEF TypeOK
    <3>3. N + 1 > Len(handled'[Path[n]])
      BY <1>1, <1>6, <3>2
    <3> QED
      BY <1>7, <2>2, <3>1, <3>3
  <2> QED
    BY <1>2, <2>1, <2>2
<1>10. NoneIsLost'
  <2> SUFFICES ASSUME NEW m \in Msgs, NEW i \in Nat, Nth(i, m)', i > Len(handled'[Path[m]])
               PROVE  \E r \in Queues, k \in Nat, h \in 1..3 : Here(r, k, m, h)'
    BY DEF NoneIsLost
  <2>1. CASE Nth(i, m)
    BY <1>2, <2>1 DEF OrderInv, NoneIsLost
  <2>2. CASE m = n
    <3>1. L + 1 \in Nat /\ 1 \in 1..3
      BY <1>1
    <3>2. Here(q, L + 1, n, 1)'
      BY <1>2, <3>1
    <3> QED
      BY <2>2, <3>1, <3>2
  <2> QED
    BY <1>3, <2>1, <2>2
<1>11. NoneOvertakes'
  <2> SUFFICES ASSUME NEW r \in Queues, NEW s \in Queues, NEW k \in Nat, NEW l \in Nat,
                      NEW m \in Msgs, NEW x \in Msgs, NEW h \in 1..3, NEW g \in 1..3,
                      Here(r, k, m, h)', Here(s, l, x, g)', Path[m] = Path[x],
                      h > g \/ (h = g /\ k < l)
               PROVE  Before(m, x)'
    BY DEF NoneOvertakes
  <2>1. CASE Here(r, k, m, h) /\ Here(s, l, x, g)
    <3>1. Before(m, x)
      BY <2>1 DEF OrderInv, NoneOvertakes
    <3>2. m # n /\ x # n
      BY <1>4, <2>1
    <3> QED
      BY <1>3, <3>1, <3>2 DEF Before
  <2>2. CASE r = q /\ k = L + 1 /\ m = n /\ h = 1
    <3>1. g = 1 /\ L + 1 < l
      BY <1>1, <2>2
    <3>2. ~(s = q /\ l = L + 1 /\ x = n /\ g = 1)
      BY <1>1, <3>1
    <3>3. Here(s, l, x, g)
      BY <1>2, <3>2
    <3>4. s = q
      BY <2>2, <3>1, <3>3 DEF OrderInv, HereIsOnPath
    <3>5. l <= L
      BY <1>a, <3>3, <3>4, PlaceIsInQueue
    <3> QED
      BY <1>1, <3>1, <3>5
  <2>3. CASE Here(r, k, m, h) /\ s = q /\ l = L + 1 /\ x = n /\ g = 1
    <3>1. m # n
      BY <1>4, <2>3
    <3>2. ASSUME NEW i \in Nat, NEW j \in Nat, Nth(i, m)', Nth(j, x)'
          PROVE  i < j
      <4>1. Nth(i, m) /\ j = N + 1
        BY <1>3, <1>5, <2>3, <3>1, <3>2
      <4>2. i <= N
        BY <1>b, <2>3, <4>1 DEF Nth
      <4> QED
        BY <1>1, <4>1, <4>2
    <3> QED
      BY <3>2 DEF Before
  <2> QED
    BY <1>2, <2>1, <2>2, <2>3
<1> QED
  BY <1>8, <1>9, <1>10, <1>11 DEF OrderInv

\* What a consumer has in its hand is a message at a hop of its path.
LEMMA InHand ==
    ASSUME TypeOK, OrderInv, NEW q \in Queues, hand[q] # NULL
    PROVE  \E n \in Msgs, g \in 1..3 :
             /\ hand[q] = <<n, g>> /\ Here(q, 0, n, g)
             /\ g <= Len(Path[n]) /\ Path[n][g] = q
             /\ \E i \in Nat : Nth(i, n) /\ i > Len(handled[Path[n]])
<1>1. hand[q] \in Msgs \X (1..3)
  BY DEF TypeOK, Items
<1>2. PICK n \in Msgs, g \in 1..3 : hand[q] = <<n, g>>
  BY <1>1
<1>3. Here(q, 0, n, g)
  BY <1>2 DEF Here
<1> QED
  BY <1>2, <1>3 DEF OrderInv, HereIsOnPath

\* The next queue is that of the path: the threads hand on to the right one.
LEMMA GoesAlongPath ==
    ASSUME NEW n \in Msgs, NEW g \in 1..3, g < Len(Path[n])
    PROVE  Path[n][g + 1] = IF Path[n][g] = "crud" THEN "up" ELSE "crud"
<1>1. \/ Path[n] = <<"down">> \/ Path[n] = <<"down", "crud", "up">>
      \/ Path[n] = <<"up">> \/ Path[n] = <<"up", "crud", "up">>
  BY MsgQueuesAssumption DEF ServerPaths, ClientPaths
<1>2. CASE Path[n] = <<"down">> \/ Path[n] = <<"up">>
  BY <1>2
<1>3. CASE Path[n] = <<"down", "crud", "up">>
  BY <1>3
<1>4. CASE Path[n] = <<"up", "crud", "up">>
  BY <1>4
<1> QED
  BY <1>1, <1>2, <1>3, <1>4

\* Handing a message on keeps the order.
LEMMA PassOnKeepsOrder ==
    ASSUME TypeOK, OrderInv, NEW q \in Queues, NEW to \in Queues, PassOnTo(q, to),
           to = IF q = "crud" THEN "up" ELSE "crud"
    PROVE  OrderInv'
<1>1. PICK n \in Msgs, g \in 1..3 :
        /\ hand[q] = <<n, g>> /\ Here(q, 0, n, g)
        /\ g <= Len(Path[n]) /\ Path[n][g] = q
        /\ \E i \in Nat : Nth(i, n) /\ i > Len(handled[Path[n]])
  BY InHand DEF PassOnTo, HasNext
<1>2. /\ Enqueue(to, NextHop(q)) /\ hand' = [hand EXCEPT ![q] = NULL]
      /\ accepted' = accepted /\ handled' = handled
  BY DEF PassOnTo, PassOn
<1>3. NextHop(q) = <<n, g + 1>> /\ NextHop(q) \in Items
  BY <1>1, NextHopIsItem DEF NextHop, PassOnTo
<1>4. g < Len(Path[n]) /\ Len(Path[n]) \in 1..3
  BY <1>1, PathLength DEF PassOnTo, HasNext
<1>5. g + 1 \in 1..3 /\ g + 1 <= Len(Path[n])
  <2>1. \A x, y \in 1..3 : x < y => x + 1 \in 1..3 /\ x + 1 <= y
    OBVIOUS
  <2> QED
    BY <1>4, <2>1
<1>6. Path[n][g + 1] = to
  BY <1>1, <1>4, GoesAlongPath
<1>a. PICK L \in Nat : L = Len(queue[to])
  <2>1. queue[to] \in Seq(Items)
    BY DEF TypeOK
  <2> QED
    BY <2>1
<1>7. \A r \in Queues, k \in Nat, m \in Msgs, h \in 1..3 :
        Here(r, k, m, h)' <=> \/ Here(r, k, m, h) /\ ~(r = q /\ k = 0)
                              \/ r = to /\ k = L + 1 /\ m = n /\ h = g + 1
  <2> SUFFICES ASSUME NEW r \in Queues, NEW k \in Nat, NEW m \in Msgs, NEW h \in 1..3
               PROVE  Here(r, k, m, h)' <=>
                        \/ Here(r, k, m, h) /\ ~(r = q /\ k = 0)
                        \/ r = to /\ k = L + 1 /\ m = n /\ h = g + 1
    OBVIOUS
  <2>1. CASE k = 0
    <3>1. Here(r, 0, m, h)' <=> Here(r, 0, m, h) /\ r # q
      BY <1>2, HandEmptied
    <3>2. k # L + 1
      BY <2>1
    <3> QED
      BY <2>1, <3>1, <3>2
  <2>2. CASE k # 0
    <3>1. k \in Nat \ {0}
      BY <2>2
    <3>2. Here(r, k, m, h)' <=>
            \/ Here(r, k, m, h)
            \/ r = to /\ k = Len(queue[to]) + 1 /\ NextHop(q) = <<m, h>>
      BY <1>2, <1>3, <3>1, EnqueueAdds
    <3>3. <<n, g + 1>> = <<m, h>> <=> m = n /\ h = g + 1
      OBVIOUS
    <3> QED
      BY <1>3, <1>a, <2>2, <3>2, <3>3
  <2> QED
    BY <2>1, <2>2
<1>8. \A m, x \in Msgs : /\ \A i \in Nat : Nth(i, m)' <=> Nth(i, m)
                         /\ Before(m, x)' <=> Before(m, x)
  BY <1>2, NumbersStay
<1>9. \A m \in Msgs, h \in 1..3 : Here(q, 0, m, h) => m = n /\ h = g
  BY <1>1 DEF Here
<1>10. HandledArePrefix'
  BY <1>2 DEF OrderInv, HandledArePrefix
<1>11. HereIsOnPath'
  <2> SUFFICES ASSUME NEW r \in Queues, NEW k \in Nat, NEW m \in Msgs, NEW h \in 1..3,
                      Here(r, k, m, h)'
               PROVE  /\ h <= Len(Path[m]) /\ Path[m][h] = r
                      /\ \E i \in Nat : Nth(i, m)' /\ i > Len(handled'[Path[m]])
    BY DEF HereIsOnPath
  <2>1. CASE Here(r, k, m, h)
    <3>1. /\ h <= Len(Path[m]) /\ Path[m][h] = r
          /\ \E i \in Nat : Nth(i, m) /\ i > Len(handled[Path[m]])
      BY <2>1 DEF OrderInv, HereIsOnPath
    <3> QED
      BY <1>2, <1>8, <3>1
  <2>2. CASE r = to /\ k = L + 1 /\ m = n /\ h = g + 1
    BY <1>1, <1>2, <1>5, <1>6, <1>8, <2>2
  <2> QED
    BY <1>7, <2>1, <2>2
<1>12. NoneIsLost'
  <2> SUFFICES ASSUME NEW m \in Msgs, NEW i \in Nat, Nth(i, m)', i > Len(handled'[Path[m]])
               PROVE  \E r \in Queues, k \in Nat, h \in 1..3 : Here(r, k, m, h)'
    BY DEF NoneIsLost
  <2>1. CASE m = n
    <3>1. L + 1 \in Nat
      OBVIOUS
    <3>2. Here(to, L + 1, n, g + 1)'
      BY <1>5, <1>7, <3>1
    <3> QED
      BY <1>5, <2>1, <3>1, <3>2
  <2>2. CASE m # n
    <3>1. PICK r \in Queues, k \in Nat, h \in 1..3 : Here(r, k, m, h)
      BY <1>2, <1>8 DEF OrderInv, NoneIsLost
    <3>2. ~(r = q /\ k = 0)
      BY <1>9, <2>2, <3>1
    <3> QED
      BY <1>7, <3>1, <3>2
  <2> QED
    BY <2>1, <2>2
<1>13. NoneOvertakes'
  <2> SUFFICES ASSUME NEW r \in Queues, NEW s \in Queues, NEW k \in Nat, NEW l \in Nat,
                      NEW m \in Msgs, NEW x \in Msgs, NEW h \in 1..3, NEW f \in 1..3,
                      Here(r, k, m, h)', Here(s, l, x, f)', Path[m] = Path[x],
                      h > f \/ (h = f /\ k < l)
               PROVE  Before(m, x)
    BY <1>8 DEF NoneOvertakes
  <2>1. CASE Here(r, k, m, h) /\ Here(s, l, x, f)
    BY <2>1 DEF OrderInv, NoneOvertakes
  <2>2. CASE r = to /\ k = L + 1 /\ m = n /\ h = g + 1
    <3>1. ~(s = to /\ l = L + 1 /\ x = n /\ f = g + 1)
      BY <2>2
    <3>2. Here(s, l, x, f) /\ ~(s = q /\ l = 0)
      BY <1>7, <3>1
    <3>3. Path[x][f] = s
      BY <3>2 DEF OrderInv, HereIsOnPath
    <3>4. f # g + 1
      <4>1. SUFFICES ASSUME f = g + 1 PROVE FALSE
        OBVIOUS
      <4>2. s = to /\ L + 1 < l
        BY <1>6, <2>2, <3>3, <4>1
      <4>3. l <= L
        BY <1>a, <3>2, <4>2, PlaceIsInQueue
      <4> QED
        BY <4>2, <4>3
    <3>5. g > f \/ (g = f /\ 0 < l)
      <4>1. f <= g
        BY <2>2, <3>4
      <4>2. f = g => s = q
        BY <1>1, <2>2, <3>3
      <4> QED
        BY <3>2, <4>1, <4>2
    <3>6. Here(q, 0, n, g) /\ Path[n] = Path[x] /\ 0 \in Nat
      BY <1>1, <2>2
    <3>7. Before(n, x)
      BY <3>2, <3>5, <3>6 DEF OrderInv, NoneOvertakes
    <3> QED
      BY <2>2, <3>7
  <2>3. CASE Here(r, k, m, h) /\ s = to /\ l = L + 1 /\ x = n /\ f = g + 1
    <3>1. h > g
      BY <2>3
    <3>2. Here(q, 0, n, g) /\ Path[m] = Path[n] /\ 0 \in Nat
      BY <1>1, <2>3
    <3>3. Before(m, n)
      BY <2>3, <3>1, <3>2 DEF OrderInv, NoneOvertakes
    <3> QED
      BY <2>3, <3>3
  <2> QED
    BY <1>7, <2>1, <2>2, <2>3
<1> QED
  BY <1>10, <1>11, <1>12, <1>13 DEF OrderInv

\* A message that reaches the end of its path is the oldest that is not handled: an
\* older one would be further along the path, or in front of it.
LEMMA OldestFinishes ==
    ASSUME TypeOK, OrderInv, NEW q \in Queues, Finish(q)
    PROVE  \E n \in Msgs, g \in 1..3 :
             hand[q] = <<n, g>> /\ Nth(Len(handled[Path[n]]) + 1, n)
<1>1. PICK n \in Msgs, g \in 1..3 :
        /\ hand[q] = <<n, g>> /\ Here(q, 0, n, g)
        /\ g <= Len(Path[n]) /\ Path[n][g] = q
        /\ \E i \in Nat : Nth(i, n) /\ i > Len(handled[Path[n]])
  BY InHand DEF Finish
<1>2. g = Len(Path[n])
  BY <1>1 DEF Finish
<1>3. PICK i \in Nat : Nth(i, n) /\ i > Len(handled[Path[n]])
  BY <1>1
<1>4. PICK p : p = Path[n]
  OBVIOUS
<1>5. /\ p \in Paths /\ accepted[p] \in Seq(Msgs) /\ handled[p] \in Seq(Msgs)
      /\ PrefixOf(handled[p], accepted[p], p)
  BY <1>4 DEF TypeOK, Paths, OrderInv, HandledArePrefix
<1>6. PICK j \in Nat : j = Len(handled[p]) + 1
  BY <1>5
<1>7. i \in 1..Len(accepted[p]) /\ accepted[p][i] = n /\ i >= j
  BY <1>3, <1>4, <1>5, <1>6 DEF Nth
<1>8. j \in 1..Len(accepted[p])
  BY <1>5, <1>6, <1>7
<1>9. PICK x \in Msgs : x = accepted[p][j]
  BY <1>5, <1>8
<1>10. Path[x] = p
  BY <1>5, <1>8, <1>9 DEF PrefixOf
<1>11. Nth(j, x) /\ j > Len(handled[Path[x]])
  BY <1>5, <1>6, <1>8, <1>9, <1>10 DEF Nth
<1>12. PICK r \in Queues, l \in Nat, f \in 1..3 : Here(r, l, x, f)
  BY <1>11 DEF OrderInv, NoneIsLost
<1>13. f <= g /\ Path[x][f] = r
  BY <1>2, <1>4, <1>10, <1>12 DEF OrderInv, HereIsOnPath
<1>14. CASE f = g /\ l = 0
  <2>1. hand[q] = <<x, f>>
    BY <1>1, <1>4, <1>10, <1>12, <1>13, <1>14 DEF Here
  <2>2. x = n
    BY <1>1, <2>1
  <2> QED
    BY <1>1, <1>4, <1>6, <1>11, <2>2
<1>15. CASE ~(f = g /\ l = 0)
  <2>1. g > f \/ (g = f /\ 0 < l)
    BY <1>13, <1>15
  <2>2. 0 \in Nat /\ Path[n] = Path[x]
    BY <1>4, <1>10
  <2>3. Before(n, x)
    BY <1>1, <1>12, <2>1, <2>2 DEF OrderInv, NoneOvertakes
  <2>4. i < j
    BY <1>3, <1>11, <2>3 DEF Before
  <2> QED
    BY <1>7, <2>4
<1> QED
  BY <1>14, <1>15

\* Finishing a message keeps the order.
LEMMA FinishKeepsOrder ==
    ASSUME TypeOK, OrderInv, NEW q \in Queues, Finish(q)
    PROVE  OrderInv'
<1>1. PICK n \in Msgs, g \in 1..3 :
        hand[q] = <<n, g>> /\ Nth(Len(handled[Path[n]]) + 1, n)
  BY OldestFinishes
<1>2. /\ hand' = [hand EXCEPT ![q] = NULL] /\ queue' = queue /\ accepted' = accepted
      /\ handled' = [handled EXCEPT ![Path[n]] = Append(handled[Path[n]], n)]
  BY <1>1 DEF Finish, Recorded
<1>3. /\ handled \in [Paths -> Seq(Msgs)] /\ accepted \in [Paths -> Seq(Msgs)]
      /\ Path[n] \in Paths /\ \A m \in Msgs : Path[m] \in Paths
  BY DEF TypeOK, Paths
<1>4. \A r \in Queues, k \in Nat, m \in Msgs, h \in 1..3 :
        Here(r, k, m, h)' <=> Here(r, k, m, h) /\ ~(r = q /\ k = 0)
  <2> SUFFICES ASSUME NEW r \in Queues, NEW k \in Nat, NEW m \in Msgs, NEW h \in 1..3
               PROVE  Here(r, k, m, h)' <=> Here(r, k, m, h) /\ ~(r = q /\ k = 0)
    OBVIOUS
  <2>1. CASE k = 0
    <3>1. Here(r, 0, m, h)' <=> Here(r, 0, m, h) /\ r # q
      BY <1>2, HandEmptied
    <3> QED
      BY <2>1, <3>1
  <2>2. CASE k # 0
    BY <1>2, <2>2 DEF Here
  <2> QED
    BY <2>1, <2>2
<1>5. \A m, x \in Msgs : /\ \A i \in Nat : Nth(i, m)' <=> Nth(i, m)
                         /\ Before(m, x)' <=> Before(m, x)
  BY <1>2, NumbersStay
<1>6. PICK d \in Nat : d = Len(handled[Path[n]])
  BY <1>3
<1>7. Len(handled'[Path[n]]) = d + 1
  BY <1>2, <1>3, <1>6
<1>8. \A m \in Msgs : Path[m] # Path[n] => handled'[Path[m]] = handled[Path[m]]
  BY <1>2, <1>3
<1>9. \A m \in Msgs, i \in Nat : Path[m] = Path[n] /\ Nth(i, m) => (i = d + 1 <=> m = n)
  <2>1. PrefixOf(handled[Path[n]], accepted[Path[n]], Path[n])
    BY <1>3 DEF OrderInv, HandledArePrefix
  <2> QED
    BY <1>1, <1>6, <2>1 DEF Nth, PrefixOf
<1>10. HandledArePrefix'
  <2> SUFFICES ASSUME NEW p \in Paths
               PROVE  PrefixOf(handled'[p], accepted[p], p)
    BY <1>2 DEF HandledArePrefix
  <2>1. PrefixOf(handled[p], accepted[p], p)
    BY DEF OrderInv, HandledArePrefix
  <2>2. CASE p # Path[n]
    <3>1. handled'[p] = handled[p]
      BY <1>2, <1>3, <2>2
    <3> QED
      BY <2>1, <3>1
  <2>3. CASE p = Path[n]
    <3>1. /\ handled'[p] = Append(handled[p], n)
          /\ handled[p] \in Seq(Msgs) /\ accepted[p] \in Seq(Msgs)
      BY <1>2, <1>3, <2>3
    <3>2. Len(handled[p]) + 1 \in 1..Len(accepted[p]) /\ accepted[p][Len(handled[p]) + 1] = n
      BY <1>1, <2>3 DEF Nth
    <3> QED
      BY <2>1, <3>1, <3>2, PrefixAdvances
  <2> QED
    BY <2>2, <2>3
<1>11. \A m \in Msgs, h \in 1..3 : Here(q, 0, m, h) => m = n
  BY <1>1 DEF Here
<1>12. \A r \in Queues, k \in Nat, h \in 1..3 : Here(r, k, n, h) => r = q /\ k = 0
  <2> SUFFICES ASSUME NEW r \in Queues, NEW k \in Nat, NEW h \in 1..3, Here(r, k, n, h),
                      ~(r = q /\ k = 0)
               PROVE  FALSE
    OBVIOUS
  <2>1. Here(q, 0, n, g) /\ 0 \in Nat
    BY <1>1 DEF Here
  <2>2. d + 1 \in Nat /\ Nth(d + 1, n)
    BY <1>1, <1>6
  <2>3. ~Before(n, n)
    BY <2>2 DEF Before
  <2>4. h = g => r = q
    BY <2>1 DEF OrderInv, HereIsOnPath
  <2>5. h > g \/ g > h \/ (g = h /\ 0 < k)
    BY <2>4
  <2> QED
    BY <2>1, <2>3, <2>5 DEF OrderInv, NoneOvertakes
<1>13. HereIsOnPath'
  <2> SUFFICES ASSUME NEW r \in Queues, NEW k \in Nat, NEW m \in Msgs, NEW h \in 1..3,
                      Here(r, k, m, h)'
               PROVE  /\ h <= Len(Path[m]) /\ Path[m][h] = r
                      /\ \E i \in Nat : Nth(i, m) /\ i > Len(handled'[Path[m]])
    BY <1>5 DEF HereIsOnPath
  <2>1. Here(r, k, m, h) /\ m # n
    BY <1>4, <1>12
  <2>2. h <= Len(Path[m]) /\ Path[m][h] = r
    BY <2>1 DEF OrderInv, HereIsOnPath
  <2>3. PICK i \in Nat : Nth(i, m) /\ i > Len(handled[Path[m]])
    BY <2>1 DEF OrderInv, HereIsOnPath
  <2>4. CASE Path[m] # Path[n]
    BY <1>8, <2>2, <2>3, <2>4
  <2>5. CASE Path[m] = Path[n]
    <3>1. i # d + 1 /\ i > d
      BY <1>6, <1>9, <2>1, <2>3, <2>5
    <3>2. i > Len(handled'[Path[m]])
      BY <1>7, <2>5, <3>1
    <3> QED
      BY <2>2, <2>3, <3>2
  <2> QED
    BY <2>4, <2>5
<1>14. NoneIsLost'
  <2> SUFFICES ASSUME NEW m \in Msgs, NEW i \in Nat, Nth(i, m), i > Len(handled'[Path[m]])
               PROVE  \E r \in Queues, k \in Nat, h \in 1..3 : Here(r, k, m, h)'
    BY <1>5 DEF NoneIsLost
  <2>1. m # n /\ i > Len(handled[Path[m]])
    <3>1. CASE Path[m] # Path[n]
      BY <1>8, <3>1
    <3>2. CASE Path[m] = Path[n]
      <4>1. i > d + 1
        BY <1>7, <3>2
      <4> QED
        BY <1>6, <1>9, <3>2, <4>1
    <3> QED
      BY <3>1, <3>2
  <2>2. PICK r \in Queues, k \in Nat, h \in 1..3 : Here(r, k, m, h)
    BY <2>1 DEF OrderInv, NoneIsLost
  <2>3. ~(r = q /\ k = 0)
    BY <1>11, <2>1, <2>2
  <2> QED
    BY <1>4, <2>2, <2>3
<1>15. NoneOvertakes'
  <2> SUFFICES ASSUME NEW r \in Queues, NEW s \in Queues, NEW k \in Nat, NEW l \in Nat,
                      NEW m \in Msgs, NEW x \in Msgs, NEW h \in 1..3, NEW f \in 1..3,
                      Here(r, k, m, h)', Here(s, l, x, f)', Path[m] = Path[x],
                      h > f \/ (h = f /\ k < l)
               PROVE  Before(m, x)
    BY <1>5 DEF NoneOvertakes
  <2>1. Here(r, k, m, h) /\ Here(s, l, x, f)
    BY <1>4
  <2> QED
    BY <2>1 DEF OrderInv, NoneOvertakes
<1> QED
  BY <1>10, <1>13, <1>14, <1>15 DEF OrderInv

\* Steps that move no message keep the order.
LEMMA StillKeepsOrder ==
    ASSUME OrderInv, UNCHANGED <<queue, hand, accepted, handled>>
    PROVE  OrderInv'
<1>1. \A q \in Queues, k \in Nat, m \in Msgs, h \in 1..3 :
        Here(q, k, m, h)' <=> Here(q, k, m, h)
  BY DEF Here
<1>2. \A m, n \in Msgs : /\ \A i \in Nat : Nth(i, m)' <=> Nth(i, m)
                         /\ Before(m, n)' <=> Before(m, n)
  BY NumbersStay
<1>3. HandledArePrefix'
  BY DEF OrderInv, HandledArePrefix
<1>4. HereIsOnPath'
  BY <1>1, <1>2 DEF OrderInv, HereIsOnPath
<1>5. NoneIsLost'
  BY <1>1, <1>2 DEF OrderInv, NoneIsLost
<1>6. NoneOvertakes'
  BY <1>1, <1>2 DEF OrderInv, NoneOvertakes
<1> QED
  BY <1>3, <1>4, <1>5, <1>6 DEF OrderInv

\* Steps that neither receive nor accept keep the received message new.
LEMMA StillNew ==
    ASSUME ReceivedIsNew, UNCHANGED <<upc, umsg, accepted>>
    PROVE  ReceivedIsNew'
BY DEF ReceivedIsNew, InSeq

\* Messages of the cloud begin in ParodusMsgQ, those of clients in UpStreamMsgQ.
LEMMA FirstQueue ==
    ASSUME NEW n \in Msgs
    PROVE  /\ Path[n] \in ServerPaths => Path[n][1] = "down"
           /\ Path[n] \in ClientPaths => Path[n][1] = "up"
BY DEF ServerPaths, ClientPaths

\* Every step of a consumer keeps the order.
LEMMA ConsumeKeepsOrder ==
    ASSUME TypeOK, FifoInv, NEW q \in Queues, Consume(q)
    PROVE  FifoInv'
<1>1. CASE Take(q)
  <2>1. UNCHANGED <<upc, umsg, accepted>>
    BY <1>1 DEF Take
  <2> QED
    BY <1>1, <2>1, TakeKeepsOrder, StillNew DEF FifoInv
<1>2. CASE Exit(q) \/ Wait(q)
  <2>1. UNCHANGED <<queue, hand, accepted, handled, upc, umsg>>
    BY <1>2 DEF Exit, Wait
  <2> QED
    BY <2>1, StillKeepsOrder, StillNew DEF FifoInv
<1>3. CASE Finish(q)
  <2>1. UNCHANGED <<upc, umsg, accepted>>
    BY <1>3 DEF Finish
  <2> QED
    BY <1>3, <2>1, FinishKeepsOrder, StillNew DEF FifoInv
<1> QED
  BY <1>1, <1>2, <1>3 DEF Consume

\* So does every hand-over.
LEMMA PassOnKeepsFifo ==
    ASSUME TypeOK, FifoInv, NEW q \in Queues, NEW to \in Queues, PassOnTo(q, to),
           to = IF q = "crud" THEN "up" ELSE "crud"
    PROVE  FifoInv'
<1>1. UNCHANGED <<upc, umsg, accepted>>
  BY DEF PassOnTo, PassOn
<1>2. OrderInv'
  BY PassOnKeepsOrder DEF FifoInv
<1> QED
  BY <1>1, <1>2, StillNew DEF FifoInv

\* Every step of every thread keeps the order of messages.
LEMMA NextKeepsOrder ==
    ASSUME TypeOK, FifoInv, [Next]_vars
    PROVE  FifoInv'
<1>1. ASSUME NEW m \in Msgs, listenerOnMessage_queue(m)
      PROVE  FifoInv'
  <2>1. /\ "down" \in Queues /\ Path[m][1] = "down"
        /\ ~InSeq(m, accepted[Path[m]]) /\ m # umsg
        /\ Enqueue("down", <<m, 1>>) /\ accepted' = Recorded(accepted, m)
        /\ UNCHANGED <<hand, handled, upc, umsg>>
    BY <1>1, FirstQueue DEF listenerOnMessage_queue, Fresh, Queues
  <2>2. OrderInv'
    BY <2>1, AcceptKeepsOrder DEF FifoInv
  <2>3. ReceivedIsNew'
    <3> SUFFICES ASSUME upc \in {"got", "push"}
                 PROVE  Path[umsg] \in ClientPaths /\ ~InSeq(umsg, accepted'[Path[umsg]])
      BY <2>1 DEF ReceivedIsNew
    <3>1. umsg \in Msgs /\ Path[umsg] \in ClientPaths /\ ~InSeq(umsg, accepted[Path[umsg]])
      BY DEF TypeOK, FifoInv, ReceivedIsNew
    <3>2. Path[umsg] \in Paths /\ Path[umsg] # Path[m]
      BY <1>1, <3>1 DEF Paths, listenerOnMessage_queue, ServerPaths, ClientPaths
    <3>3. accepted'[Path[umsg]] = accepted[Path[umsg]]
      BY <2>1, <3>2 DEF Recorded, TypeOK
    <3> QED
      BY <3>1, <3>3
  <2> QED
    BY <2>2, <2>3 DEF FifoInv
<1>2. ASSUME NEW m \in Msgs, UpstreamRecv(m)
      PROVE  FifoInv'
  <2>1. UNCHANGED <<queue, hand, accepted, handled>> /\ umsg' = m
    BY <1>2 DEF UpstreamRecv
  <2>2. Path[m] \in ClientPaths /\ ~InSeq(m, accepted[Path[m]])
    BY <1>2 DEF UpstreamRecv, Fresh
  <2>3. ReceivedIsNew'
    BY <2>1, <2>2 DEF ReceivedIsNew
  <2> QED
    BY <2>1, <2>3, StillKeepsOrder DEF FifoInv
<1>3. CASE UpstreamCheck
  <2>1. /\ UNCHANGED <<queue, hand, accepted, handled, umsg>>
        /\ upc' = "exited" \/ (upc = "got" /\ upc' = "push")
    BY <1>3 DEF UpstreamCheck
  <2>2. ReceivedIsNew'
    BY <2>1 DEF FifoInv, ReceivedIsNew, InSeq
  <2> QED
    BY <2>1, <2>2, StillKeepsOrder DEF FifoInv
<1>4. CASE UpstreamPush
  <2>1. umsg \in Msgs /\ Path[umsg] \in ClientPaths /\ ~InSeq(umsg, accepted[Path[umsg]])
    BY <1>4 DEF UpstreamPush, TypeOK, FifoInv, ReceivedIsNew
  <2>2. /\ "up" \in Queues /\ Path[umsg][1] = "up"
        /\ Enqueue("up", <<umsg, 1>>) /\ accepted' = Recorded(accepted, umsg)
        /\ UNCHANGED <<hand, handled>>
    BY <1>4, <2>1, FirstQueue DEF UpstreamPush, Queues
  <2>3. OrderInv'
    BY <2>1, <2>2, AcceptKeepsOrder DEF FifoInv
  <2>4. ReceivedIsNew'
    BY <1>4 DEF UpstreamPush, ReceivedIsNew
  <2> QED
    BY <2>3, <2>4 DEF FifoInv
<1>5. CASE messageHandlerTask
  BY <1>5, ConsumeKeepsOrder, PassOnKeepsFifo
     DEF messageHandlerTask, PassOnTo, addCRUDmsgToQueue, Queues
<1>6. CASE processUpstreamMessage
  BY <1>6, ConsumeKeepsOrder, PassOnKeepsFifo
     DEF processUpstreamMessage, PassOnTo, addCRUDmsgToQueue, Queues
<1>7. CASE CRUDHandlerTask
  BY <1>7, ConsumeKeepsOrder, PassOnKeepsFifo
     DEF CRUDHandlerTask, PassOnTo, addCRUDresponseToUpstreamQ, Queues
<1>8. CASE \/ shutdownSocketConnection \/ LeaveLoop \/ LeaveLoopForRetry
           \/ SignalConsumers \/ Join \/ UNCHANGED vars
  <2>1. UNCHANGED <<queue, hand, accepted, handled, upc, umsg>>
    BY <1>8 DEF shutdownSocketConnection, LeaveLoop, LeaveLoopForRetry, SignalConsumers,
                Signal, Join, vars
  <2> QED
    BY <2>1, StillKeepsOrder, StillNew DEF FifoInv
<1> QED
  BY <1>1, <1>2, <1>3, <1>4, <1>5, <1>6, <1>7, <1>8 DEF Next, Finished
-----------------------------------------------------------------------------
(* The refinement of MsgFifo.                                               *)

\* The end of a sequence from d + 1 on.
LEMMA SuffixProperties ==
    ASSUME NEW S, NEW a \in Seq(S), NEW d \in Nat, d <= Len(a)
    PROVE  /\ SubSeq(a, d + 1, Len(a)) \in Seq(S)
           /\ Len(SubSeq(a, d + 1, Len(a))) = Len(a) - d
           /\ \A i \in 1..(Len(a) - d) : SubSeq(a, d + 1, Len(a))[i] = a[d + i]
<1>1. Len(a) \in Nat /\ d + 1 \in Int /\ Len(a) \in Int
  OBVIOUS
<1>2. \A i \in (d + 1)..Len(a) : a[i] \in S
  BY <1>1
<1>3. /\ SubSeq(a, d + 1, Len(a)) \in Seq(S)
      /\ Len(SubSeq(a, d + 1, Len(a))) =
            IF d + 1 <= Len(a) THEN Len(a) - (d + 1) + 1 ELSE 0
      /\ \A i \in 1..(Len(a) - (d + 1) + 1) :
            SubSeq(a, d + 1, Len(a))[i] = a[d + 1 + i - 1]
  BY <1>1, <1>2, SubSeqProperties
<1>4. PICK s : s = SubSeq(a, d + 1, Len(a))
  OBVIOUS
<1>5. PICK l \in Nat : l = Len(a)
  BY <1>1
<1>6. /\ s \in Seq(S) /\ Len(s) = IF d + 1 <= l THEN l - (d + 1) + 1 ELSE 0
      /\ \A i \in 1..(l - (d + 1) + 1) : s[i] = a[d + 1 + i - 1]
  BY <1>3, <1>4, <1>5
<1>7. Len(s) = l - d
  BY <1>5, <1>6
<1>8. ASSUME NEW i \in 1..(l - d) PROVE s[i] = a[d + i]
  <2>1. i \in 1..(l - (d + 1) + 1) /\ d + 1 + i - 1 = d + i
    OBVIOUS
  <2> QED
    BY <1>6, <2>1
<1> QED
  BY <1>4, <1>5, <1>6, <1>7, <1>8

\* A message accepted joins the end of what is on its way.
LEMMA SuffixOfAppend ==
    ASSUME NEW S, NEW a \in Seq(S), NEW e \in S, NEW d \in Nat, d <= Len(a)
    PROVE  SubSeq(Append(a, e), d + 1, Len(Append(a, e)))
             = Append(SubSeq(a, d + 1, Len(a)), e)
<1> DEFINE b == Append(a, e)
           s == SubSeq(a, d + 1, Len(a))
           t == SubSeq(b, d + 1, Len(b))
<1>1. /\ Len(a) \in Nat /\ b \in Seq(S) /\ Len(b) = Len(a) + 1
      /\ b[Len(a) + 1] = e /\ \A i \in 1..Len(a) : b[i] = a[i]
  BY AppendExtends
<1>2. /\ s \in Seq(S) /\ Len(s) = Len(a) - d
      /\ \A i \in 1..(Len(a) - d) : s[i] = a[d + i]
  BY SuffixProperties
<1>3. d <= Len(b)
  BY <1>1
<1>4. /\ t \in Seq(S) /\ Len(t) = Len(b) - d
      /\ \A i \in 1..(Len(b) - d) : t[i] = b[d + i]
  BY <1>1, <1>3, SuffixProperties
<1>5. /\ Append(s, e) \in Seq(S) /\ Len(Append(s, e)) = Len(s) + 1
      /\ Append(s, e)[Len(s) + 1] = e /\ \A i \in 1..Len(s) : Append(s, e)[i] = s[i]
  <2> HIDE DEF s
  <2> QED
    BY <1>2, AppendExtends
<1> HIDE DEF b, s, t
<1>6. Len(t) = Len(Append(s, e)) /\ Len(t) = Len(a) - d + 1
  BY <1>1, <1>2, <1>4, <1>5
<1>7. ASSUME NEW i \in 1..Len(t) PROVE t[i] = Append(s, e)[i]
  <2>1. t[i] = b[d + i]
    BY <1>4
  <2>2. CASE i \in 1..(Len(a) - d)
    <3>1. d + i \in 1..Len(a)
      BY <1>1, <2>2
    <3> QED
      BY <1>1, <1>2, <1>5, <2>1, <2>2, <3>1
  <2>3. CASE i = Len(a) - d + 1
    <3>1. d + i = Len(a) + 1 /\ i = Len(s) + 1
      BY <1>1, <1>2, <2>3
    <3> QED
      BY <1>1, <1>5, <2>1, <3>1
  <2>4. PICK l \in Nat : l = Len(a)
    BY <1>1
  <2>5. i \in 1..(l - d + 1)
    BY <1>6, <2>4
  <2>6. i \in 1..(l - d) \/ i = l - d + 1
    BY <2>4, <2>5
  <2> QED
    BY <2>2, <2>3, <2>4, <2>6
<1>8. t = Append(s, e)
  BY <1>4, <1>5, <1>6, <1>7, SeqEqual
<1> QED
  BY <1>8 DEF b, s, t

\* A message handled leaves the front.
LEMMA SuffixTail ==
    ASSUME NEW S, NEW a \in Seq(S), NEW d \in Nat, d + 1 \in 1..Len(a)
    PROVE  /\ SubSeq(a, d + 1, Len(a)) # <<>>
           /\ Head(SubSeq(a, d + 1, Len(a))) = a[d + 1]
           /\ Tail(SubSeq(a, d + 1, Len(a))) = SubSeq(a, d + 1 + 1, Len(a))
<1>1. Len(a) \in Nat /\ d <= Len(a) /\ Len(a) \in (d + 1)..Len(a)
  OBVIOUS
<1>2. SubSeq(a, d + 1, Len(a)) \in Seq(S) /\ Len(SubSeq(a, d + 1, Len(a))) = Len(a) - d
  BY <1>1, SuffixProperties
<1>3. PICK s : s = SubSeq(a, d + 1, Len(a))
  OBVIOUS
<1>4. s # <<>>
  <2>1. s \in Seq(S) /\ Len(s) = Len(a) - d
    BY <1>2, <1>3
  <2>2. Len(s) # 0
    BY <1>1, <2>1
  <2> QED
    BY <2>2
<1>5. /\ Head(SubSeq(a, d + 1, Len(a))) = a[d + 1]
      /\ Tail(SubSeq(a, d + 1, Len(a))) = SubSeq(a, d + 1 + 1, Len(a))
  BY <1>1, HeadTailOfSubSeq
<1> QED
  BY <1>3, <1>4, <1>5

\* What is on its way along a path, and what of it is handled.
LEMMA PathHistory ==
    ASSUME TypeOK, OrderInv, NEW p \in Paths
    PROVE  /\ accepted[p] \in Seq(Msgs) /\ handled[p] \in Seq(Msgs)
           /\ Len(handled[p]) \in Nat /\ Len(handled[p]) <= Len(accepted[p])
           /\ PrefixOf(handled[p], accepted[p], p)
<1>1. accepted[p] \in Seq(Msgs) /\ handled[p] \in Seq(Msgs)
  BY DEF TypeOK
<1>2. PrefixOf(handled[p], accepted[p], p)
  BY DEF OrderInv, HandledArePrefix
<1> QED
  BY <1>1, <1>2 DEF PrefixOf

\* Queueing a new message is an Accept of the FIFO.
LEMMA AcceptIsAccept ==
    ASSUME TypeOK, OrderInv, NEW n \in Msgs, ~InSeq(n, accepted[Path[n]]),
           accepted' = Recorded(accepted, n), handled' = handled
    PROVE  Fifo!Accept(n)
<1> DEFINE way == [p \in Paths |-> OnTheWay(p)]
<1>1. Path[n] \in Paths /\ accepted \in [Paths -> Seq(Msgs)]
  BY DEF Paths, TypeOK
<1>2. PICK p \in Paths : p = Path[n]
  BY <1>1
<1>3. /\ accepted[p] \in Seq(Msgs) /\ handled[p] \in Seq(Msgs)
      /\ Len(handled[p]) \in Nat /\ Len(handled[p]) <= Len(accepted[p])
      /\ PrefixOf(handled[p], accepted[p], p)
  BY PathHistory
<1>4. \A i \in 1..Len(accepted[p]) : accepted[p][i] # n
  BY <1>2 DEF InSeq
<1>5. way[p] = OnTheWay(p)
  OBVIOUS
<1>6. /\ Len(OnTheWay(p)) = Len(accepted[p]) - Len(handled[p])
      /\ \A i \in 1..(Len(accepted[p]) - Len(handled[p])) :
            OnTheWay(p)[i] = accepted[p][Len(handled[p]) + i]
  BY <1>3, SuffixProperties DEF OnTheWay
<1>7. \A i \in 1..Len(OnTheWay(p)) : OnTheWay(p)[i] # n
  <2> SUFFICES ASSUME NEW i \in 1..Len(OnTheWay(p)) PROVE OnTheWay(p)[i] # n
    OBVIOUS
  <2>1. PICK a \in Nat, d \in Nat : a = Len(accepted[p]) /\ d = Len(handled[p])
    BY <1>3
  <2>2. i \in 1..(a - d) /\ d + i \in 1..a
    BY <1>3, <1>6, <2>1
  <2> QED
    BY <1>4, <1>6, <2>1, <2>2
<1>8. ~Fifo!InFifo(n)
  BY <1>2, <1>5, <1>7 DEF Fifo!InFifo
<1>9. ~Fifo!IsOut(n)
  <2>1. \A i \in 1..Len(handled[p]) : i \in 1..Len(accepted[p]) /\ handled[p][i] = accepted[p][i]
    BY <1>3 DEF PrefixOf
  <2> QED
    BY <1>2, <1>4, <2>1 DEF Fifo!IsOut
<1>10. accepted'[p] = Append(accepted[p], n)
  BY <1>1, <1>2 DEF Recorded
<1>11. OnTheWay(p)' = Append(OnTheWay(p), n)
  BY <1>3, <1>10, SuffixOfAppend DEF OnTheWay
<1>12. \A x \in Paths : x # p => OnTheWay(x)' = OnTheWay(x)
  <2> SUFFICES ASSUME NEW x \in Paths, x # p PROVE OnTheWay(x)' = OnTheWay(x)
    OBVIOUS
  <2>1. accepted'[x] = accepted[x]
    BY <1>1, <1>2 DEF Recorded
  <2> QED
    BY <2>1 DEF OnTheWay
<1>13. way' = [way EXCEPT ![Path[n]] = Append(way[Path[n]], n)]
  <2>1. way' = [x \in Paths |-> OnTheWay(x)']
    OBVIOUS
  <2>2. [way EXCEPT ![p] = Append(way[p], n)]
          = [x \in Paths |-> IF x = p THEN Append(OnTheWay(p), n) ELSE OnTheWay(x)]
    OBVIOUS
  <2>3. \A x \in Paths : OnTheWay(x)' = IF x = p THEN Append(OnTheWay(p), n) ELSE OnTheWay(x)
    BY <1>11, <1>12
  <2> QED
    BY <1>2, <2>1, <2>2, <2>3
<1> QED
  BY <1>8, <1>9, <1>13 DEF Fifo!Accept

\* The last consumer's work on a message is a Deliver of the FIFO.
LEMMA FinishIsDeliver ==
    ASSUME TypeOK, OrderInv, NEW q \in Queues, Finish(q)
    PROVE  \E p \in Paths : Fifo!Deliver(p)
<1> DEFINE way == [p \in Paths |-> OnTheWay(p)]
<1>1. PICK n \in Msgs, g \in 1..3 :
        hand[q] = <<n, g>> /\ Nth(Len(handled[Path[n]]) + 1, n)
  BY OldestFinishes
<1>2. PICK p \in Paths : p = Path[n]
  BY DEF Paths
<1>3. /\ accepted' = accepted
      /\ handled' = [handled EXCEPT ![p] = Append(handled[p], n)]
  BY <1>1, <1>2 DEF Finish, Recorded
<1>4. /\ accepted[p] \in Seq(Msgs) /\ handled[p] \in Seq(Msgs)
      /\ Len(handled[p]) \in Nat
  BY PathHistory
<1>5. Len(handled[p]) + 1 \in 1..Len(accepted[p]) /\ accepted[p][Len(handled[p]) + 1] = n
  BY <1>1, <1>2 DEF Nth
<1>6. way[p] = OnTheWay(p)
  OBVIOUS
<1>7. /\ OnTheWay(p) # <<>> /\ Head(OnTheWay(p)) = n
      /\ Tail(OnTheWay(p)) = SubSeq(accepted[p], Len(handled[p]) + 1 + 1, Len(accepted[p]))
  BY <1>4, <1>5, SuffixTail DEF OnTheWay
<1>8. handled \in [Paths -> Seq(Msgs)]
  BY DEF TypeOK
<1>9. handled'[p] = Append(handled[p], n) /\ \A x \in Paths : x # p => handled'[x] = handled[x]
  BY <1>3, <1>8
<1>10. Len(handled'[p]) = Len(handled[p]) + 1
  BY <1>4, <1>9
<1>11. OnTheWay(p)' = Tail(OnTheWay(p))
  BY <1>3, <1>7, <1>10 DEF OnTheWay
<1>12. \A x \in Paths : x # p => OnTheWay(x)' = OnTheWay(x)
  BY <1>3, <1>9 DEF OnTheWay
<1>13. way' = [way EXCEPT ![p] = Tail(way[p])]
  <2>1. way' = [x \in Paths |-> OnTheWay(x)']
    OBVIOUS
  <2>2. [way EXCEPT ![p] = Tail(way[p])]
          = [x \in Paths |-> IF x = p THEN Tail(OnTheWay(p)) ELSE OnTheWay(x)]
    OBVIOUS
  <2>3. \A x \in Paths : OnTheWay(x)' = IF x = p THEN Tail(OnTheWay(p)) ELSE OnTheWay(x)
    BY <1>11, <1>12
  <2> QED
    BY <2>1, <2>2, <2>3
<1>14. way[p] # <<>> /\ Head(way[p]) = n
  BY <1>6, <1>7
<1>15. Fifo!Deliver(p)
  BY <1>3, <1>13, <1>14 DEF Fifo!Deliver
<1> QED
  BY <1>15

\* Whatever accepts and finishes nothing does nothing to the FIFO.
LEMMA StillIsStutter ==
    ASSUME UNCHANGED <<accepted, handled>>
    PROVE  UNCHANGED <<[p \in Paths |-> OnTheWay(p)], handled>>
BY DEF OnTheWay

\* Every step is a step of the FIFO or leaves it alone.
LEMMA StepIsFifoStep ==
    ASSUME TypeOK, FifoInv, [Next]_vars
    PROVE  [Fifo!Next]_<<[p \in Paths |-> OnTheWay(p)], handled>>
<1>1. ASSUME NEW m \in Msgs, listenerOnMessage_queue(m)
      PROVE  Fifo!Next
  <2>1. Fifo!Accept(m)
    BY <1>1, AcceptIsAccept DEF listenerOnMessage_queue, Fresh, FifoInv
  <2> QED
    BY <2>1 DEF Fifo!Next
<1>2. CASE UpstreamPush
  <2>1. umsg \in Msgs /\ ~InSeq(umsg, accepted[Path[umsg]])
    BY <1>2 DEF UpstreamPush, TypeOK, FifoInv, ReceivedIsNew
  <2>2. Fifo!Accept(umsg)
    BY <1>2, <2>1, AcceptIsAccept DEF UpstreamPush, FifoInv
  <2> QED
    BY <2>1, <2>2 DEF Fifo!Next
<1>3. ASSUME NEW q \in Queues, Finish(q)
      PROVE  Fifo!Next
  <2>1. \E p \in Paths : Fifo!Deliver(p)
    BY <1>3, FinishIsDeliver DEF FifoInv
  <2> QED
    BY <2>1 DEF Fifo!Next, Fifo!Paths, Paths
<1>4. CASE UNCHANGED <<accepted, handled>>
  BY <1>4, StillIsStutter
<1>5. ASSUME NEW q \in Queues, Consume(q) \/ PassOn(q)
      PROVE  Finish(q) \/ UNCHANGED <<accepted, handled>>
  BY <1>5 DEF Consume, Take, Exit, Wait, PassOn
<1>6. CASE messageHandlerTask \/ processUpstreamMessage \/ CRUDHandlerTask
  <2>1. \E q \in Queues : Consume(q) \/ PassOn(q)
    BY <1>6 DEF messageHandlerTask, processUpstreamMessage, CRUDHandlerTask, Queues
  <2> QED
    BY <1>3, <1>4, <1>5, <2>1
<1>7. CASE \/ \E m \in Msgs : UpstreamRecv(m)
           \/ UpstreamCheck \/ shutdownSocketConnection \/ LeaveLoop \/ LeaveLoopForRetry
           \/ SignalConsumers \/ Join \/ UNCHANGED vars
  <2>1. UNCHANGED <<accepted, handled>>
    BY <1>7 DEF UpstreamRecv, UpstreamCheck, shutdownSocketConnection, LeaveLoop,
                LeaveLoopForRetry, SignalConsumers, Signal, Join, vars
  <2> QED
    BY <1>4, <2>1
<1> QED
  BY <1>1, <1>2, <1>6, <1>7 DEF Next, Finished

\* In the beginning nothing is on its way.
LEMMA InitIsFifoInit == Init => FifoInv /\ Fifo!Init
<1> SUFFICES ASSUME Init PROVE FifoInv /\ Fifo!Init
  OBVIOUS
<1>1. \A p \in Paths : accepted[p] = <<>> /\ handled[p] = <<>>
  BY DEF Init
<1>2. HandledArePrefix
  BY <1>1 DEF HandledArePrefix, PrefixOf
<1>3. \A q \in Queues, k \in Nat, m \in Msgs, h \in 1..3 : ~Here(q, k, m, h)
  BY HandIsItem DEF Init, Here
<1>4. \A m \in Msgs, i \in Nat : ~Nth(i, m)
  BY <1>1 DEF Nth, Paths
<1>5. HereIsOnPath /\ NoneOvertakes
  BY <1>3 DEF HereIsOnPath, NoneOvertakes
<1>6. NoneIsLost
  BY <1>4 DEF NoneIsLost
<1>7. ReceivedIsNew
  BY DEF Init, ReceivedIsNew
<1>8. \A p \in Paths : OnTheWay(p) = <<>>
  <2>1. SubSeq(<<>>, Len(<<>>) + 1, Len(<<>>)) = <<>>
    <3>1. Len(<<>>) + 1 \in Int /\ Len(<<>>) \in Int /\ Len(<<>>) < Len(<<>>) + 1
      OBVIOUS
    <3> QED
      BY <3>1, SubSeqEmpty
  <2> QED
    BY <1>1, <2>1 DEF OnTheWay
<1>9. Fifo!Init
  BY <1>8 DEF Init, Fifo!Init, Fifo!Paths, Paths
<1> QED
  BY <1>2, <1>5, <1>6, <1>7, <1>9 DEF FifoInv, OrderInv

\* Messages of one path are handled in the order in which they were accepted, each
\* once, through up to three queues and the hands of three threads: the queues
\* implement MsgFifo, for any set of messages and any assignment of paths.
THEOREM KeepsOrder == Spec => ImplementsFifo
<1>1. TypeOK /\ FifoInv /\ [Next]_vars => FifoInv'
  BY NextKeepsOrder
<1>2. Init => FifoInv /\ Fifo!Init
  BY InitIsFifoInit
<1>3. TypeOK /\ FifoInv /\ [Next]_vars => [Fifo!Next]_<<[p \in Paths |-> OnTheWay(p)], handled>>
  BY StepIsFifoStep
<1> QED
  BY <1>1, <1>2, <1>3, TypeCorrect, PTL DEF Spec, ImplementsFifo, Fifo!Spec
=============================================================================
