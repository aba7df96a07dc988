----------------------------- MODULE MsgQueues -----------------------------
(***************************************************************************)
(* The three message queues of parodus and the threads around them.        *)
(*                                                                         *)
(*   ParodusMsgQ  ("down")  main thread, in the nopoll callback            *)
(*                            -> messageHandlerTask                        *)
(*   crudMsgQ     ("crud")  messageHandlerTask, processUpstreamMessage     *)
(*                            -> CRUDHandlerTask                           *)
(*   UpStreamMsgQ ("up")    handle_upstream, CRUDHandlerTask               *)
(*                            -> processUpstreamMessage                    *)
(*                                                                         *)
(* Every queue has one mutex, one condition variable and one consumer.  A  *)
(* producer signals only when it finds the queue empty.  A consumer takes  *)
(* the head, or exits when the queue is empty and g_shutdown is set, or    *)
(* waits.  A message is its path through the queues; what each consumer    *)
(* makes of it is the work done between taking it and passing it on.       *)
(***************************************************************************)
EXTENDS Naturals, Sequences

CONSTANTS
    Msgs,    \* messages, each arriving at most once
    Path,    \* the queues each message goes through
    NULL

Queues == {"down", "crud", "up"}

\* A message from the cloud is handled by messageHandlerTask or sent through the
\* CRUD thread; a message of a local client likewise, after processUpstreamMessage.
ServerPaths == {<<"down">>, <<"down", "crud", "up">>}
ClientPaths == {<<"up">>, <<"up", "crud", "up">>}

ASSUME MsgQueuesAssumption ==
    /\ Path \in [Msgs -> ServerPaths \cup ClientPaths]
    /\ NULL \notin Msgs /\ NULL \notin Msgs \X (1..3)

VARIABLES
    queue,      \* the linked lists, head first, of <<message, hop>>
    hand,       \* what each consumer has taken and not yet passed on
    st,         \* whether each consumer runs, waits on its condition variable, or exited
    mpc,        \* the main thread: in its loop, signalling, joining
    upc, umsg,  \* handle_upstream and the message it has received
    g_shutdown,
    accepted,   \* history: for every path, the messages put into its first queue, oldest first
    handled,    \* history: for every path, the messages whose last consumer has finished
    early       \* history: the loop was left without a shutdown

vars == <<queue, hand, st, mpc, upc, umsg, g_shutdown, accepted, handled, early>>

Items == Msgs \X (1..3)
Paths == {Path[m] : m \in Msgs}

Init ==
    /\ queue = [q \in Queues |-> <<>>]
    /\ hand = [q \in Queues |-> NULL]
    /\ st = [q \in Queues |-> "run"]
    /\ mpc = "loop" /\ upc = "recv" /\ umsg = NULL
    /\ g_shutdown = FALSE
    /\ accepted = [p \in Paths |-> <<>>] /\ handled = [p \in Paths |-> <<>>]
    /\ early = FALSE

InSeq(m, s) == \E i \in 1..Len(s) : s[i] = m

Fresh(m) == m # umsg /\ ~InSeq(m, accepted[Path[m]])

\* Message m goes to the end of the history of its path.
Recorded(history, m) == [history EXCEPT ![Path[m]] = Append(@, m)]

\* The state of a consumer after a signal on its condition variable.
Woken(s) == IF s = "wait" THEN "run" ELSE s

\* Mutants of Enqueue: the signal is sent only when the queue was not empty; the
\* message is linked in front of the list.
EnqueueSignalsNonEmpty(q, item) ==
    /\ queue' = [queue EXCEPT ![q] = Append(@, item)]
    /\ st' = IF queue[q] # <<>> THEN [st EXCEPT ![q] = Woken(@)] ELSE st

EnqueueInFront(q, item) ==
    /\ queue' = [queue EXCEPT ![q] = <<item>> \o @]
    /\ st' = IF queue[q] = <<>> THEN [st EXCEPT ![q] = Woken(@)] ELSE st

\* Under the queue's mutex: link the message at the tail; signal if the list was empty.
Enqueue(q, item) ==
    /\ queue' = [queue EXCEPT ![q] = Append(@, item)]
    /\ st' = IF queue[q] = <<>> THEN [st EXCEPT ![q] = Woken(@)] ELSE st

addCRUDmsgToQueue(item) == Enqueue("crud", item)

addCRUDresponseToUpstreamQ(item) == Enqueue("up", item)
-----------------------------------------------------------------------------
(* Producers.                                                               *)

\* nopoll calls listenerOnMessage_queue while the main thread is in its loop.
listenerOnMessage_queue(m) ==
    /\ mpc = "loop" /\ Path[m] \in ServerPaths /\ Fresh(m)
    /\ Enqueue("down", <<m, 1>>)
    /\ accepted' = Recorded(accepted, m)
    /\ UNCHANGED <<hand, mpc, upc, umsg, g_shutdown, handled, early>>

\* handle_upstream: nn_recv returns with a message, or after 500 ms without one;
UpstreamRecv(m) ==
    /\ upc = "recv" /\ Path[m] \in ClientPaths /\ Fresh(m)
    /\ upc' = "got" /\ umsg' = m
    /\ UNCHANGED <<queue, hand, st, mpc, g_shutdown, accepted, handled, early>>

\* g_shutdown ends the thread, and the message just received with it;
UpstreamCheck ==
    /\ \/ g_shutdown /\ upc \in {"recv", "got"} /\ upc' = "exited"
       \/ ~g_shutdown /\ upc = "got" /\ upc' = "push"
    /\ UNCHANGED <<queue, hand, st, mpc, umsg, g_shutdown, accepted, handled, early>>

\* else the message is queued.
UpstreamPush ==
    /\ upc = "push" /\ upc' = "recv"
    /\ Enqueue("up", <<umsg, 1>>)
    /\ accepted' = Recorded(accepted, umsg)
    /\ umsg' = NULL
    /\ UNCHANGED <<hand, mpc, g_shutdown, handled, early>>
-----------------------------------------------------------------------------
(* Consumers.                                                               *)

\* Under the mutex: take the head,
Take(q) ==
    /\ st[q] = "run" /\ hand[q] = NULL /\ queue[q] # <<>>
    /\ hand' = [hand EXCEPT ![q] = Head(queue[q])]
    /\ queue' = [queue EXCEPT ![q] = Tail(@)]
    /\ UNCHANGED <<st, mpc, upc, umsg, g_shutdown, accepted, handled, early>>

\* Mutants of Exit: the break is missing; shutdown ends the consumer whatever is
\* still queued.
ExitNotLeaving(q) ==
    /\ st[q] = "run" /\ hand[q] = NULL /\ queue[q] = <<>> /\ g_shutdown
    /\ UNCHANGED vars

ExitAtOnce(q) ==
    /\ st[q] = "run" /\ hand[q] = NULL /\ g_shutdown
    /\ st' = [st EXCEPT ![q] = "exited"]
    /\ UNCHANGED <<queue, hand, mpc, upc, umsg, g_shutdown, accepted, handled, early>>

\* or exit,
Exit(q) ==
    /\ st[q] = "run" /\ hand[q] = NULL /\ queue[q] = <<>> /\ g_shutdown
    /\ st' = [st EXCEPT ![q] = "exited"]
    /\ UNCHANGED <<queue, hand, mpc, upc, umsg, g_shutdown, accepted, handled, early>>

\* or wait.
Wait(q) ==
    /\ st[q] = "run" /\ hand[q] = NULL /\ queue[q] = <<>> /\ ~g_shutdown
    /\ st' = [st EXCEPT ![q] = "wait"]
    /\ UNCHANGED <<queue, hand, mpc, upc, umsg, g_shutdown, accepted, handled, early>>

\* The work on a message whose path ends here.
Finish(q) ==
    /\ hand[q] # NULL /\ hand[q][2] = Len(Path[hand[q][1]])
    /\ handled' = Recorded(handled, hand[q][1])
    /\ hand' = [hand EXCEPT ![q] = NULL]
    /\ UNCHANGED <<queue, st, mpc, upc, umsg, g_shutdown, accepted, early>>

\* The work on a message that goes on to another queue.
HasNext(q) == hand[q] # NULL /\ hand[q][2] < Len(Path[hand[q][1]])
NextHop(q) == <<hand[q][1], hand[q][2] + 1>>

PassOn(q) ==
    /\ hand' = [hand EXCEPT ![q] = NULL]
    /\ UNCHANGED <<mpc, upc, umsg, g_shutdown, accepted, handled, early>>

Consume(q) == Take(q) \/ Exit(q) \/ Wait(q) \/ Finish(q)

messageHandlerTask ==
    \/ Consume("down")
    \/ HasNext("down") /\ addCRUDmsgToQueue(NextHop("down")) /\ PassOn("down")

processUpstreamMessage ==
    \/ Consume("up")
    \/ HasNext("up") /\ addCRUDmsgToQueue(NextHop("up")) /\ PassOn("up")

CRUDHandlerTask ==
    \/ Consume("crud")
    \/ HasNext("crud") /\ addCRUDresponseToUpstreamQ(NextHop("crud")) /\ PassOn("crud")
-----------------------------------------------------------------------------
(* Shutdown.                                                                *)

shutdownSocketConnection ==
    /\ ~g_shutdown /\ g_shutdown' = TRUE
    /\ UNCHANGED <<queue, hand, st, mpc, upc, umsg, accepted, handled, early>>

\* The main thread leaves its loop, for a shutdown or because close_retry was set
\* again after the connection was made (ConnManager models how), signals crud_con,
\* g_cond and nano_con one after the other, and joins.
Signal(from, q, to) ==
    /\ mpc = from /\ mpc' = to
    /\ st' = [st EXCEPT ![q] = Woken(@)]
    /\ UNCHANGED <<queue, hand, upc, umsg, g_shutdown, accepted, handled, early>>

LeaveLoop ==
    /\ mpc = "loop" /\ g_shutdown /\ mpc' = "sig_crud"
    /\ UNCHANGED <<queue, hand, st, upc, umsg, g_shutdown, accepted, handled, early>>

LeaveLoopForRetry ==
    /\ mpc = "loop" /\ ~g_shutdown /\ mpc' = "sig_crud"
    /\ early' = TRUE
    /\ UNCHANGED <<queue, hand, st, upc, umsg, g_shutdown, accepted, handled>>

\* Mutant of SignalConsumers: the consumer of crudMsgQ is forgotten.
SignalConsumersNotCrud ==
    \/ Signal("sig_crud", "down", "sig_nano")
    \/ Signal("sig_nano", "up", "join")

SignalConsumers ==
    \/ Signal("sig_crud", "crud", "sig_g")
    \/ Signal("sig_g", "down", "sig_nano")
    \/ Signal("sig_nano", "up", "join")

Join ==
    /\ mpc = "join" /\ mpc' = "done"
    /\ upc = "exited" /\ \A q \in Queues : st[q] = "exited"
    /\ UNCHANGED <<queue, hand, st, upc, umsg, g_shutdown, accepted, handled, early>>

Finished == mpc = "done" /\ UNCHANGED vars
-----------------------------------------------------------------------------
Next ==
    \/ \E m \in Msgs : listenerOnMessage_queue(m) \/ UpstreamRecv(m)
    \/ UpstreamCheck \/ UpstreamPush
    \/ messageHandlerTask \/ processUpstreamMessage \/ CRUDHandlerTask
    \/ shutdownSocketConnection \/ LeaveLoop \/ LeaveLoopForRetry
    \/ SignalConsumers \/ Join
    \/ Finished

Spec == Init /\ [][Next]_vars

\* Every thread that can run does; nn_recv times out; the main loop looks at
\* g_shutdown.  Messages, the shutdown and a late close_retry need never come.
Fairness ==
    /\ WF_vars(messageHandlerTask) /\ WF_vars(processUpstreamMessage)
    /\ WF_vars(CRUDHandlerTask)
    /\ WF_vars(UpstreamCheck) /\ WF_vars(UpstreamPush)
    /\ WF_vars(LeaveLoop) /\ WF_vars(SignalConsumers) /\ WF_vars(Join)

FairSpec == Spec /\ Fairness
-----------------------------------------------------------------------------
\* Type invariant of the queues and the threads.
TypeOK ==
    /\ queue \in [Queues -> Seq(Items)]
    /\ hand \in [Queues -> Items \cup {NULL}]
    /\ st \in [Queues -> {"run", "wait", "exited"}]
    /\ mpc \in {"loop", "sig_crud", "sig_g", "sig_nano", "join", "done"}
    /\ upc \in {"recv", "got", "push", "exited"}
    /\ umsg \in Msgs \cup {NULL}
    /\ upc \in {"got", "push"} => umsg \in Msgs
    /\ g_shutdown \in BOOLEAN /\ early \in BOOLEAN
    /\ accepted \in [Paths -> Seq(Msgs)] /\ handled \in [Paths -> Seq(Msgs)]

\* No wake-up is lost although producers signal only an empty queue: a consumer
\* that waits has an empty queue and nothing in its hands.
WaitingMeansEmpty ==
    \A q \in Queues : st[q] = "wait" => queue[q] = <<>> /\ hand[q] = NULL

\* A consumer that has ended has finished its last message, and ended only for a
\* shutdown.
ExitedIsIdle ==
    \A q \in Queues : st[q] = "exited" => hand[q] = NULL /\ g_shutdown

\* Once the main thread has sent its three signals after a shutdown no consumer
\* waits: the single signal of each condition variable is enough to join all of
\* them.  Not so when the loop was left for close_retry: the signals come while
\* g_shutdown is false, a consumer that gets one finds its queue empty and waits
\* again, and the join waits for it.
NobodyWaitsAtJoin ==
    mpc \in {"join", "done"} /\ ~early => \A q \in Queues : st[q] # "wait"

\* No signal comes too early or is left out, neither that for a message nor that for
\* the shutdown, unless the loop is left before there is a shutdown.
SignalsReach == WaitingMeansEmpty /\ NobodyWaitsAtJoin

\* Why the three signals suffice: unless it is left early the loop is left for a
\* shutdown, after which nobody starts to wait, and a consumer once signalled no
\* longer waits.
SignalledRuns ==
    ~early =>
        /\ mpc # "loop" => g_shutdown
        /\ mpc \in {"sig_g", "sig_nano", "join", "done"} => st["crud"] # "wait"
        /\ mpc \in {"sig_nano", "join", "done"} => st["down"] # "wait"
        /\ mpc \in {"join", "done"} => st["up"] # "wait"

\* The inductive invariant behind the safety properties.
IInv == TypeOK /\ WaitingMeansEmpty /\ ExitedIsIdle /\ SignalledRuns

\* The messages on their way along path p, in the order they were accepted: as many
\* of them have been handled as have left the FIFO, and MsgFifo says which.
OnTheWay(p) == SubSeq(accepted[p], Len(handled[p]) + 1, Len(accepted[p]))

Fifo == INSTANCE MsgFifo WITH
            fifo <- [p \in Paths |-> OnTheWay(p)],
            out <- handled

\* Messages of one path are handled in the order they were accepted, each once,
\* across all the queues they go through and whatever the threads do.
ImplementsFifo == Fifo!Spec

\* While parodus runs, every message it accepted is handled in the end.
AcceptedIsHandled ==
    \A m \in Msgs : InSeq(m, accepted[Path[m]]) ~> (InSeq(m, handled[Path[m]]) \/ g_shutdown)

\* A message that was queued before the shutdown is still taken by its first
\* consumer: consumers drain their queue before they exit.
QueuedIsTaken ==
    \A m \in Msgs :
        (~g_shutdown /\ InSeq(m, accepted[Path[m]])) ~>
            \A q \in Queues : ~InSeq(<<m, 1>>, queue[q])

\* A shutdown ends: the main thread joins all its threads.  The exception is a loop
\* left early, and then exactly when a consumer waits for good.
ShutdownJoins ==
    g_shutdown ~> \/ mpc = "done"
                  \/ early /\ [](mpc = "join" /\ \E q \in Queues : st[q] = "wait")
=============================================================================
