---------------------------- MODULE ClientList -----------------------------
(***************************************************************************)
(* The list of registered local services: registration on the              *)
(* processUpstreamMessage thread, the keepalive sweep of serviceAliveTask, *)
(* and the sending of a message to a registered service.                   *)
(*                                                                         *)
(* The list and the sockets are protected by client_mut, which             *)
(* get_global_node takes and release_global_node gives back.  A step that  *)
(* holds the mutex from beginning to end is one action; the sweep, which   *)
(* gives the mutex back after every deletion, is one action per send.      *)
(***************************************************************************)
EXTENDS Integers, Sequences, FiniteSets

CONSTANTS
    Services,      \* names under which services register
    LongNames,     \* those whose name does not fit service_name[32]
    Nodes,         \* reg_list_item_t objects; a freed one may be allocated again
    NoNode,        \* the null pointer
    FlakyConnect   \* nn_socket or nn_connect may fail

ASSUME ClientListAssumption ==
    /\ Services # {} /\ LongNames \subseteq Services
    /\ NoNode \notin Nodes
    /\ FlakyConnect \in BOOLEAN

VARIABLES
    list,          \* the nodes from g_head on
    name, sockOk,  \* the fields of each node: service, socket connected
    numOfClients,
    owner,         \* holder of client_mut: "none" or "svc"
    svc,           \* serviceAliveTask: "top", "sweep", "resync", "wait", "exited"
    pos,           \* index in the list of the node the sweep is at
    temp,          \* sendMsgtoRegisteredClients: the node it sent to, before the log line
    g_shutdown, done

vars == <<list, name, sockOk, numOfClients, owner, svc, pos, temp, g_shutdown, done>>
nodeVars == <<list, name, sockOk, numOfClients>>

InList(n) == \E i \in 1..Len(list) : list[i] = n

Init ==
    /\ list = <<>>
    /\ name = [n \in Nodes |-> CHOOSE s \in Services : TRUE]
    /\ sockOk = [n \in Nodes |-> FALSE]
    /\ numOfClients = 0
    /\ owner = "none" /\ svc = "top" /\ pos = 0 /\ temp = NoNode
    /\ g_shutdown = FALSE /\ done = FALSE

\* What strcmp says of a stored name, cut to 31 characters, and a full one.
Matches(n, s) == name[n] = s /\ s \notin LongNames
-----------------------------------------------------------------------------
(* Registration.                                                            *)

\* addToList: connect a new socket, append a node; the node counts, and is
\* acknowledged, only if its name was stored in full.
addToList(s) ==
    \/ /\ FlakyConnect
       /\ UNCHANGED nodeVars
    \/ \E n \in Nodes :
          /\ ~InList(n)
          /\ list' = Append(list, n)
          /\ name' = [name EXCEPT ![n] = s]
          /\ sockOk' = [sockOk EXCEPT ![n] = TRUE]
          /\ numOfClients' = IF s \in LongNames THEN numOfClients ELSE numOfClients + 1

Indices(s) == {i \in 1..Len(list) : Matches(list[i], s)}

\* The matching nodes are tried in list order: the socket is closed and a new one
\* connected.  The first that connects, at index i, ends the search.
Reconnect(s, i) ==
    /\ i \in Indices(s)
    /\ \A j \in Indices(s) : j < i => FlakyConnect
    /\ sockOk' = [n \in Nodes |->
                    IF n = list[i] THEN TRUE
                    ELSE IF \E j \in Indices(s) : j < i /\ n = list[j] THEN FALSE
                    ELSE sockOk[n]]
    /\ UNCHANGED <<list, name, numOfClients>>

\* No matching node connects: each is left with a useless socket, and the service
\* is added once more.
ReconnectFails(s) ==
    /\ Indices(s) # {} /\ FlakyConnect
    /\ LET broken == [n \in Nodes |->
                        IF \E j \in Indices(s) : n = list[j] THEN FALSE ELSE sockOk[n]]
       IN \/ sockOk' = broken /\ UNCHANGED <<list, name, numOfClients>>
          \/ \E n \in Nodes :
                /\ ~InList(n)
                /\ list' = Append(list, n)
                /\ name' = [name EXCEPT ![n] = s]
                /\ sockOk' = [broken EXCEPT ![n] = TRUE]
                /\ numOfClients' = numOfClients + 1

\* A registration message: the list is searched only if numOfClients is not zero.
Register(s) ==
    /\ owner = "none" /\ ~done
    /\ \/ numOfClients # 0 /\ (ReconnectFails(s) \/ \E i \in 1..Len(list) : Reconnect(s, i))
       \/ (numOfClients = 0 \/ Indices(s) = {}) /\ addToList(s)
    /\ UNCHANGED <<owner, svc, pos, temp, g_shutdown, done>>
-----------------------------------------------------------------------------
(* The keepalive sweep.                                                     *)

\* Mutant of SweepBegin: an off-by-one in the test.
SweepBeginLate ==
    /\ svc = "top" /\ owner = "none"
    /\ IF numOfClients > 1 THEN svc' = "sweep" /\ owner' = "svc" /\ pos' = 1
                           ELSE svc' = "wait" /\ UNCHANGED <<owner, pos>>
    /\ UNCHANGED <<nodeVars, temp, g_shutdown, done>>

\* get_global_node, and the test of numOfClients.
SweepBegin ==
    /\ svc = "top" /\ owner = "none"
    /\ IF numOfClients > 0 THEN svc' = "sweep" /\ owner' = "svc" /\ pos' = 1
                           ELSE svc' = "wait" /\ UNCHANGED <<owner, pos>>
    /\ UNCHANGED <<nodeVars, temp, g_shutdown, done>>

\* The keepalive reached the socket.
SweepSend ==
    /\ svc = "sweep" /\ pos <= Len(list) /\ sockOk[list[pos]]
    /\ pos' = pos + 1
    /\ UNCHANGED <<nodeVars, owner, svc, temp, g_shutdown, done>>

\* The first node that stores name s.
FirstOf(s) == CHOOSE i \in 1..Len(list) :
                 name[list[i]] = s /\ \A j \in 1..(i - 1) : name[list[j]] # s

\* Mutant of deleteFromList: the counter is not decremented.
deleteFromListUncounted(s) ==
    /\ list' = SubSeq(list, 1, FirstOf(s) - 1) \o SubSeq(list, FirstOf(s) + 1, Len(list))
    /\ sockOk' = [sockOk EXCEPT ![list[FirstOf(s)]] = FALSE]
    /\ UNCHANGED <<name, numOfClients>>

\* The first node of that name is unlinked, its socket closed, the node freed.
deleteFromList(s) ==
    /\ list' = SubSeq(list, 1, FirstOf(s) - 1) \o SubSeq(list, FirstOf(s) + 1, Len(list))
    /\ sockOk' = [sockOk EXCEPT ![list[FirstOf(s)]] = FALSE]
    /\ numOfClients' = numOfClients - 1
    /\ UNCHANGED name

\* Mutant of SweepDelete: a service that did not take the message stays.
SweepSkips ==
    /\ svc = "sweep" /\ pos <= Len(list)
    /\ pos' = pos + 1
    /\ UNCHANGED <<nodeVars, owner, svc, temp, g_shutdown, done>>

\* It did not: the service is deleted, and the mutex given back.  (A service that
\* is alive but does not take the message in time fails like a dead one.)
SweepDelete ==
    /\ svc = "sweep" /\ pos <= Len(list)
    /\ deleteFromList(name[list[pos]])
    /\ svc' = "resync" /\ owner' = "none" /\ pos' = 0
    /\ UNCHANGED <<temp, g_shutdown, done>>

\* The sweep starts again at the head.
SweepResync ==
    /\ svc = "resync" /\ owner = "none"
    /\ svc' = "sweep" /\ owner' = "svc" /\ pos' = 1
    /\ UNCHANGED <<nodeVars, temp, g_shutdown, done>>

SweepEnd ==
    /\ svc = "sweep" /\ pos > Len(list)
    /\ svc' = "wait" /\ owner' = "none" /\ pos' = 0
    /\ UNCHANGED <<nodeVars, temp, g_shutdown, done>>

\* wait__: 30 or 50 seconds, or the signal of the shutdown.
SweepWait ==
    /\ svc = "wait"
    /\ svc' = IF g_shutdown THEN "exited" ELSE "top"
    /\ UNCHANGED <<nodeVars, owner, pos, temp, g_shutdown, done>>
-----------------------------------------------------------------------------
(* sendMsgtoRegisteredClients: look up, send and release under the mutex;   *)
(* then the log line reads the node again.                                  *)

SendToClient(s) ==
    /\ owner = "none" /\ ~done /\ temp = NoNode
    /\ Indices(s) # {}
    /\ temp' = list[FirstOf(s)]
    /\ UNCHANGED <<nodeVars, owner, svc, pos, g_shutdown, done>>

SendToClientLog ==
    /\ temp # NoNode /\ temp' = NoNode
    /\ UNCHANGED <<nodeVars, owner, svc, pos, g_shutdown, done>>
-----------------------------------------------------------------------------
Shutdown ==
    /\ ~g_shutdown /\ g_shutdown' = TRUE
    /\ UNCHANGED <<nodeVars, owner, svc, pos, temp, done>>

\* deleteAllClients, after the main thread has joined its threads.
deleteAllClients ==
    /\ g_shutdown /\ svc = "exited" /\ temp = NoNode /\ ~done
    /\ done' = TRUE
    /\ list' = <<>>
    /\ numOfClients' = IF numOfClients > 0 THEN 0 ELSE numOfClients
    /\ UNCHANGED <<name, sockOk, owner, svc, pos, temp, g_shutdown>>

Finished == done /\ UNCHANGED vars

Sweep == \/ SweepBegin \/ SweepSend \/ SweepDelete \/ SweepResync
         \/ SweepEnd \/ SweepWait

Next ==
    \/ \E s \in Services : Register(s) \/ SendToClient(s)
    \/ SendToClientLog \/ Sweep \/ Shutdown \/ deleteAllClients \/ Finished

Spec == Init /\ [][Next]_vars

\* The keepalive thread runs, gets the mutex when it wants it, and its waits end;
\* the sender goes on.
Fairness ==
    /\ WF_vars(SweepSend \/ SweepDelete \/ SweepEnd) /\ WF_vars(SweepWait)
    /\ SF_vars(SweepBegin) /\ SF_vars(SweepResync)
    /\ WF_vars(SendToClientLog)

FairSpec == Spec /\ Fairness
-----------------------------------------------------------------------------
\* No node twice.
Distinct(q) == \A i, j \in 1..Len(q) : q[i] = q[j] => i = j

\* Type invariant of the list, its counter and its users.
TypeOK ==
    /\ list \in Seq(Nodes) /\ Distinct(list)
    /\ name \in [Nodes -> Services] /\ sockOk \in [Nodes -> BOOLEAN]
    /\ numOfClients \in Int
    /\ owner \in {"none", "svc"}
    /\ svc \in {"top", "sweep", "resync", "wait", "exited"}
    /\ pos \in 0..(Len(list) + 1) /\ temp \in Nodes \cup {NoNode}
    /\ g_shutdown \in BOOLEAN /\ done \in BOOLEAN

\* The counter that decides whether the list is searched and whether keepalives
\* are sent is the length of the list, which has no node twice.
CountIsLength == TypeOK /\ numOfClients = Len(list)

AtNode(n) == svc = "sweep" /\ pos <= Len(list) /\ list[pos] = n

\* serviceAliveTask sends its message to every client in the list again and again,
\* unless the client is removed: no registered service is left without keepalives.
KeepaliveReachesAll ==
    \A n \in Nodes :
        (InList(n) /\ name[n] \notin LongNames) ~> (AtNode(n) \/ ~InList(n) \/ g_shutdown)

\* A service whose socket does not work is removed, or registers again.
BrokenIsRemoved ==
    \A n \in Nodes : (InList(n) /\ ~sockOk[n]) ~> (~InList(n) \/ sockOk[n] \/ g_shutdown)
=============================================================================
