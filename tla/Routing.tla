------------------------------- MODULE Routing -------------------------------
(***************************************************************************)
(* Where a WRP message goes.  messageHandlerTask gives what the cloud sent *)
(* to listenerOnMessage, which hands it to a registered client, to the     *)
(* CRUD thread, or answers with an error.  processUpstreamMessage takes    *)
(* what local clients and the CRUD thread sent and passes it to the        *)
(* server, to a client or to the CRUD thread, then releases the buffer.    *)
(* One step is the work of one thread on one message: it reads the list of *)
(* clients and touches a queue at most once, each under its mutex.         *)
(*                                                                         *)
(* A message is its type, source, destination, partner ids and whether it  *)
(* has a transaction_uuid.  An address is a device and a service; payloads *)
(* are left out, and memory never runs short.  MsgQueues models the        *)
(* queues, ClientList the registry.                                        *)
(***************************************************************************)
EXTENDS Integers, Sequences, FiniteSets

CONSTANTS
    Ids,             \* identities of messages that come in from outside
    CloudMsgs,       \* contents the cloud may send
    ClientMsgs,      \* contents local clients may send
    Services,        \* service names
    ParodusLike,     \* those that begin with "parodu"
    Partners, Fold,  \* partner ids, and each without case
    DevicePartners,  \* partner_id of the configuration, {} if not given
    NULL

Requests == {"REQ", "CREATE", "UPDATE", "RETRIEVE", "DELETE"}
Types == Requests \cup {"EVENT", "AUTH", "REG", "ALIVE", "BAD"}  \* BAD cannot be decoded
CrudLayout == {"CREATE", "UPDATE", "RETRIEVE", "DELETE"}  \* whose fields are those of u.crud
Addrs == [dev : {"this", "other"}, svc : Services]
Contents == [type : Types, src : Addrs \cup {NULL}, dst : Addrs \cup {NULL},
             partners : (SUBSET Partners) \cup {NULL}, uuid : BOOLEAN]

\* NULL is none of the values it stands for.
ASSUME RoutingAssumption ==
    /\ "parodus" \in ParodusLike /\ ParodusLike \cup {"unknown"} \subseteq Services
    /\ DevicePartners \subseteq Partners /\ Partners \subseteq DOMAIN Fold
    /\ IsFiniteSet(Ids)
    /\ \A a \in Addrs : a # NULL
    /\ \A ps \in SUBSET Partners : ps # NULL
    /\ \A o \in [from : {"cloud", "client"}, c : CloudMsgs \cup ClientMsgs] : o # NULL

\* What the properties below take for granted of the senders and the code does not
\* check: a message that is routed by its destination has one, what a client asks
\* parodus has the fields of an answer, the cloud is not a service of this device, no
\* client but one on this device asks, under a name that does not begin like parodus,
\* and clients send parodus nothing but CRUD requests.
ASSUME SendersAssumption ==
    /\ CloudMsgs \cup ClientMsgs \subseteq Contents
    /\ \A c \in CloudMsgs :
         /\ c.type \in Requests \cup {"EVENT"} => c.dst # NULL
         /\ c.src # NULL => c.src.dev = "other"
    /\ \A c \in ClientMsgs :
         /\ c.type \in {"REG", "RETRIEVE", "UPDATE", "DELETE"} => c.dst # NULL
         /\ c.type = "RETRIEVE" => c.src # NULL /\ c.uuid /\ c.src.dev = "this"
         /\ c.src # NULL => c.src.svc \notin ParodusLike
         /\ c.type \in {"REQ", "EVENT"} /\ c.dst # NULL => c.dst.svc # "parodus"

VARIABLES
    hw_mac,      \* given in the configuration, so that getDeviceId succeeds
    ParodusMsgQ, crudMsgQ, UpStreamMsgQ,  \* [id, c, buf], oldest first
    registered,  \* services with a node in the list of clients
    msg,         \* processUpstreamMessage's msg before decoding: "wild" or "null"
    open,        \* a message to the server is sent; else it is given up
    crashed,     \* an invalid pointer was used
    origin,      \* history: where each message came from and its contents
    fate,        \* history: what became of each message
    released     \* history: how buffers of UpStreamMsgQ were made and released, the
                 \* type of what was in them and the service it came from

queues == <<ParodusMsgQ, crudMsgQ, UpStreamMsgQ>>
vars == <<hw_mac, queues, registered, msg, open, crashed, origin, fate, released>>

Item(id, c, buf) == [id |-> id, c |-> c, buf |-> buf]
Fate(what, to, c) == [what |-> what, to |-> to, c |-> c, code |-> 0]

Init ==
    /\ hw_mac \in BOOLEAN
    /\ ParodusMsgQ = <<>> /\ crudMsgQ = <<>> /\ UpStreamMsgQ = <<>>
    /\ registered = {} /\ msg = "wild" /\ open = TRUE /\ crashed = FALSE
    /\ origin = [i \in Ids |-> NULL] /\ fate = [i \in Ids |-> <<>>]
    /\ released = {}
-----------------------------------------------------------------------------
(* Partner ids.                                                             *)

\* Mutant of PartnerMatch: the ids are compared as they are.
PartnerMatchExact(ids) == ids \cap DevicePartners # {}

PartnerMatch(ids) == \E p \in ids, q \in DevicePartners : Fold[p] = Fold[q]

\* The result and the list stored through the second argument.  A request is
\* refused if it has a list without a match; an event with a match gets no list,
\* and any other gets the ids of the device after its own.
validate_partner_id(c) ==
    LET result(ret, list) == [ret |-> ret, list |-> list] IN
    CASE DevicePartners = {} -> result(0, NULL)
      [] DevicePartners # {} /\ c.type = "EVENT" /\ c.partners = NULL ->
           result(1, DevicePartners)
      [] DevicePartners # {} /\ c.type = "EVENT" /\ c.partners # NULL ->
           result(1, IF PartnerMatch(c.partners) THEN NULL
                     ELSE c.partners \cup DevicePartners)
      [] DevicePartners # {} /\ c.type = "REQ" ->
           result(IF c.partners # NULL /\ ~PartnerMatch(c.partners) THEN -1 ELSE 1, NULL)
      [] OTHER -> result(1, NULL)

\* That list of an event with ids of its own has their strings, not copies of them.
SharesStrings(c) ==
    /\ c.type = "EVENT" /\ DevicePartners # {} /\ c.partners \notin {NULL, {}}
    /\ ~PartnerMatch(c.partners)
-----------------------------------------------------------------------------
(* Effects.                                                                 *)

Settle(id, f) == fate' = [fate EXCEPT ![id] = Append(@, f)]

\* While a reconnect is in progress the message is given up.
ServerFate(c) == Fate(IF open THEN "sent" ELSE "lost", "server", c)

sendUpstreamMsgToServer(id, c) == Settle(id, ServerFate(c))

\* nn_send to the first node of that name; nobody looks whether it failed.
sendMsgtoRegisteredClients(id, c) ==
    \E what \in {"sent", "lost"} :
        Settle(id, IF c.dst.svc \in registered THEN Fate(what, c.dst.svc, c)
                                               ELSE Fate("dropped", NULL, c))

addCRUDmsgToQueue(id, c) == crudMsgQ' = Append(crudMsgQ, Item(id, c, "malloc"))

Crash ==
    /\ crashed' = TRUE
    /\ UNCHANGED <<hw_mac, queues, registered, msg, open, origin, fate, released>>
-----------------------------------------------------------------------------
(* From the cloud.                                                          *)

Fresh(i) == origin[i] = NULL

CloudSends(i, c) ==
    /\ Fresh(i) /\ origin' = [origin EXCEPT ![i] = [from |-> "cloud", c |-> c]]
    /\ ParodusMsgQ' = Append(ParodusMsgQ, Item(i, c, "malloc"))
    /\ UNCHANGED <<hw_mac, crudMsgQ, UpStreamMsgQ, registered, msg, open, crashed, fate,
                   released>>

\* An answer with a status code: type and uuid of the request, addresses swapped; a
\* CRUD message without a source is answered to "unknown".
ErrorResponse(c) ==
    [c EXCEPT !.src = c.dst, !.partners = NULL,
              !.dst = IF c.src = NULL /\ c.type # "REQ"
                      THEN [dev |-> "other", svc |-> "unknown"] ELSE c.src]

\* Events are never answered.
Answer(it, code) ==
    /\ IF it.c.type = "EVENT" THEN Settle(it.id, Fate("ignored", NULL, it.c))
       ELSE Settle(it.id, [ServerFate(ErrorResponse(it.c)) EXCEPT !.code = code])
    /\ UNCHANGED crudMsgQ

\* u.crud.source and u.crud.transaction_uuid are read whatever the type is; in a
\* request or an event other fields may lie there,
CrudFieldsMissing(c) ==
    IF c.type \notin CrudLayout THEN BOOLEAN ELSE {c.src = NULL \/ ~c.uuid}

\* and likewise all those of u.crud that createNewMsgForCRUD copies.
MistakenForCrud(c) ==
    c.type \notin CrudLayout /\ c.dst.svc = "parodus" /\ c.dst.svc \notin registered

\* Mutant of CloudRouted: after the hand-over the destination still counts as unknown.
CloudRoutedAnswersToo(it) ==
    \/ /\ it.c.dst.svc \in registered
       /\ sendMsgtoRegisteredClients(it.id, it.c)
       /\ UNCHANGED crudMsgQ
    \/ /\ it.c.dst.svc \notin registered /\ it.c.dst.svc = "parodus"
       /\ it.c.type # "EVENT" /\ it.c.src # NULL /\ it.c.uuid
       /\ addCRUDmsgToQueue(it.id, it.c)
       /\ sendUpstreamMsgToServer(it.id, ErrorResponse(it.c))

\* To a client of that name; else to the CRUD thread, or 400; else 531.
CloudRouted(it) ==
    \/ /\ it.c.dst.svc \in registered
       /\ sendMsgtoRegisteredClients(it.id, it.c)
       /\ UNCHANGED crudMsgQ
    \/ /\ it.c.dst.svc \notin registered /\ it.c.dst.svc = "parodus"
       /\ \E missing \in CrudFieldsMissing(it.c) :
            IF missing THEN Answer(it, 400)
            ELSE addCRUDmsgToQueue(it.id, it.c) /\ UNCHANGED fate
    \/ /\ it.c.dst.svc \notin registered /\ it.c.dst.svc # "parodus"
       /\ Answer(it, 531)

\* validate_partner_id is given no place for a list: storing one is fatal.  To copy a
\* request or an event as if it were a CRUD message may be.
listenerOnMessage ==
    /\ ~crashed /\ ParodusMsgQ # <<>>
    /\ LET it == Head(ParodusMsgQ)
           check == validate_partner_id(it.c)
           routed == it.c.type \in Requests \cup {"EVENT"}
       IN \/ routed /\ check.list # NULL /\ Crash
          \/ routed /\ check.list = NULL /\ check.ret >= 0 /\ MistakenForCrud(it.c) /\ Crash
          \/ /\ ~(routed /\ check.list # NULL)
             /\ ParodusMsgQ' = Tail(ParodusMsgQ)
             /\ UNCHANGED <<hw_mac, UpStreamMsgQ, registered, msg, open, crashed, origin, released>>
             /\ \/ ~routed /\ Settle(it.id, Fate("ignored", NULL, it.c)) /\ UNCHANGED crudMsgQ
                \/ routed /\ check.ret < 0 /\ Answer(it, 403)
                \/ routed /\ check.ret >= 0 /\ CloudRouted(it)
-----------------------------------------------------------------------------
(* The CRUD thread: a reply to where the request came from, of its type.    *)

\* Mutant of CrudReply: the addresses are copied, not swapped.
CrudReplyNotSwapped(c) == [c EXCEPT !.partners = NULL]

CrudReply(c) == [c EXCEPT !.src = c.dst, !.dst = c.src, !.partners = NULL]

\* The reply to a request or an event is built as a CRUD message and encoded as what
\* it is not: its addresses may be other fields, here none.
CrudReplies(c) ==
    {CrudReply(c)} \cup
    IF c.type \in CrudLayout THEN {} ELSE {[c EXCEPT !.src = NULL, !.dst = NULL, !.partners = NULL]}

\* strdup of a missing source or uuid is fatal; the mistaken types may be.
CRUDHandlerTask ==
    /\ ~crashed /\ crudMsgQ # <<>>
    /\ LET it == Head(crudMsgQ)
           missing == it.c.src = NULL \/ ~it.c.uuid
       IN \/ (it.c.type \in CrudLayout => missing) /\ Crash
          \/ /\ it.c.type \in CrudLayout => ~missing
             /\ crudMsgQ' = Tail(crudMsgQ)
             /\ \E reply \in CrudReplies(it.c) :
                  UpStreamMsgQ' = Append(UpStreamMsgQ, Item(it.id, reply, "malloc"))
             /\ UNCHANGED <<hw_mac, ParodusMsgQ, registered, msg, open, crashed, origin, fate,
                            released>>
-----------------------------------------------------------------------------
(* From local clients and the CRUD thread.                                  *)

ClientSends(i, c) ==
    /\ Fresh(i) /\ origin' = [origin EXCEPT ![i] = [from |-> "client", c |-> c]]
    /\ UpStreamMsgQ' = Append(UpStreamMsgQ, Item(i, c, "nn"))
    /\ UNCHANGED <<hw_mac, ParodusMsgQ, crudMsgQ, registered, msg, open, crashed, fate,
                   released>>

Registration(it) ==
    /\ registered' = registered \cup {it.c.dst.svc}
    /\ Settle(it.id, Fate("done", NULL, it.c))
    /\ UNCHANGED crudMsgQ

\* The event is encoded again with the list of validate_partner_id, if there was
\* a check, and passed on as it is otherwise.
Event(it) ==
    LET check == validate_partner_id(it.c) IN
    /\ sendUpstreamMsgToServer(it.id,
           IF check.ret = 1 THEN [it.c EXCEPT !.partners = check.list] ELSE it.c)
    /\ UNCHANGED <<registered, crudMsgQ>>

\* Mutants of ForThisDevice: an address of another device is not told apart; the
\* end of the device id is compared too, which no address with a service passes.
ForThisDeviceAny(c) == TRUE

ForThisDevice(c) == c.dst.dev = "this"

\* RETRIEVE: parodus is compared without its last letter.
Retrieve(it) ==
    /\ IF ForThisDevice(it.c) /\ it.c.dst.svc \in ParodusLike
       THEN addCRUDmsgToQueue(it.id, it.c) /\ UNCHANGED fate
       ELSE /\ IF ForThisDevice(it.c) THEN sendMsgtoRegisteredClients(it.id, it.c)
               ELSE sendUpstreamMsgToServer(it.id, it.c)
            /\ UNCHANGED crudMsgQ
    /\ UNCHANGED registered

UpdateOrDelete(it) ==
    /\ IF ForThisDevice(it.c) THEN sendMsgtoRegisteredClients(it.id, it.c)
       ELSE sendUpstreamMsgToServer(it.id, it.c)
    /\ UNCHANGED <<registered, crudMsgQ>>

Dropped(it) == Settle(it.id, Fate("dropped", NULL, it.c)) /\ UNCHANGED <<registered, crudMsgQ>>

Route(it) ==
    LET addressed == it.c.type \in {"RETRIEVE", "UPDATE", "DELETE"} IN
    \/ it.c.type = "REG" /\ Registration(it)
    \/ it.c.type = "EVENT" /\ Event(it)
    \/ it.c.type = "RETRIEVE" /\ hw_mac /\ Retrieve(it)
    \/ it.c.type \in {"UPDATE", "DELETE"} /\ hw_mac /\ UpdateOrDelete(it)
    \/ addressed /\ ~hw_mac /\ Dropped(it)
    \/ it.c.type \in {"ALIVE", "BAD"} /\ Dropped(it)
    \/ /\ it.c.type \in {"REQ", "CREATE", "AUTH"}
       /\ sendUpstreamMsgToServer(it.id, it.c)
       /\ UNCHANGED <<registered, crudMsgQ>>

Source(c) == IF c.src = NULL THEN NULL ELSE c.src.svc

\* Mutant of ReleasedBy: the buffer is released as if it came from a client.
ReleasedByNanomsg(c) == {"nn"}

\* free for a decoded message whose u.crud.source is the service parodus, else
\* nn_freemsg.  In a request or an event the source, the destination or something that
\* is no address may lie there; in the other types nothing does that names parodus.
ReleasedBy(c) ==
    LET names(a) == a # NULL /\ a.svc = "parodus" IN
    IF c.type \in CrudLayout THEN {IF names(c.src) THEN "malloc" ELSE "nn"}
    ELSE {"nn"} \cup
         IF c.type \in {"REQ", "EVENT"} /\ (names(c.src) \/ names(c.dst)) THEN {"malloc"} ELSE {}

\* What an invalid msg holds is read after a message that was not decoded.  The reply to
\* what was mistaken for a CRUD message may not be one that can be decoded.  Strings
\* that an event shares are freed with the list and once more with the message, which
\* may be fatal.
processUpstreamMessage ==
    /\ ~crashed /\ UpStreamMsgQ # <<>>
    /\ LET it == Head(UpStreamMsgQ) IN
       \/ it.c.type = "BAD" /\ msg = "wild" /\ Crash
       \/ it.buf = "malloc" /\ it.c.type \notin CrudLayout /\ Crash
       \/ /\ UpStreamMsgQ' = Tail(UpStreamMsgQ)
          /\ Route(it)
          /\ \E by \in ReleasedBy(it.c) :
               released' = released \cup
                   {[made |-> it.buf, by |-> by, type |-> it.c.type, src |-> Source(it.c)]}
          /\ msg' = "null"
          /\ crashed' \in {FALSE, SharesStrings(it.c)}
          /\ UNCHANGED <<hw_mac, ParodusMsgQ, open, origin>>
-----------------------------------------------------------------------------
\* serviceAliveTask deletes a client that did not take the keepalive message.
ClientGone(s) ==
    /\ ~crashed /\ s \in registered /\ registered' = registered \ {s}
    /\ UNCHANGED <<hw_mac, queues, msg, open, crashed, origin, fate, released>>

\* A reconnect begins or ends.
Reconnect ==
    /\ ~crashed /\ open' = ~open
    /\ UNCHANGED <<hw_mac, queues, registered, msg, crashed, origin, fate, released>>

Receive ==
    /\ ~crashed
    /\ \E i \in Ids :
         \/ \E c \in CloudMsgs : CloudSends(i, c)
         \/ \E c \in ClientMsgs : ClientSends(i, c)

Next ==
    \/ Receive
    \/ listenerOnMessage \/ CRUDHandlerTask \/ processUpstreamMessage
    \/ Reconnect \/ \E s \in Services : ClientGone(s)

Spec == Init /\ [][Next]_vars

\* The three threads run; nothing need arrive, and reconnects need not end.
FairSpec ==
    Spec /\ WF_vars(listenerOnMessage) /\ WF_vars(CRUDHandlerTask)
         /\ WF_vars(processUpstreamMessage)
-----------------------------------------------------------------------------
Items == [id : Ids, c : Contents, buf : {"nn", "malloc"}]
Fates == [what : {"sent", "lost", "dropped", "ignored", "done"},
          to : Services \cup {"server", NULL}, c : Contents,
          code : {0, 400, 403, 531}]

\* Type invariant of the queues and histories.  The CRUD messages that the CRUD thread
\* gets have the source and uuid it copies without looking.
TypeOK ==
    /\ ParodusMsgQ \in Seq(Items) /\ crudMsgQ \in Seq(Items) /\ UpStreamMsgQ \in Seq(Items)
    /\ \A k \in 1..Len(crudMsgQ) :
         crudMsgQ[k].c.type \in CrudLayout => crudMsgQ[k].c.src # NULL /\ crudMsgQ[k].c.uuid
    /\ hw_mac \in BOOLEAN /\ registered \subseteq Services
    /\ msg \in {"wild", "null"} /\ open \in BOOLEAN /\ crashed \in BOOLEAN
    /\ origin \in [Ids -> {NULL} \cup [from : {"cloud", "client"}, c : Contents]]
    /\ fate \in [Ids -> Seq(Fates)]
    /\ released \subseteq [made : {"nn", "malloc"}, by : {"nn", "malloc"},
                          type : Types, src : Services \cup {NULL}]

Held(q, i) == Cardinality({k \in 1..Len(q) : q[k].id = i})

\* No message is lost track of or handled twice: one that came in is in exactly
\* one queue or has exactly one fate, through hand-over to the CRUD thread and
\* its reply, and whatever clients come and go meanwhile.  What is handed to the
\* CRUD thread has the fields its reply is made of.
AccountedOnce ==
    TypeOK /\
    \A i \in Ids :
        Held(ParodusMsgQ, i) + Held(crudMsgQ, i) + Held(UpStreamMsgQ, i) + Len(fate[i])
            = IF Fresh(i) THEN 0 ELSE 1

CloudRequest(i) == ~Fresh(i) /\ origin[i].from = "cloud" /\ origin[i].c.type \in Requests
Settled(i, what) == fate[i] # <<>> /\ fate[i][1].what = what

\* A request of the cloud is given to nn_send for the client it names, or an answer of
\* the same type that names the requester is given to the connection; it is not
\* dropped, but for a reply of the CRUD thread when the device has no MAC address to
\* compare.  Either may be lost: when nn_send fails nobody is told, and nothing is sent
\* to the server during a reconnect.  The reply to a REQ that the CRUD thread took for
\* a CRUD message need not name anybody.
CloudRequestsAnswered ==
    \A i \in Ids : CloudRequest(i) /\ fate[i] # <<>> =>
        LET f == fate[i][1]
            c == origin[i].c
        IN \/ f.what = "dropped" /\ ~hw_mac
           \/ f.what \in {"sent", "lost"} /\ f.to = c.dst.svc /\ f.c = c
           \/ /\ f.what \in {"sent", "lost"} /\ f.to = "server" /\ f.c.type = c.type
              /\ \/ f.c.src = c.dst /\ (c.src # NULL => f.c.dst = c.src)
                 \/ c.type = "REQ" /\ c.dst.svc = "parodus" /\ f.code = 0

\* What a local client asks parodus on its own device comes back to that client
\* and goes nowhere else; if the client is gone, or nn_send fails, it is lost.
LocalRetrievesStayLocal ==
    \A i \in Ids :
        /\ ~Fresh(i) /\ origin[i].from = "client" /\ fate[i] # <<>>
        /\ origin[i].c.type = "RETRIEVE"
        /\ origin[i].c.dst = [dev |-> "this", svc |-> "parodus"]
        => \/ Settled(i, "dropped")
           \/ /\ Settled(i, "sent") \/ Settled(i, "lost")
              /\ fate[i][1].to = origin[i].c.src.svc

\* Requests get where they belong, and their answers back.
RequestsServed == CloudRequestsAnswered /\ LocalRetrievesStayLocal

Foreign(c) ==
    /\ DevicePartners # {} /\ c.partners # NULL
    /\ {Fold[p] : p \in c.partners} \cap {Fold[q] : q \in DevicePartners} = {}

\* A request is answered with 403, and reaches neither a client nor the CRUD
\* thread, exactly if it names partners and the device's is not among them; how
\* the names are written does not matter, nor who is registered.
RequestPartnersDecide ==
    \A i \in Ids : CloudRequest(i) /\ origin[i].c.type = "REQ" =>
        /\ Foreign(origin[i].c) => Held(crudMsgQ, i) + Held(UpStreamMsgQ, i) = 0
        /\ fate[i] # <<>> => (fate[i][1].code = 403 <=> Foreign(origin[i].c))

\* If the device has a partner, an event that was sent leaves with the partner ids
\* it came with and the device's added to them; but if one of its ids is already
\* the device's, it leaves without any.
EventsKeepPartners ==
    \A i \in Ids :
        /\ ~Fresh(i) /\ origin[i].from = "client" /\ origin[i].c.type = "EVENT"
        /\ Settled(i, "sent") /\ DevicePartners # {}
        => LET came == origin[i].c.partners
               left == fate[i][1].c.partners
           IN IF came # NULL /\ ~Foreign(origin[i].c) THEN left = NULL
              ELSE /\ left # NULL /\ DevicePartners \subseteq left
                   /\ came # NULL => came \subseteq left

\* The partner ids decide on requests and go with events.
PartnersDecide == RequestPartnersDecide /\ EventsKeepPartners

\* Every buffer of the upstream queue is released by the library that made it:
\* nn_freemsg for what nn_recv returned, free for what the CRUD thread encoded; but
\* for its replies in the name of a service that only begins like parodus, and to what
\* was no CRUD message.
ReleasedByItsMaker ==
    \A r \in released :
        \/ r.made = r.by
        \/ r.src \in ParodusLike \ {"parodus"}
        \/ r.made = "malloc" /\ r.type \notin CrudLayout

HeadIs(q, P(_)) == q # <<>> /\ P(Head(q))

\* A request or an event of the cloud for parodus is on its way through the CRUD thread,
\* and its turn has come.
CrudMistaken ==
    \/ HeadIs(ParodusMsgQ, LAMBDA it : it.c.type \in {"REQ", "EVENT"} /\ it.c.dst.svc = "parodus")
    \/ HeadIs(crudMsgQ, LAMBDA it : it.c.type \in {"REQ", "EVENT"})
    \/ HeadIs(UpStreamMsgQ, LAMBDA it : it.buf = "malloc" /\ it.c.type \in {"REQ", "EVENT"})

\* A handler uses an invalid pointer in four situations only: the first message of a
\* client cannot be decoded, an event of the cloud does not name the device's partner,
\* a request or an event of the cloud is mistaken for a CRUD message, or the partner
\* ids of a client's event, none of them the device's, were freed twice.  With the CRUD
\* messages themselves the CRUD thread always finds the fields it copies.
OnlyKnownCrashes ==
    crashed =>
        \/ HeadIs(UpStreamMsgQ, LAMBDA it : it.c.type = "BAD") /\ msg = "wild"
        \/ HeadIs(ParodusMsgQ, LAMBDA it : /\ it.c.type = "EVENT" /\ DevicePartners # {}
                                           /\ it.c.partners = NULL \/ Foreign(it.c))
        \/ CrudMistaken
        \/ \E i \in Ids : /\ ~Fresh(i) /\ origin[i].from = "client" /\ fate[i] # <<>>
                          /\ origin[i].c.type = "EVENT" /\ Foreign(origin[i].c)
                          /\ origin[i].c.partners # {}

\* The memory of messages, their fields, partner ids and buffers, is misused in the
\* five situations these two name and no others, whatever comes in and in whatever
\* order.  What is inside an address or a payload is not looked at.
OnlyKnownMisuse == ReleasedByItsMaker /\ OnlyKnownCrashes

\* Every message that came in is dealt with in the end, unless parodus crashes.
MessagesSettle == \A i \in Ids : ~Fresh(i) ~> (fate[i] # <<>> \/ crashed)
=============================================================================
