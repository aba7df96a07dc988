# Verification of parodus

parodus is the client that keeps one websocket connection between a device and
the XMiDT cloud and carries WRP messages between the cloud and the services that
run on the device. It is a C program of about a dozen threads that share global
flags, a connection pointer, three linked-list queues, a list of registered
services and one JSON file. This directory holds TLA+ models of those parts, TLC
configurations that check them on small instances, and proofs that TLAPS checks
for every instance.

All paths below are relative to the repository; the C sources are in `src/`.

## 1. Inventory

| Component | State | Operations | Talks to |
|---|---|---|---|
| Connection manager (`conn_interface.c`, `close_retry.c`, `heartBeat.c`, `main.c`) | `close_retry`, `g_shutdown`, heartbeat timer, reconnect reason and status | the main loop: nopoll loop, heartbeat check, interface check, close and re-create, shutdown and join; the signal handler | everything: starts and joins the threads |
| Connection creation (`connection.c`) | the global connection pointer, `cloud_status`, the current server, the back-off timer | `createNopollConnection`, `keep_trying_to_connect`, `connect_and_wait`, back-off, `wait_while_interface_down`, `close_and_unref_connection` | nopoll, interface flag, signal handler |
| Interface events (`ParodusInternal.c`, `event_handler.c`) | `interface_down_event`, its mutex and condition variable | set, reset, wait | main thread; the raising side is outside the repository |
| nopoll callbacks (`nopoll_handlers.c`, `nopoll_helpers.c`) | `previous_msg` (fragments) | message, ping and close handlers, `sendMessage` | queues, `close_retry` |
| Queues and task threads (`thread_tasks.c`, `crud_interface.c`, `upstream.c`) | `ParodusMsgQ`, `crudMsgQ`, `UpStreamMsgQ`, one mutex and condition variable each | enqueue, take, wait, exit | nopoll callback, nanomsg, CRUD |
| Upstream and downstream routing (`upstream.c`, `downstream.c`, `partners_check.c`) | `msg` of the upstream thread | decide where a message goes, add metadata, answer errors | queues, client list, connection |
| Client registry (`client_list.c`, `service_alive.c`) | linked list, `numOfClients`, `client_mut` | register, re-register, look up and send, keepalive sweep, delete | nanomsg sockets |
| CRUD requests and tag store (`crud_tasks.c`, `crud_internal.c`) | the JSON file | CREATE, RETRIEVE, UPDATE, DELETE, cloud-disconnect | file system, `close_retry` |
| Auth token (`auth_token.c`) | `webpa_auth_token` | request, retry, receive in parts | connection creation, curl |
| DNS and JWT lookup (`token.c`) | the table of TXT records | query, scan, assemble, decode, check | connection creation, resolver, cjwt |
| Configuration (`config.c`) | `ParodusCfg` | defaults, command line, URLs | everything reads it |
| Seshat, networking, nopoll mutexes, helpers | none that matters | see `PROJECT.json` | libraries, operating system |

### What is hard

* **Flags shared without a protocol.** `close_retry` is a request to reconnect,
  the signal that a reconnect is running, and the exit condition of the main
  loop, and four threads write it. `interface_down_event` is tested and waited
  for in two separate critical sections.
* **Pointers used after the check.** The sender reads the connection pointer and
  the online status and uses them while the main thread may release the
  connection; a list node is read after its mutex was given back.
* **Wake-ups.** Producers signal only an empty queue, consumers are woken once at
  shutdown and then joined, the back-off wait has no predicate.
* **Failure paths.** Every one of the ways a connection attempt can fail has to
  release what it made; the CRUD file is truncated before it is written.
* **State that outlives its connection.** Fragments of a message, a redirect, a
  token and the reason of a reconnect are kept in globals while connections come
  and go.
* **Signal handlers that lock.** The handler takes mutexes that the thread it
  interrupts may hold.
* **Numbers.** Unsigned timers fed from a clock that can be set, a delay that
  doubles in an int, ports and labels read without a limit, an off-by-one in the
  check of the TXT records.

`PROJECT.json` lists every such hazard with the line where it bites and the
properties that would catch it.

### What makes each component correct

* Connection manager: no connection object is lost or closed twice; the status
  seen by others fits the connection; a lost connection comes back and says why
  it was lost; a reconnect request is served; a shutdown ends the process.
* Queues: no wake-up is lost; messages of one path keep their order and are
  handled exactly once; a shutdown drains and joins.
* Client registry: the counter that steers searches and sweeps is right; every
  registered service gets keepalives; a dead one goes away.
* Routing: every message ends in one place, once; requests of the cloud are
  delivered or answered; partner ids decide; buffers go back to their maker.
* Connection creation: the server contacted is the one the cloud, the JWT or the
  configuration named; headers carry a valid token; waits are bounded.
* Lookup: a JWT is complete, allowed and not expired before it is followed.
* Heartbeat: a missing ping is noticed neither too soon nor too late.
* Configuration: parodus starts exactly with a usable command line.
* Tag store: each request is atomic and touches one tag; failures are visible
  and lose nothing they need not lose.

## 2. Modules

| Module | Models | Proofs |
|---|---|---|
| `ConnManager` | connection manager, creation, interface events, sender, cloud-disconnect, shutdown | `ConnManager_proofs` |
| `MsgQueues`, implements `MsgFifo` | the three queues, their producers and consumers, shutdown | `MsgQueues_proofs` |
| `ClientList` | registration, keepalive sweep, sending to a service | `ClientList_proofs` |
| `TagStore`, implements `TagMap` | CRUD requests and the JSON file | `TagStore_proofs` |
| `Routing` | where messages go, error answers, partner ids, release of buffers | `Routing_proofs` |
| `Connector`, implements `ServerChoice` | server list, redirects, auth token, back-off, health file | `Connector_proofs` |
| `JwtLookup` | TXT records and the JWT | `Startup_proofs` |
| `Heartbeat` | the heartbeat timer with real arithmetic | `Nopoll_proofs` |
| `Signals` | the mutexes the signal handler takes | |
| `Framing`, of `Fragments` and `SendFrames` | both directions of a connection | `Nopoll_proofs` |
| `Fragments` | joining of fragments across connections | |
| `SendFrames` | splitting into frames by two senders | |
| `CommandLine`, an instance of `Config`, which extends `WebpaUrl` | the command line, and how the URL in it is read | `Startup_proofs` |
| `MC...` | the small instances TLC checks | |

`map` in `PROJECT.json` gives the source lines of every definition.

### ConnManager

The main thread is a program counter `pc`; each value is a place between two
accesses of shared state, so that everything another thread can do in between
can happen. `c_*` are the places of `createNopollConnection`, `k_*` those of
`keep_trying_to_connect` and `connect_and_wait`, `close_*` the three steps of
`close_and_unref_connection` plus `set_global_conn(NULL)`, `ifd_*` those of
`wait_while_interface_down`, `cd_*` the cloud-disconnect pause; the rest is the
main loop. `ret` and `ifret` stand for the return addresses of the two functions
with several callers. The other threads have a program counter each: `hpc`
(signal handler), `spc` (sender), `kpc` (CRUD thread in a cloud-disconnect),
`wst` (worker threads, of which only waiting and exiting matter here).

A connection object is `free`, `opening`, `ready`, `open` (message handlers
installed) or `dead` (socket shut). A connection that is closed while `open`
calls `listenerOnCloseMessage`, as nopoll does.

Left to nondeterminism: which server is contacted and what it answers. An attempt
gives no connection object, a handshake that succeeds, fails, or asks for another
attempt (redirect, 403). Time is counted in passes of the loop: the heartbeat
timer grows by one per pass. Spurious wake-ups are steps. `CHECK_DEADLOCK` is off
because a process that ended, by `done`, `aborted` or `crashed`, takes no step.

### MsgQueues and MsgFifo

A message is its path through the queues. A cloud message ends at
`messageHandlerTask` or goes on through the CRUD thread to the upstream queue; a
client's message likewise from `processUpstreamMessage`. What a consumer makes of
a message happens between `Take` and `Finish` or the hand-over. Critical sections
are atomic. `accepted` and `handled` are history, one sequence per path. `MsgFifo`
is the promise: per path a FIFO from which each message comes out once. `Fifo` in
`MsgQueues` is the refinement mapping: what is on its way is what was accepted
without as many as were handled; that those handled are the right ones is what
the refinement says. The main loop is left for a shutdown (`LeaveLoop`) or because
`close_retry` was set again (`LeaveLoopForRetry`, at any time: `ConnManager` says
when); `early` is history and says that it was the latter. The process may then hang
in a join, and `CHECK_DEADLOCK` is off for that.

### ClientList

Operations under `client_mut` are atomic, except the sweep, which is one action
per message sent because it gives the mutex back after each deletion. `LongNames`
are names that do not fit `service_name[32]`: stored cut, never matched again and
not counted, as in `addToList`. `FlakyConnect` lets `nn_socket` or `nn_connect`
fail.

### TagStore and TagMap

A request is one step up to the truncation of the file by `fopen(..., "w+")` and
a second one for the write. With `Faults`, opening for reading or for writing
may fail, the text may be `NULL`, the write may be short, and the process may
crash between the two steps. Payloads are sequences of members with a key, a type
and a number (counted in halves, so that the cut of `valueint` shows) or a string
length. `Fold` is the case-insensitive comparison of `cJSON_GetObjectItem`.
`TagMap` is the promise: an atomic map. The field `fault` of an answer, a history
field, marks the answers to requests that met a fault; only those may lose tags.
The mapping takes the tags from the file or, between truncation and write, from
what the request had read. JSON members of the file other than `tags` are not
modelled (parodus never writes any).

### Routing

One step is the work of one thread on one message, between taking it from its
queue and letting go of it: such a step reads the list of clients and touches a
queue at most once, each under its mutex. `CloudRouted`, `Event`, `Retrieve` and
their like are the branches of `listenerOnMessage` and `processUpstreamMessage`.
A message is its type, addresses, partner ids and whether it has a
transaction uuid; `origin`, `fate` and `released` are history. `open` says whether
`sendUpstreamMsgToServer` sends or gives up; `nn_send` to a client in the list may
fail, and what it was given is then lost without notice. Undefined behaviour is a
`Crash`, or not, and the fields that overlay each other in the union of a WRP message
are a choice: `CrudFieldsMissing`, `CrudReplies` and `ReleasedBy` where a request or an
event is read as if it were a CRUD message (`MistakenForCrud`). `SharesStrings` says
which lists of partner ids have strings of the message, which are then freed twice. An
address has a device and a service, memory never runs short, and what is inside a
payload or a metadata list is left out. The queues themselves are in `MsgQueues`, the
list in `ClientList`.

### Connector and ServerChoice

The program counter follows `createNopollConnection` down to
`wait_connection_ready` and `getAuthToken`. `list` is the server list with its
three slots, `current` the pointer into it. What a server, curl or a lookup
answers is nondeterministic; the flow of the answer is not. `count`, `delay` and
`wait` are the back-off with the arithmetic of an int of `IntBits` bits.
`ServerChoice` says which server may be contacted without a pointer or a list.
What other threads do to connection objects and flags is in `ConnManager`, for
which all of this is one attempt that ends in some way.

### JwtLookup

A record is its type and its label, which is how `find_seq_num` and
`get_rr_seq_num` see it; one step scans one record. `text` is what the records are
strung together to. The resolver, the parser of its answer and cjwt are external:
`LibraryFails` is one of them failing, `Refuse` is parodus refusing the answer for what
it holds, which the history variable `refused` remembers.

### Heartbeat, Signals

Two parts of `ConnManager` in more detail. `Heartbeat` has ticks instead of passes
of the loop, a clock that may be set, and unsigned arithmetic; `quiet`, `seen` and
`missed` are history. Ticks of a paused timer are not counted, because that is
what pausing means; `disturbed`, history too, says that the clock was set since
the last ping, `ignored` that a ping without a payload came since the timer was reset:
`listenerOnPingMessage` does nothing for such a one, and "ping" in the properties is one
that counts. `Signals` has every lock, unlock and wait as a step, and the
handler running on any one of the threads, which meanwhile does nothing else and
keeps the mutex it holds.

### Framing: Fragments, SendFrames

`Fragments` has frames as the cloud sends them, in order, and connections that are
lost between any two. A message that is both first and final is not a fragment.
A join may fail (`ok` is false, at most `MaxFails` times), which leaves `previous_msg`
NULL, and so may the `malloc` of the message for the queue, which drops it whole.
`SendFrames` has one step per frame; a frame on the connection is the message it
is of, where in it the frame begins (`cp`), its length, its type and whether it is
final, and whether it was `cut`: a failing write gives up the rest of the message, and a
part of its frame may be on the connection already. A new connection starts when what was sent on the old one has failed; that a sender may
use the old object is a matter of `ConnManager`. The two share no state:
`Framing` takes them together, each behaviour being of one direction.

### CommandLine: WebpaUrl, Config

`WebpaUrl` has the text of a URL of given parts, what `parse_webpa_url` makes of
it, and `Meaning`, the reference: what the parts name. The parts need only be taken
apart at the right separators (`WellWritten`), so that every text behind a scheme is
the text of some; the four kinds that may be read otherwise are `Misread`. It is the only module with
texts, because what it is about is how texts are cut. The characters are a constant,
`Chars`, that holds at least the digits and the separators. `Config` reads options one
by one; an argument is the text of a number, the parts of a URL, and otherwise
what the code tells apart (a list of algorithms, the state of a key file). The
first connection reads the URL with `WebpaUrl` and stops parodus if it cannot.
Only long options are modelled. A second key file shorter than the first would
leave the end of the first in the buffer, so options hold one key. A text longer
than its field is cut by the code; the arguments here fit their fields, which
`FitsField` says of a URL (123 characters with its scheme). `CommandLine` gives the
variables of `Config` names of their own and states what is assumed of its
constants.

## 3. Runs

Bounds are the constants of the `.cfg` files. Every run passes.

| Run | Shows |
|---|---|
| `ConnSafety` | `NoConnectionLeak`, `CloseOnce`, `OnlineMeansConnected` with interface events, cloud-disconnects, a sender and its failures, two objects |
| `ConnReconnect` | `ReconnectHasReason`, `LoopExitsOnShutdown`, `ShutdownTerminates`, `LostConnectionRecovers` with interface events and signals, without cloud-disconnects |
| `Queues` | lost wake-ups (`SignalsReach`), order (`ImplementsFifo`), delivery and shutdown (`AcceptedIsHandled`, `QueuedIsTaken`, `ShutdownJoins`) |
| `Clients` | `CountIsLength`, `KeepaliveReachesAll`, `BrokenIsRemoved` for names that fit |
| `Tags` | `ImplementsTagMap`, `NamesDistinct`, `StoredTagsExpire` with every fault of the file |
| `Routing` | `AccountedOnce`, `RequestsServed`, `PartnersDecide`, `OnlyKnownMisuse`, `MessagesSettle` |
| `Connect` | `AttemptSound`, `HeadersCarryValidToken`, `BackoffBounded`, `ImplementsServerChoice`, `Connects` |
| `Lookup` | `WholeAnswerUsed`, `AcceptedIsValid`, `CompleteJwt` for every answer of the resolver |
| `Heartbeat` | `NoFalseMiss`, `SilenceNoticed` until the clock is set, `PausedIsZero` however it is set |
| `Framing` | `OneSpoiledPerFault` inbound, `ResultTells` outbound |
| `Signals` | `HandlerReturns`, `DelayBroken` with the handler on any thread |
| `Config` | `StartsIffUsable`, `ReadsAsWritten` for up to four options and for each of 6048 URLs |

Several of these are conjunctions of named parts, which the modules define and
explain: `SignalsReach` (no consumer waits with something to do, none waits at the
join), `RequestsServed` (requests of the cloud are handed on or answered, those of
clients stay local), `PartnersDecide` (on requests, and on what events carry),
`OnlyKnownMisuse` (of buffers and pointers), `AttemptSound` (address, redirect and
health file), `ReadsAsWritten` (options, and the server). The type invariants are
part of `CountIsLength`, `StoredTagsExpire`, `AccountedOnce`, `AttemptSound`,
`OneSpoiledPerFault` and `ResultTells`; those of `ConnManager`, `MsgQueues`,
`JwtLookup` and `Heartbeat` are theorems of their own.

Some properties name the case in which the code does not keep more, so that they
say exactly how far it goes:

* `ShutdownTerminates` leaves out the lost signal of `wait_while_interface_down`;
* `SignalsReach` and `ShutdownJoins` leave out a loop left for `close_retry`, and
  `ShutdownJoins` says that the join then hangs exactly if a consumer waits;
* `RequestsServed` lets a message be lost by a failing `nn_send` or during a reconnect,
  a reply of the CRUD thread be dropped without a MAC address, and the reply to a REQ
  taken for a CRUD message go anywhere;
* `PartnersDecide` says that an event whose ids match loses them;
* `OnlyKnownMisuse` allows five situations: four in which an invalid pointer may be
  used (`OnlyKnownCrashes`), and the replies that go back to the wrong library
  (`ReleasedByItsMaker`, which also names those to mistaken messages);
* `CompleteJwt` lets the last piece be missing beside a record of another type, and
  `WholeAnswerUsed` an answer of more than `MAX_RR_RECS` records be refused;
* `OneSpoiledPerFault` counts a failing join like a lost connection;
* `ResultTells` says of a frame that is cut that its bytes are not counted;
* `NoFalseMiss` and `SilenceNoticed` leave out a clock that was set and count only
  pings with a payload;
* `HandlerReturns` leaves out a handler on the thread that holds the mutex;
* `StartsIffUsable` takes any boot time for right, `ReadsAsWritten` says that a wrong
  one is stored as -1, and both leave out the URLs that are `Misread`.

Section 5 lists these cases.

**Why the bounds suffice.** The main thread holds at most one connection and
`NoConnectionLeak` shows it; a second object is there so that a sender can hold
the old one while the new one is made. `PingTimeout` 1 or 2 lets the timer be
below, at and beyond its limit; `MaxTries` is the code's own (ipv6, then ipv4).
In `ConnReconnect` one worker stands for all: they are signalled and joined alike. Three
messages give two on one path, so that their order matters, and one that shares
two queues with them from another producer. Three list nodes allow duplicates of
a service beside another. Three tag names have two that differ in case only and
the special name `tags`; the payloads contain one of each kind the checks tell
apart. Two messages at a time in `Routing` let each of them meet a registration, a
removal or a reply of the other. Two servers beside the default and two tokens in
`Connector` tell a new one from the old; `MaxCount` 5 over an int of 4 bits makes
the delay wrap around. Three records, with labels and answers of up to four, give
gaps, duplicates and numbers that are too large, and answers that are too long. Frame
limits of 2 with lengths from 0 to 5 give no frame, one, a full one, two full ones, and
one more. Two losses and two failing joins over three messages let them fall into the
same message and into different ones. The timer of 4 bits overflows within
a step of the clock. An unsigned int of 27 bits in `Config` keeps TLC's integers
from overflowing and has nine-digit texts that wrap around to port 80, to 0 and to
-1, as ten digits do at 32 bits. Four options are the three a JWT needs and one more, or the
same one twice.

**Fairness.** Threads that can run do run (weak fairness of each thread's next
step): the scheduler's promise. That a late `close_retry` ends the loop of `MsgQueues`
is not promised. Timed waits end (`backoff_delay`, the service
keepalive, `nn_recv`, `nopoll_loop_wait`). Strong fairness is used where a
condition comes and goes: taking `client_mut`, which other threads take in
between; the exit of a worker that may be handed another message (local clients
do not send for ever during a shutdown); and a server that is contacted again and
again answers in the end, without which no client can promise to reconnect (in
`Connector` also: an interface that went down comes up and is once noticed up). In
`Signals` a mutex that is free again and again is obtained, and the end of a
back-off delay is not assumed, because what is asked is whether it is cut short.
In `Routing` the three threads run; nothing need arrive and no reconnect end. No
fairness is assumed of signals, interface events, messages, requests or peers.

**Mutants.** For every property of a passing run a definition with a plausible
bug stands before the definition it mutates, commented as such; with it in place
TLC finds the property violated.

## 4. Proofs

TLAPS proves for all values of the constants (under the named assumptions of the
modules, which TLC evaluates in every run):

* `ConnManager_proofs`: `TypeCorrect`, `NoLeak`, `NoDoubleClose`,
  `OnlineIsConnected`. None of the three safety properties is inductive. `IInv`
  adds `ControlInv`, which says at which places of the main thread no object is
  allocated (everywhere a new one may be made), that the handshake is awaited
  with a connection, and that a path that reaches `c_deref` without one is a
  shutdown. One lemma per thread shows that its steps keep `IInv`.
* `LoopEndsOnlyForShutdown`: if only the main thread sets `close_retry` (no
  cloud-disconnect, no failing send on another thread), the loop is left only
  for a shutdown. `RetryInv` says at which places `close_retry` is known to be
  clear. Section 5 shows that the assumption is needed.
* `ReconnectsHaveReasons`: without cloud-disconnects (`~WithCloudDisconnect`), but
  with failing sends, a connection is made again only with a reason other than
  that of the first start. `ReasonInv` says that whoever asks for a reconnect has
  set one, and that between the wait for the handshake and the installation of the
  handlers no connection is open, so that no close handler can run there.
* `MsgQueues_proofs`: `TypeCorrect`, `NoLostWakeup`, `JoinWaitsForNoWaiter` and
  `SignalsAlwaysReach`, which joins the two, for
  any set of messages and any assignment of paths. `IInv` adds `ExitedIsIdle` and
  `SignalledRuns`: unless it is left early the loop is left for a shutdown, after
  which nobody starts to wait, and a consumer once signalled no longer waits. After
  an early end of the loop nothing is claimed of the joins.
* `KeepsOrder`, in the same module: `MsgQueues` implements `MsgFifo`. `FifoInv`
  speaks of places: place 0 of a queue is the hand of its consumer, so that taking
  a message shifts the places by one. Every message at a place is accepted, not
  handled and where its path says (`HereIsOnPath`); every message accepted and not
  handled has a place (`NoneIsLost`); of two messages of one path the one with more
  hops, or with as many and the smaller place, came first (`NoneOvertakes`). So a
  message at the end of its path is the oldest one not handled, although a path
  may lead through the same queue twice.
* `TagStore_proofs`: `NamesStayDistinct`, and `Implements`: `TagStore` implements
  `TagMap`, the tags of a file being written counting as those it held before.
  `IInv` says of a write under way (`WriteOK`) that it changes one tag of what the
  file held and carries the answer to that change, or that the request could not
  read the file and writes its tag alone. `Answered` and `Begun` are the two things
  a request can do; every operation is shown to do one of them, and each of them
  is mapped to `TagMap` once. `StoredTagsCanExpire` follows the payload of a request
  through the checks of the code, the file and a write under way.
* `Startup_proofs`, the lookup: `LookupTypeOK`, `LookupAcceptedIsValid`, and
  `LookupCompleteJwt` for any answer. The code never compares the slots it
  filled with the records it saw; that every label from 1 up is there, if all the
  records are TXT records, follows by
  counting: as many different labels as records, none beyond their number, is a
  bijection. The inductive invariant says which slot holds which scanned record.
  `LookupUsesWholeAnswer` is the other direction, that of the answers numbered without
  a gap only those longer than the table are refused: `SlotInv` counts the TXT records
  scanned so far, and labels from 1 up without a gap leave no slot empty, by the
  pigeonhole principle, so that neither `RejectRecord` nor `RejectAnswer` is enabled.
* `Nopoll_proofs`, the heartbeat: `HeartbeatTypeOK` and `PausedTimerIsZero` for any clock;
  `MissIsReal` and `SilenceIsNoticed` for a timeout that fits the timer with two
  waits to spare (`Fits`), as long as the clock was not set. Neither bound is
  inductive: `TimerTells` relates the timer to the true time since the last ping at
  each place of the loop, by the length of the wait that is not counted yet.
* `Nopoll_proofs`, what arrives: `FaultSpoilsOne` for any number of messages, frames,
  losses and failing joins. That the spoiled messages are no more than the faults is
  not inductive, because what a lost connection left in `previous_msg`, or a failing
  join did not, spoils a message that is queued later. `InInv` counts a `previous_msg`
  that is not what has come of the message under way as one spoiled already: a fault
  may add that one, and the message it is joined with takes it over.
* `Nopoll_proofs`, what is sent: `ResultIsTrue` for any senders, lengths and limit
  of a frame. `OutInv` says of a sender in the call that what is left and what is
  sent make up the message, that the next frame begins where the last one ended
  (`Counts`), and that the whole frames of its message hold the bytes counted so far in
  order (`Holds`), whatever frames of others are between them; a frame that is cut comes
  only with the return and begins where the count ends. `OwnNumbers` keeps the messages
  apart.
* `Startup_proofs`, the command line: `UsableStarts` and `RunsAsWritten`, for any
  options in any number and order. They assume of the constants what
  `CommandLine` does: arguments that a command line can hold and that fit their
  fields (`OptionsTyped`), an unsigned int that holds seven digits (`WideEnough`)
  and the characters (`CharsSuffice`). `CInv` says that what is stored is what the last options said,
  and that parodus is aborted only for a reason that the options read so far keep
  giving. It speaks of the server as what `parse_webpa_url` makes of the last URL;
  that this is what the URL means is a lemma of its own, `UrlRead`, for hosts,
  ports and paths of any length and characters: brackets of one kind only are refused
  either way (`OneBracket`), and both kinds are those of an IPv6 address or `Misread`.
* `UrlRead` rests on `NumberRead` and `NumberSize`: reading digit by digit in an
  unsigned int gives the remainder of the number (`ModStep` is the step), and a
  number of at most seven characters fits, so that a port cut to its buffer is
  still out of range if it was. The texts are then taken apart at their first
  separators (`Split`, `StrchrNone`), case by case of the parts of the URL. Where
  this needs induction, on the length of a text, it goes by the least
  counterexample: a set of numbers that holds 0 and with n also n + 1 is `Nat`
  (`NoLeastLeft`, from the well-foundedness of <), which needs no operator as a
  parameter. `Chars` is there for these proofs: no prover here knows that a
  character is a member of `STRING`, which is what the run takes for it.
* `Connector_proofs`: `AttemptIsSound` and `TokensAreValid`, from `AInv` and
  `TokenInv` together: which slot of the server list `current` points to at each
  place, and that the token in memory is the valid one but while curl runs.
  `ChoosesServer`: `Connector` implements `ServerChoice`, step by step.
  `BackoffIsBounded`: for an int of 4 to 32 bits (three seconds have to fit) and
  any limit of the count. `BackoffInv` says that the delay is 2^c - 1 as long as an
  int holds that, and -1 from then on, which is what doubling and adding one makes
  of it; the facts about powers of two that it needs are proved up to 32 only.
* `ClientList_proofs`: `CounterInvariant` for all names, `CounterIsLength` for names
  that fit (`LongNames = {}`, without which it is false: section 5). `CInv` adds that
  the sweep holds the mutex as long as it stands in the list and that no node is
  linked twice. That a loop over the list stops at the first node of a
  name is proved by taking the least one.
* `Routing_proofs`: `MessagesAccounted`, `RequestsAreServed`, `PartnersAreDecisive`
  and `MisuseIsKnown`, for any finite set of messages under way, with sends that may
  fail and contents that may be mistaken for others. `RInv` says of
  each message that it is once in a queue or once in `fate` (`Counts`, places being
  counted through bijections), that each queue holds only what can get there
  (`Flow`), and which fates fit which message (`RightFates`). `Counts` makes the
  others inductive: without it, what a queue holds says nothing of what has
  happened to the message. `SendersAssumption` is what the senders are taken to do
  and the code does not check: the fields that the code copies or routes by are
  there, the cloud is not a service of this device, and clients have other
  names than parodus.

Only model-checked:

* all liveness, which is out of the prover's reach, as is `ENABLED`;
* `HandlerReturns` and `DelayBroken` of `Signals`, which are liveness too.

Every invariant and every refinement that a run checks is a theorem.

No module has a `RECURSIVE` operator.

## 5. Where the code keeps less than is said of it

Each of these is a behaviour of the models. The definitions named are in the MC
modules (or are the properties of the runs) and TLC refutes them, as an invariant
or property, with the constants given; no run checks them.

*Main loop and shutdown* (constants of `ConnSafety`, without `SYMMETRY` and with
`FairSpec` for the temporal ones)

* `connection.c:695`: `wait_while_interface_down` tests the flag, gives the mutex
  back, takes it again and waits without a second look; a shutdown in between
  signals once, too soon, and the process cannot be ended
  (`g_shutdown ~> ~Alive`, in `ConnReconnect` too). CHANGELOG.md:25: "fix so that
  parodus can be killed, even if in a connection fail loop".
* `connection.c:765`: a shutdown before `createNopollConnection` enters its loop
  makes it read `current_server`, which is NULL (`ServerChosen`).
  CHANGELOG.md:26: "so we shut down properly".
* `conn_interface.c:198`: a cloud-disconnect between the check of `close_retry`
  and the loop condition ends the loop without a shutdown (`LoopExitsOnShutdown`,
  `CloseRetryServed`). The three signals for the consumers are then sent while
  `g_shutdown` is false: a consumer that waits finds its queue empty and waits again,
  and the joins wait for it, also when a shutdown follows (in `Queues`: without `early`
  in their formulas TLC refutes `SignalsReach` and `ShutdownJoins`).
* `upstream.c:618`: the online check of `sendMessage` does not keep the connection
  from being released before the write (`SendsOnLiveConnection`). CHANGELOG.md:18:
  "sendMessage to check cloud status == ONLINE before sending".
* `connection.c:798`: the reset of the reconnect reason overwrites one that
  another thread has just set (`ReconnectHasReason`). `crud_internal.c:1344` logs
  "Reconnect detected, setting reason %s for Reconnect".
* `crud_internal.c:1350`: a cloud-disconnect refused with 500 leaves its reason,
  and the main loop pauses for it (`PauseIsAsked`).
* `crud_internal.c:1301`: the main loop may free and clear `cloud_disconnect`
  between storing and `strdup` (`DisconnectAnswered`).
* `main.c:135`: the handler takes mutexes; on the thread that holds one of them it
  waits for itself (`HandlerAlwaysReturns`, constants of `Signals`).
* `connection.c:334`: a handler that ends before the wait of `backoff_delay`
  begins does not break it (`NoDelayAfterHandler`, `Signals`). `connection.c:312`:
  "g_shutdown can break out of the delay."
* `conn_interface.c:139`: a clock that is set during a wait makes the unsigned
  timer huge and a good connection is closed (`NoFalseMiss` without `disturbed`,
  `Heartbeat`). README.md:50: "The maximum time to wait between pings before
  assuming the connection is broken."
* `nopoll_handlers.c:149`: a ping without a payload does not reset the timer, and a
  connection on which only such pings come is closed with the reason `Ping_Miss`
  (`AnyPingCounts`, `Heartbeat`).

*Messages*

* `downstream.c:140` and `client_list.c:285`: nobody looks at the result of `nn_send`;
  a request of the cloud for a client that is dead but still in the list is neither
  delivered nor answered (`RequestsDeliveredOrAnswered`, `Routing`).
* `partners_check.c:123`: the list for an event without a match has the strings of the
  event, not copies. `upstream.c:358` frees them with the list, and `wrp_free_struct`
  (`upstream.c:477`) with the event once more (`OnlyKnownCrashes` without its fourth
  situation).
* `downstream.c:155` and `:266`: a request or an event for `parodus` is tested and copied
  as if it were a CRUD message, through fields of the union that are not its own; a reply
  may be encoded from such a copy and released by the wrong library
  (`OnlyKnownCrashes` without the third situation, `ReleasedByItsMaker` without the last
  exception).
* `nopoll_handlers.c:66`: the result of `nopoll_msg_join` is not checked. Without memory
  the fragments so far are released and what follows is queued as if it were the message
  (`OneSpoiledPerFault` without `fails`, `Framing`).
* `nopoll_helpers.c:97`: a flush that fails leaves a part of the frame on the connection,
  which the result of `sendResponse` does not count (`AllCounted`, `Framing`). In
  `test_nopoll_helpers.c`, `err_sendResponseFlushWrites` has such a write and expects 0.
* `upstream.c:341`: an event whose partner ids contain the device's is sent on
  without any (`EventsKeepPartners` says so). `partners_check.c:116` speaks of "appending to request
  partner_ids".
* `upstream.c:391`: a RETRIEVE for another service that begins with `parodu` is
  answered by the CRUD thread, and the reply, from `malloc`, released with
  `nn_freemsg` (the exception of `ReleasedByItsMaker`). `upstream.c:463`: "nn_freemsg should not be done for parodus/tags/
  CRUD requests as it is not received through nanomsg."
* `downstream.c:93`: an event of the cloud that does not name the device's partner
  has a list stored through a null pointer (`OnlyKnownCrashes` without this situation, as
  the next).
  `test_downstream_more.c:164` sends
  one, with `validate_partner_id` mocked.
* `upstream.c:464`: `msg` is not initialised and read when the first message of a
  client cannot be decoded. `test_upstream.c:547` expects such a message to be
  released with `nn_freemsg`.
* `nopoll_handlers.c:86`: the fragments of a lost connection are joined with, or
  queued instead of, the next message (`QueuedWhole`, `Framing`).
* `nopoll_helpers.c:95`: two threads send frame by frame without a lock, and the
  frames of their messages mix (`FramesTogether`, `Framing`).
* `client_list.c:129`: a service with a name of 32 characters or more is linked
  but not counted, and its deletion can bring the counter to zero with a service
  in the list, which gets no keepalive (`CountIsLength`, `KeepaliveReachesAll`
  with `LongNames <- MCLong`).
* `client_list.c:287`: a node is read after its mutex was given back
  (`LoggedNodeExists`, `Clients`). CHANGELOG.md:63: "used mutex protection to make
  client list and nn_sends thread safe".

*Start*

* `token.c:391`: the loop stops before the last slot, and beside a record of
  another type a missing last TXT record is not noticed (`CompleteJwt` without its
  exception). `token.c:390`: "check if we got them all".
* `token.c:319`: an answer with more records than `MAX_RR_RECS` is refused, complete or
  not, and records of other types count (`WholeAnswerUsed` without its exception, `Lookup`).
* `config.c:252`: the first colon is taken for that of a port even behind a slash,
  so `https://h/a:1` is server `h/a`, port 1 (`ReadsAllAsWritten`, `Config`, as the next two).
  README.md:46: "May end with a port number. If no port specified, then 443 is
  assumed for https, 80 for http."
* `config.c:213`: a bracket in the path of a URL is taken for that of an IPv6
  address: `https://h/a[b]` gives the server `/a[b`, without its first character and
  up to the bracket, and `https://h/a]` is refused. Likewise of brackets elsewhere
  (`StrayBrackets`): `https://ab[::1]` gives the server `b[::1`, and `https://h:[80]` the
  server `:[80`.
* `config.c:270`: a port is cut to seven characters before it is looked at:
  `00000080` is port 8, and `0000808x` port 808.
* `config.c:455` and `:540`: a boot time, or a wait between retries for it, that is no
  number is stored as -1 and parodus starts (`BadNumberRefused`, `Config`).
  `test_config.c:287` gives `--boot-time=12x` and expects -1 of `parseCommandLine`; it gets
  it because that command line has no URL.
* `config.c:295`: a number that does not fit an
  unsigned int wraps around (`NumbersAsWritten`, `Config`). The comment of
  `config.c` that gives `RS256:RS512:none` as a list of algorithms is out of date:
  `none` is refused.

## 6. Plan

Done: the modules, runs and proofs above. What is left is listed here with its reason.

### Not modelled

* Seshat (one call per pass until it succeeds), networking, nopoll's mutex
  callbacks, thread start and string helpers: thin wrappers over libraries.
* `loadParodusCfg`: the program does not call it. Short options: their string gives
  an argument to `-6` and none to `-M`, unlike the long ones; the documentation uses
  long options only.
* `packMetaData` and the metadata appended to messages: fixed data, encoded once.
* The texts of headers, the TLS options and the cryptography of JWTs, which belong
  to libraries.
* A ping timeout that is not given is 0, and every pass of the loop counts as a
  missed ping; the documentation gives no default to compare with.
