--------------------------- MODULE Routing_proofs ---------------------------
(***************************************************************************)
(* Proofs about the routing of messages, for any messages the senders may  *)
(* send, any number of them under way, any clients and any partner ids.    *)
(***************************************************************************)
EXTENDS Routing, TLAPS, FiniteSetTheorems, FunctionTheorems

-----------------------------------------------------------------------------
(* How often a queue holds a message.                                       *)

Places(q, i) == {k \in 1..Len(q) : q[k].id = i}

\* The places are finitely many, and there are none exactly if the count is 0.
LEMMA HeldCounts ==
    ASSUME NEW S, NEW q \in Seq(S), NEW i
    PROVE  /\ IsFiniteSet(Places(q, i))
           /\ Held(q, i) = Cardinality(Places(q, i))
           /\ Held(q, i) \in Nat
           /\ Held(q, i) = 0 <=> \A k \in 1..Len(q) : q[k].id # i
<1>1. Len(q) \in Int /\ 1 \in Int
  OBVIOUS
<1>2. IsFiniteSet(1..Len(q))
  BY <1>1, FS_Interval, Zenon
<1>3. Places(q, i) \in SUBSET (1..Len(q))
  BY DEF Places
<1>4. IsFiniteSet(Places(q, i))
  BY <1>2, <1>3, FS_Subset, Zenon
<1>5. Held(q, i) = Cardinality(Places(q, i))
  BY DEF Held, Places
<1>6. Held(q, i) \in Nat
  BY <1>4, <1>5, FS_CardinalityType, Zenon
<1>7. Held(q, i) = 0 <=> Places(q, i) = {}
  BY <1>4, <1>5, FS_EmptySet, Zenon
<1>8. Places(q, i) = {} <=> \A k \in 1..Len(q) : q[k].id # i
  BY DEF Places
<1> QED BY <1>4, <1>5, <1>6, <1>7, <1>8

LEMMA HeldAppend ==
    ASSUME NEW S, NEW q \in Seq(S), NEW it \in S, NEW i
    PROVE  Held(Append(q, it), i) = Held(q, i) + IF it.id = i THEN 1 ELSE 0
<1> DEFINE r == Append(q, it)
           n == Len(q) + 1
<1>1. /\ r \in Seq(S) /\ Len(r) = n /\ r[n] = it /\ n \in 1..n
      /\ \A k \in 1..Len(q) : r[k] = q[k] /\ k \in 1..n
      /\ \A k \in 1..n : k = n \/ k \in 1..Len(q)
      /\ n \notin 1..Len(q)
  OBVIOUS
<1> HIDE DEF r, n
<1>2. IsFiniteSet(Places(q, i)) /\ n \notin Places(q, i)
  BY <1>1, HeldCounts DEF Places
<1>3. Held(q, i) = Cardinality(Places(q, i)) /\ Held(r, i) = Cardinality(Places(r, i))
      /\ Held(q, i) \in Nat
  BY <1>1, HeldCounts
<1>4. CASE it.id = i
  <2>1. Places(r, i) = Places(q, i) \cup {n}
    BY <1>1, <1>4, Zenon DEF Places
  <2>2. Cardinality(Places(q, i) \cup {n}) = Cardinality(Places(q, i)) + 1
    BY <1>2, FS_AddElement, Zenon
  <2> QED BY <1>3, <1>4, <2>1, <2>2 DEF r
<1>5. CASE it.id # i
  <2>1. Places(r, i) = Places(q, i)
    BY <1>1, <1>5, Zenon DEF Places
  <2> QED BY <1>3, <1>5, <2>1 DEF r
<1> QED BY <1>4, <1>5

LEMMA HeldTail ==
    ASSUME NEW S, NEW q \in Seq(S), q # <<>>, NEW i
    PROVE  /\ Held(q, i) = Held(Tail(q), i) + IF Head(q).id = i THEN 1 ELSE 0
           /\ Tail(q) \in Seq(S) /\ Head(q) \in S
<1> DEFINE r == Tail(q)
           P == Places(q, i)
           R == Places(r, i)
           M == P \ {1}
           f == [k \in R |-> k + 1]
<1>1. /\ r \in Seq(S) /\ Len(r) = Len(q) - 1 /\ Len(q) \in Nat /\ Len(q) >= 1
      /\ \A k \in 1..Len(r) : r[k] = q[k + 1]
      /\ q[1] = Head(q) /\ Head(q) \in S
  OBVIOUS
<1> HIDE DEF r
<1>2. /\ IsFiniteSet(P) /\ IsFiniteSet(R)
      /\ Held(q, i) = Cardinality(P) /\ Held(r, i) = Cardinality(R)
      /\ Held(q, i) \in Nat /\ Held(r, i) \in Nat
  BY <1>1, HeldCounts
<1>3. f \in Bijection(R, M)
  <2>1. ASSUME NEW k \in R PROVE k \in Int /\ k + 1 \in M
    <3>1. k \in 1..Len(r) /\ r[k].id = i
      BY DEF Places
    <3>2. k + 1 \in 1..Len(q) /\ q[k + 1].id = i /\ k + 1 # 1
      BY <1>1, <3>1
    <3> QED BY <3>1, <3>2 DEF Places
  <2>2. ASSUME NEW m \in M PROVE \E k \in R : k + 1 = m
    <3>1. m \in 1..Len(q) /\ q[m].id = i /\ m # 1
      BY DEF Places
    <3>2. m - 1 \in 1..Len(r) /\ (m - 1) + 1 = m
      BY <1>1, <3>1
    <3>3. r[m - 1] = q[m]
      BY <1>1, <3>2
    <3>4. m - 1 \in R
      BY <3>1, <3>2, <3>3 DEF Places
    <3> QED BY <3>2, <3>4
  <2> HIDE DEF R, M
  <2>3. f \in [R -> M]
    BY <2>1
  <2>4. \A a, b \in R : f[a] = f[b] => a = b
    BY <2>1
  <2>5. \A m \in M : \E k \in R : f[k] = m
    BY <2>2
  <2> HIDE DEF f
  <2>6. f \in Injection(R, M)
    BY <2>3, <2>4, Zenon DEF Injection, IsInjective
  <2>7. f \in Surjection(R, M)
    BY <2>3, <2>5, Zenon DEF Surjection
  <2> QED BY <2>6, <2>7, Zenon DEF Bijection
<1> HIDE DEF f, R, P, M
<1>4. ExistsBijection(R, M)
  BY <1>3, Zenon DEF ExistsBijection
<1>5. Cardinality(M) = Cardinality(R)
  BY <1>2, <1>4, FS_Bijection, Zenon
<1>6. Cardinality(M) = IF 1 \in P THEN Cardinality(P) - 1 ELSE Cardinality(P)
  BY <1>2, FS_RemoveElement, Zenon DEF M
<1>7. 1 \in P <=> Head(q).id = i
  BY <1>1 DEF P, Places
<1>8. Held(q, i) = Held(r, i) + IF Head(q).id = i THEN 1 ELSE 0
  BY <1>2, <1>5, <1>6, <1>7
<1> QED BY <1>1, <1>8 DEF r

-----------------------------------------------------------------------------
(* Contents and what the handlers make of them.                             *)

Lists == (SUBSET Partners) \cup {NULL}

LEMMA ContentsFields ==
    ASSUME NEW c \in Contents
    PROVE  /\ c.type \in Types /\ c.src \in Addrs \cup {NULL} /\ c.dst \in Addrs \cup {NULL}
           /\ c.partners \in Lists /\ c.uuid \in BOOLEAN
           /\ c.src # NULL => c.src.svc \in Services /\ c.src.dev \in {"this", "other"}
           /\ c.dst # NULL => c.dst.svc \in Services /\ c.dst.dev \in {"this", "other"}
<1>1. c.type \in Types /\ c.src \in Addrs \cup {NULL} /\ c.dst \in Addrs \cup {NULL}
  BY DEF Contents
<1>2. c.partners \in Lists /\ c.uuid \in BOOLEAN
  BY Zenon DEF Contents, Lists
<1>3. \A a \in Addrs : a.svc \in Services /\ a.dev \in {"this", "other"}
  BY DEF Addrs
<1> QED BY <1>1, <1>2, <1>3

\* A message with other addresses and partner ids.
Readdressed(c, s, d, p) == [c EXCEPT !.src = s, !.dst = d, !.partners = p]

LEMMA ContentsMade ==
    ASSUME NEW c \in Contents, NEW s \in Addrs \cup {NULL}, NEW d \in Addrs \cup {NULL},
           NEW p \in Lists
    PROVE  LET r == Readdressed(c, s, d, p) IN
           /\ r \in Contents
           /\ r.type = c.type /\ r.src = s /\ r.dst = d /\ r.partners = p /\ r.uuid = c.uuid
<1> DEFINE A == Addrs \cup {NULL}
           L == Lists
           B == BOOLEAN
           T == Types
           R == [type : T, src : A, dst : A, partners : L, uuid : B]
<1>1. Contents = R
  BY Zenon DEF Contents, Lists
<1>2. s \in A /\ d \in A /\ p \in L /\ c \in R
  BY <1>1
<1> HIDE DEF A, L, B, T
<1> QED BY <1>1, <1>2 DEF Readdressed

\* The answer of an error and the reply of the CRUD thread have the type of the
\* request and its addresses swapped.
LEMMA Replies ==
    ASSUME NEW c \in Contents
    PROVE  /\ ErrorResponse(c) \in Contents /\ CrudReply(c) \in Contents
           /\ ErrorResponse(c).type = c.type /\ CrudReply(c).type = c.type
           /\ ErrorResponse(c).src = c.dst /\ CrudReply(c).src = c.dst
           /\ c.src # NULL => ErrorResponse(c).dst = c.src
           /\ CrudReply(c).dst = c.src /\ CrudReply(c).partners = NULL
           /\ CrudReply(c).uuid = c.uuid
<1> DEFINE to == IF c.src = NULL /\ c.type # "REQ"
                 THEN [dev |-> "other", svc |-> "unknown"] ELSE c.src
           e == Readdressed(c, c.dst, to, NULL)
           r == Readdressed(c, c.dst, c.src, NULL)
<1>1. c.src \in Addrs \cup {NULL} /\ c.dst \in Addrs \cup {NULL} /\ NULL \in Lists
  BY ContentsFields DEF Lists
<1>2. to \in Addrs \cup {NULL}
  BY <1>1, RoutingAssumption DEF Addrs
<1>3. ErrorResponse(c) = e /\ CrudReply(c) = r
  BY DEF ErrorResponse, CrudReply, Readdressed, Contents
<1>4. c.src # NULL => to = c.src
  OBVIOUS
<1> HIDE DEF to
<1>5. \A t \in Addrs \cup {NULL} :
        LET m == Readdressed(c, c.dst, t, NULL) IN
        /\ m \in Contents /\ m.type = c.type /\ m.src = c.dst /\ m.dst = t
        /\ m.partners = NULL /\ m.uuid = c.uuid
  BY <1>1, ContentsMade
<1>6. /\ e \in Contents
      /\ e.type = c.type /\ e.src = c.dst /\ e.dst = to
  BY <1>2, <1>5
<1>7. /\ r \in Contents
      /\ r.type = c.type /\ r.src = c.dst /\ r.dst = c.src /\ r.partners = NULL /\ r.uuid = c.uuid
  BY <1>1, <1>5
<1> HIDE DEF e, r
<1> QED BY <1>3, <1>4, <1>6, <1>7

\* A reply to a CRUD message is CrudReply; every reply has the type of the request.
LEMMA RepliesOfCrud ==
    ASSUME NEW c \in Contents, NEW x \in CrudReplies(c)
    PROVE  /\ x \in Contents /\ x.type = c.type /\ x.partners = NULL
           /\ c.type \in CrudLayout => x = CrudReply(c)
           /\ x = CrudReply(c) \/ (x.src = NULL /\ x.dst = NULL)
<1> DEFINE g == Readdressed(c, NULL, NULL, NULL)
<1>1. NULL \in Addrs \cup {NULL} /\ NULL \in Lists
  BY DEF Lists
<1>2. /\ g \in Contents /\ g.type = c.type /\ g.src = NULL /\ g.dst = NULL
      /\ g.partners = NULL
  <2>1. PICK d \in Addrs \cup {NULL}, p \in Lists : d = NULL /\ p = NULL
    BY <1>1
  <2>2. LET m == Readdressed(c, d, d, p) IN
        /\ m \in Contents /\ m.type = c.type /\ m.src = d /\ m.dst = d /\ m.partners = p
    BY <2>1, ContentsMade
  <2> QED BY <2>1, <2>2
<1>3. x = CrudReply(c) \/ (c.type \notin CrudLayout /\ x = g)
  <2>1. CASE c.type \in CrudLayout
    BY <2>1 DEF CrudReplies
  <2>2. CASE c.type \notin CrudLayout
    BY <2>2 DEF CrudReplies, Readdressed
  <2> QED BY <2>1, <2>2
<1> HIDE DEF g
<1> QED BY <1>2, <1>3, Replies

\* Two ways to say that no partner id is one of the device's.
LEMMA ForeignIsNoMatch ==
    ASSUME NEW c, c.partners # NULL, DevicePartners # {}
    PROVE  Foreign(c) <=> ~PartnerMatch(c.partners)
BY DEF Foreign, PartnerMatch

\* The check of the partner ids: it refuses foreign requests only, and yields a list
\* for events without a match only.
LEMMA PartnersChecked ==
    ASSUME NEW c \in Contents
    PROVE  LET check == validate_partner_id(c) IN
           /\ check.list \in Lists /\ check.ret \in {-1, 0, 1}
           /\ check.ret = -1 <=> c.type = "REQ" /\ Foreign(c)
           /\ check.ret = 0 <=> DevicePartners = {}
           /\ check.list # NULL => /\ c.type = "EVENT" /\ DevicePartners # {}
                                   /\ c.partners = NULL \/ Foreign(c)
           /\ c.type = "EVENT" /\ DevicePartners # {} =>
                IF c.partners # NULL /\ ~Foreign(c) THEN check.list = NULL
                ELSE /\ check.list # NULL /\ DevicePartners \subseteq check.list
                     /\ c.partners # NULL => c.partners \subseteq check.list
<1>1. c.partners \in Lists
  BY ContentsFields
<1>2. \A ps \in SUBSET Partners : ps # NULL /\ ps \cup DevicePartners \in SUBSET Partners
  BY RoutingAssumption
<1>3. DevicePartners \in SUBSET Partners
  BY RoutingAssumption
<1>4. c.partners # NULL => c.partners \in SUBSET Partners
  BY <1>1 DEF Lists
<1>5. CASE DevicePartners = {}
  BY <1>5 DEF validate_partner_id, Lists, Foreign
<1>6. CASE DevicePartners # {} /\ c.type = "EVENT" /\ c.partners = NULL
  <2>1. validate_partner_id(c) = [ret |-> 1, list |-> DevicePartners]
    BY <1>6 DEF validate_partner_id
  <2> QED BY <1>2, <1>3, <1>6, <2>1 DEF Lists
<1>7. CASE DevicePartners # {} /\ c.type = "EVENT" /\ c.partners # NULL
  <2> DEFINE l == IF PartnerMatch(c.partners) THEN NULL ELSE c.partners \cup DevicePartners
  <2>1. validate_partner_id(c) = [ret |-> 1, list |-> l]
    BY <1>7 DEF validate_partner_id
  <2>2. Foreign(c) <=> ~PartnerMatch(c.partners)
    BY <1>7, ForeignIsNoMatch
  <2> QED BY <1>2, <1>3, <1>4, <1>7, <2>1, <2>2 DEF Lists
<1>8. CASE DevicePartners # {} /\ c.type = "REQ"
  <2> DEFINE n == IF c.partners # NULL /\ ~PartnerMatch(c.partners) THEN -1 ELSE 1
  <2>1. validate_partner_id(c) = [ret |-> n, list |-> NULL]
    BY <1>8 DEF validate_partner_id
  <2>2. c.partners # NULL => (Foreign(c) <=> ~PartnerMatch(c.partners))
    BY <1>8, ForeignIsNoMatch
  <2>3. c.partners = NULL => ~Foreign(c)
    BY DEF Foreign
  <2> QED BY <1>8, <2>1, <2>2, <2>3 DEF Lists
<1>9. CASE DevicePartners # {} /\ c.type # "EVENT" /\ c.type # "REQ"
  <2>1. validate_partner_id(c) = [ret |-> 1, list |-> NULL]
    BY <1>9 DEF validate_partner_id
  <2> QED BY <1>9, <2>1 DEF Lists
<1> QED BY <1>5, <1>6, <1>7, <1>8, <1>9, Zenon

WithCode(f, n) == [f EXCEPT !.code = n]

LEMMA FateFields ==
    ASSUME NEW what \in {"sent", "lost", "dropped", "ignored", "done"},
           NEW to \in Services \cup {"server", NULL}, NEW c \in Contents,
           NEW n \in {400, 403, 531}
    PROVE  LET f == Fate(what, to, c)
               g == WithCode(f, n)
           IN /\ f \in Fates /\ f.what = what /\ f.to = to /\ f.c = c /\ f.code = 0
              /\ g \in Fates /\ g.what = what /\ g.to = to /\ g.c = c /\ g.code = n
<1> DEFINE C == Contents
           W == {"sent", "lost", "dropped", "ignored", "done"}
           T == Services \cup {"server", NULL}
<1>1. c \in C /\ what \in W /\ to \in T
  OBVIOUS
<1>2. Fates = [what : W, to : T, c : C, code : {0, 400, 403, 531}]
  BY DEF Fates
<1> HIDE DEF C, W, T
<1> QED BY <1>1, <1>2 DEF Fate, WithCode

LEMMA PlainFate ==
    ASSUME NEW what \in {"sent", "lost", "dropped", "ignored", "done"},
           NEW to \in Services \cup {"server", NULL}, NEW c \in Contents
    PROVE  LET f == Fate(what, to, c) IN
           f \in Fates /\ f.what = what /\ f.to = to /\ f.c = c /\ f.code = 0
<1>1. 400 \in {400, 403, 531}
  OBVIOUS
<1> QED BY <1>1, FateFields

\* A message to the server is sent or lost.
LEMMA ServerFateFields ==
    ASSUME NEW c \in Contents, NEW n \in {400, 403, 531}
    PROVE  LET f == ServerFate(c)
               g == WithCode(f, n)
           IN /\ f \in Fates /\ f.what \in {"sent", "lost"} /\ f.to = "server"
              /\ f.c = c /\ f.code = 0
              /\ g \in Fates /\ g.what \in {"sent", "lost"} /\ g.to = "server"
              /\ g.c = c /\ g.code = n
<1> DEFINE w == IF open THEN "sent" ELSE "lost"
<1>1. w \in {"sent", "lost"} /\ ServerFate(c) = Fate(w, "server", c)
  BY DEF ServerFate
<1> HIDE DEF w
<1> QED BY <1>1, FateFields

-----------------------------------------------------------------------------
(* The inductive invariant.                                                 *)

Origins == [from : {"cloud"}, c : CloudMsgs] \cup [from : {"client"}, c : ClientMsgs]

QueueTypes ==
    /\ ParodusMsgQ \in Seq(Items) /\ crudMsgQ \in Seq(Items) /\ UpStreamMsgQ \in Seq(Items)
    /\ origin \in [Ids -> {NULL} \cup Origins]
    /\ fate \in [Ids -> Seq(Fates)]

Counts ==
    \A i \in Ids :
        Held(ParodusMsgQ, i) + Held(crudMsgQ, i) + Held(UpStreamMsgQ, i) + Len(fate[i])
            = IF Fresh(i) THEN 0 ELSE 1

\* What the CRUD thread may be given: a message of the cloud to parodus that passed the
\* check of the partner ids, or what a client asks parodus on this device, for which
\* the device has a MAC address.
CrudOrigin(o) ==
    /\ o # NULL /\ o.c.dst # NULL
    /\ o.c.type \in CrudLayout => o.c.src # NULL /\ o.c.uuid = TRUE
    /\ \/ /\ o.from = "cloud" /\ o.c.type \in Requests \cup {"EVENT"}
          /\ o.c.dst.svc = "parodus" /\ (o.c.type = "REQ" => ~Foreign(o.c))
       \/ /\ o.from = "client" /\ o.c.type = "RETRIEVE" /\ hw_mac
          /\ o.c.dst.dev = "this" /\ o.c.dst.svc \in ParodusLike

FromCloud(o, it) == o = [from |-> "cloud", c |-> it.c]
ForCrud(o, it) == CrudOrigin(o) /\ it.c = o.c

\* A message of a client, in a buffer of nanomsg, or a reply, in one of malloc.
Upstream(o, it) ==
    \/ it.buf = "nn" /\ o = [from |-> "client", c |-> it.c]
    \/ it.buf = "malloc" /\ CrudOrigin(o) /\ it.c \in CrudReplies(o.c)

Flow ==
    /\ \A k \in 1..Len(ParodusMsgQ) : FromCloud(origin[ParodusMsgQ[k].id], ParodusMsgQ[k])
    /\ \A k \in 1..Len(crudMsgQ) : ForCrud(origin[crudMsgQ[k].id], crudMsgQ[k])
    /\ \A k \in 1..Len(UpStreamMsgQ) : Upstream(origin[UpStreamMsgQ[k].id], UpStreamMsgQ[k])

\* Fate f is right for a message of origin o.
RightFate(o, f) ==
    /\ o.from = "cloud" /\ o.c.type \in Requests =>
         \/ f.what = "dropped" /\ ~hw_mac
         \/ f.what \in {"sent", "lost"} /\ f.to = o.c.dst.svc /\ f.c = o.c
         \/ /\ f.what \in {"sent", "lost"} /\ f.to = "server" /\ f.c.type = o.c.type
            /\ \/ f.c.src = o.c.dst /\ (o.c.src # NULL => f.c.dst = o.c.src)
               \/ o.c.type = "REQ" /\ o.c.dst.svc = "parodus" /\ f.code = 0
    /\ /\ o.from = "client" /\ o.c.type = "RETRIEVE"
       /\ o.c.dst = [dev |-> "this", svc |-> "parodus"]
       => f.what = "dropped" \/ (f.what \in {"sent", "lost"} /\ f.to = o.c.src.svc)
    /\ o.from = "cloud" /\ o.c.type = "REQ" => (f.code = 403 <=> Foreign(o.c))
    /\ /\ o.from = "client" /\ o.c.type = "EVENT" /\ f.what = "sent" /\ DevicePartners # {}
       => IF o.c.partners # NULL /\ ~Foreign(o.c) THEN f.c.partners = NULL
          ELSE /\ f.c.partners # NULL /\ DevicePartners \subseteq f.c.partners
               /\ o.c.partners # NULL => o.c.partners \subseteq f.c.partners

RightFates == \A i \in Ids : fate[i] # <<>> => RightFate(origin[i], fate[i][1])

QInv == QueueTypes /\ Counts /\ Flow /\ RightFates

\* The rest of the state.
Others ==
    /\ hw_mac \in BOOLEAN /\ registered \subseteq Services
    /\ msg \in {"wild", "null"} /\ open \in BOOLEAN /\ crashed \in BOOLEAN
    /\ released \subseteq [made : {"nn", "malloc"}, by : {"nn", "malloc"},
                          type : Types, src : Services \cup {NULL}]
    /\ OnlyKnownMisuse

RInv == QInv /\ Others

-----------------------------------------------------------------------------
(* What a step does to the queues: a message comes in, is passed on, or gets *)
(* its fate.                                                                 *)

LEMMA ItemFields ==
    /\ \A it \in Items : it.id \in Ids /\ it.c \in Contents /\ it.buf \in {"nn", "malloc"}
    /\ \A i \in Ids, c \in Contents, b \in {"nn", "malloc"} :
         /\ Item(i, c, b) \in Items
         /\ Item(i, c, b).id = i /\ Item(i, c, b).c = c /\ Item(i, c, b).buf = b
<1> DEFINE C == Contents
<1>1. Items = [id : Ids, c : C, buf : {"nn", "malloc"}]
  BY DEF Items
<1> HIDE DEF C
<1>2. \A it \in Items : it.id \in Ids /\ it.c \in C /\ it.buf \in {"nn", "malloc"}
  BY <1>1
<1>3. \A i \in Ids, c \in C, b \in {"nn", "malloc"} :
         /\ Item(i, c, b) \in Items
         /\ Item(i, c, b).id = i /\ Item(i, c, b).c = c /\ Item(i, c, b).buf = b
  BY <1>1 DEF Item
<1> QED BY <1>2, <1>3 DEF C

LEMMA Dequeued ==
    ASSUME NEW q \in Seq(Items), q # <<>>
    PROVE  /\ Head(q) \in Items /\ Head(q).id \in Ids /\ Head(q).c \in Contents
           /\ Head(q) = q[1] /\ 1 \in 1..Len(q) /\ Tail(q) \in Seq(Items)
           /\ \A k \in 1..Len(Tail(q)) : k + 1 \in 1..Len(q) /\ Tail(q)[k] = q[k + 1]
<1>1. /\ Head(q) \in Items /\ Head(q) = q[1] /\ 1 \in 1..Len(q) /\ Tail(q) \in Seq(Items)
      /\ \A k \in 1..Len(Tail(q)) : k + 1 \in 1..Len(q) /\ Tail(q)[k] = q[k + 1]
  OBVIOUS
<1> QED BY <1>1, ItemFields

LEMMA Enqueued ==
    ASSUME NEW q \in Seq(Items), NEW it \in Items
    PROVE  /\ Append(q, it) \in Seq(Items)
           /\ \A k \in 1..Len(Append(q, it)) :
                \/ k \in 1..Len(q) /\ Append(q, it)[k] = q[k]
                \/ Append(q, it)[k] = it
OBVIOUS

\* A message that is in a queue came in and has no fate.
LEMMA InQueueUnsettled ==
    ASSUME QueueTypes, Counts, NEW q \in {ParodusMsgQ, crudMsgQ, UpStreamMsgQ}, q # <<>>
    PROVE  fate[Head(q).id] = <<>> /\ ~Fresh(Head(q).id)
<1> DEFINE i == Head(q).id
           h == Held(ParodusMsgQ, i) + Held(crudMsgQ, i) + Held(UpStreamMsgQ, i)
<1>1. /\ ParodusMsgQ \in Seq(Items) /\ crudMsgQ \in Seq(Items) /\ UpStreamMsgQ \in Seq(Items)
      /\ fate \in [Ids -> Seq(Fates)]
  BY DEF QueueTypes
<1>2. q \in Seq(Items) /\ i \in Ids
  BY <1>1, Dequeued
<1>3. Held(q, i) = Held(Tail(q), i) + 1 /\ Tail(q) \in Seq(Items)
  BY <1>2, HeldTail
<1>4. Held(Tail(q), i) \in Nat
  BY <1>3, HeldCounts
<1>5. /\ Held(ParodusMsgQ, i) \in Nat /\ Held(crudMsgQ, i) \in Nat
      /\ Held(UpStreamMsgQ, i) \in Nat
  BY <1>1, HeldCounts
<1>6. h \in Nat /\ h >= 1
  BY <1>3, <1>4, <1>5
<1>7. fate[i] \in Seq(Fates) /\ Len(fate[i]) \in Nat
  BY <1>1, <1>2
<1>8. h + Len(fate[i]) = IF Fresh(i) THEN 0 ELSE 1
  BY <1>2 DEF Counts
<1> HIDE DEF h, i
<1>9. Len(fate[i]) = 0 /\ ~Fresh(i)
  BY <1>6, <1>7, <1>8
<1>10. fate[i] = <<>>
  BY <1>7, <1>9
<1> QED BY <1>9, <1>10 DEF i

\* The oldest message of q gets fate f.
LEMMA SettleKeeps ==
    ASSUME QInv, NEW q \in {ParodusMsgQ, UpStreamMsgQ}, q # <<>>,
           \/ q = ParodusMsgQ /\ ParodusMsgQ' = Tail(q) /\ UNCHANGED UpStreamMsgQ
           \/ q = UpStreamMsgQ /\ UpStreamMsgQ' = Tail(q) /\ UNCHANGED ParodusMsgQ,
           UNCHANGED <<hw_mac, crudMsgQ, origin>>,
           NEW f \in Fates, Settle(Head(q).id, f), RightFate(origin[Head(q).id], f)
    PROVE  QInv'
<1> DEFINE i == Head(q).id
<1>1. /\ ParodusMsgQ \in Seq(Items) /\ crudMsgQ \in Seq(Items) /\ UpStreamMsgQ \in Seq(Items)
      /\ fate \in [Ids -> Seq(Fates)]
  BY DEF QInv, QueueTypes
<1>2. q \in Seq(Items) /\ i \in Ids /\ Tail(q) \in Seq(Items)
  BY <1>1, Dequeued
<1>3. fate[i] = <<>>
  BY InQueueUnsettled DEF QInv
<1>4. fate' = [fate EXCEPT ![i] = <<f>>]
  BY <1>1, <1>2, <1>3 DEF Settle
<1>5. /\ fate' \in [Ids -> Seq(Fates)] /\ fate'[i] = <<f>>
      /\ \A j \in Ids : j # i => fate'[j] = fate[j]
  BY <1>1, <1>2, <1>4
<1>6. QueueTypes'
  BY <1>1, <1>2, <1>5 DEF QInv, QueueTypes
<1>7. Counts'
  <2> SUFFICES ASSUME NEW j \in Ids
               PROVE  Held(ParodusMsgQ', j) + Held(crudMsgQ', j) + Held(UpStreamMsgQ', j)
                        + Len(fate'[j]) = IF Fresh(j) THEN 0 ELSE 1
    BY DEF Counts, Fresh
  <2> DEFINE one == IF i = j THEN 1 ELSE 0
  <2>1. Held(q, j) = Held(Tail(q), j) + one
    BY <1>2, HeldTail
  <2>2. /\ Held(ParodusMsgQ, j) \in Nat /\ Held(crudMsgQ, j) \in Nat
        /\ Held(UpStreamMsgQ, j) \in Nat /\ Held(Tail(q), j) \in Nat
    BY <1>1, <1>2, HeldCounts
  <2>3. Len(fate[j]) \in Nat /\ Len(fate'[j]) = Len(fate[j]) + one
    <3>1. fate[j] \in Seq(Fates) /\ Len(fate[j]) \in Nat
      BY <1>1
    <3>2. CASE j = i
      <4>1. Len(fate'[j]) = 1 /\ Len(fate[j]) = 0 /\ one = 1
        BY <1>3, <1>5, <3>2
      <4> QED BY <4>1
    <3>3. CASE j # i
      <4>1. Len(fate'[j]) = Len(fate[j]) /\ one = 0
        BY <1>5, <3>3
      <4> HIDE DEF one
      <4> QED BY <3>1, <4>1
    <3> QED BY <3>2, <3>3
  <2>4. Held(ParodusMsgQ, j) + Held(crudMsgQ, j) + Held(UpStreamMsgQ, j)
          + Len(fate[j]) = IF Fresh(j) THEN 0 ELSE 1
    BY DEF QInv, Counts
  <2>5. one \in {0, 1} /\ Held(crudMsgQ', j) = Held(crudMsgQ, j)
    OBVIOUS
  <2> HIDE DEF one
  <2>6. CASE q = ParodusMsgQ /\ ParodusMsgQ' = Tail(q) /\ UNCHANGED UpStreamMsgQ
    <3>1. /\ Held(ParodusMsgQ, j) = Held(ParodusMsgQ', j) + one
          /\ Held(UpStreamMsgQ', j) = Held(UpStreamMsgQ, j) /\ Held(ParodusMsgQ', j) \in Nat
      BY <2>1, <2>2, <2>6
    <3> QED BY <2>2, <2>3, <2>4, <2>5, <3>1
  <2>7. CASE q = UpStreamMsgQ /\ UpStreamMsgQ' = Tail(q) /\ UNCHANGED ParodusMsgQ
    <3>1. /\ Held(UpStreamMsgQ, j) = Held(UpStreamMsgQ', j) + one
          /\ Held(ParodusMsgQ', j) = Held(ParodusMsgQ, j) /\ Held(UpStreamMsgQ', j) \in Nat
      BY <2>1, <2>2, <2>7
    <3> QED BY <2>2, <2>3, <2>4, <2>5, <3>1
  <2> QED BY <2>6, <2>7
<1>8. Flow'
  <2>1. \A o, it : (CrudOrigin(o)' <=> CrudOrigin(o)) /\ (ForCrud(o, it)' <=> ForCrud(o, it))
                   /\ (Upstream(o, it)' <=> Upstream(o, it))
    BY DEF CrudOrigin, ForCrud, Upstream
  <2>2. \A k \in 1..Len(Tail(q)) : k + 1 \in 1..Len(q) /\ Tail(q)[k] = q[k + 1]
    BY <1>1, Dequeued
  <2>3. Flow
    BY DEF QInv
  <2>4. \A k \in 1..Len(crudMsgQ') : ForCrud(origin[crudMsgQ[k].id], crudMsgQ[k])
    BY <2>3 DEF Flow
  <2>5. \A k \in 1..Len(ParodusMsgQ') :
            FromCloud(origin[ParodusMsgQ'[k].id], ParodusMsgQ'[k])
    BY <2>2, <2>3 DEF Flow
  <2>6. \A k \in 1..Len(UpStreamMsgQ') :
            Upstream(origin[UpStreamMsgQ'[k].id], UpStreamMsgQ'[k])
    BY <2>2, <2>3 DEF Flow
  <2> QED BY <2>1, <2>4, <2>5, <2>6 DEF Flow, FromCloud
<1>9. RightFates'
  <2>1. \A o, g : RightFate(o, g)' <=> RightFate(o, g)
    BY DEF RightFate
  <2>2. <<f>>[1] = f
    OBVIOUS
  <2> QED BY <1>2, <1>5, <2>1, <2>2 DEF QInv, RightFates
<1> QED BY <1>6, <1>7, <1>8, <1>9 DEF QInv

\* The oldest message of q is passed on as it, to another queue.
MovedTo(q, it) ==
    \/ /\ q = ParodusMsgQ /\ ParodusMsgQ' = Tail(q) /\ UNCHANGED UpStreamMsgQ
       /\ crudMsgQ' = Append(crudMsgQ, it) /\ ForCrud(origin[it.id], it)
    \/ /\ q = UpStreamMsgQ /\ UpStreamMsgQ' = Tail(q) /\ UNCHANGED ParodusMsgQ
       /\ crudMsgQ' = Append(crudMsgQ, it) /\ ForCrud(origin[it.id], it)
    \/ /\ q = crudMsgQ /\ crudMsgQ' = Tail(q) /\ UNCHANGED ParodusMsgQ
       /\ UpStreamMsgQ' = Append(UpStreamMsgQ, it) /\ Upstream(origin[it.id], it)

LEMMA MoveKeeps ==
    ASSUME QInv, NEW q \in {ParodusMsgQ, crudMsgQ, UpStreamMsgQ}, q # <<>>,
           NEW it \in Items, it.id = Head(q).id, MovedTo(q, it),
           UNCHANGED <<hw_mac, origin, fate>>
    PROVE  QInv'
<1> DEFINE i == Head(q).id
<1>1. /\ ParodusMsgQ \in Seq(Items) /\ crudMsgQ \in Seq(Items) /\ UpStreamMsgQ \in Seq(Items)
      /\ fate \in [Ids -> Seq(Fates)]
  BY DEF QInv, QueueTypes
<1>2. /\ q \in Seq(Items) /\ i \in Ids /\ Tail(q) \in Seq(Items)
      /\ Append(crudMsgQ, it) \in Seq(Items) /\ Append(UpStreamMsgQ, it) \in Seq(Items)
  BY <1>1, Dequeued, Enqueued
<1>3. QueueTypes'
  BY <1>1, <1>2 DEF QInv, QueueTypes, MovedTo
<1>4. Counts'
  <2> SUFFICES ASSUME NEW j \in Ids
               PROVE  Held(ParodusMsgQ', j) + Held(crudMsgQ', j) + Held(UpStreamMsgQ', j)
                        + Len(fate[j]) = IF Fresh(j) THEN 0 ELSE 1
    BY DEF Counts, Fresh
  <2> DEFINE one == IF it.id = j THEN 1 ELSE 0
  <2>1. Held(q, j) = Held(Tail(q), j) + one
    BY <1>2, HeldTail
  <2>2. /\ Held(Append(crudMsgQ, it), j) = Held(crudMsgQ, j) + one
        /\ Held(Append(UpStreamMsgQ, it), j) = Held(UpStreamMsgQ, j) + one
    BY <1>1, HeldAppend
  <2>3. /\ Held(ParodusMsgQ, j) \in Nat /\ Held(crudMsgQ, j) \in Nat
        /\ Held(UpStreamMsgQ, j) \in Nat /\ Held(Tail(q), j) \in Nat
    BY <1>1, <1>2, HeldCounts
  <2>4. Len(fate[j]) \in Nat
    BY <1>1
  <2>5. Held(ParodusMsgQ, j) + Held(crudMsgQ, j) + Held(UpStreamMsgQ, j)
          + Len(fate[j]) = IF Fresh(j) THEN 0 ELSE 1
    BY DEF QInv, Counts
  <2>6. one \in {0, 1}
    OBVIOUS
  <2> HIDE DEF one
  <2>7. \/ /\ Held(ParodusMsgQ, j) = Held(ParodusMsgQ', j) + one
           /\ Held(crudMsgQ', j) = Held(crudMsgQ, j) + one
           /\ Held(UpStreamMsgQ', j) = Held(UpStreamMsgQ, j) /\ Held(ParodusMsgQ', j) \in Nat
        \/ /\ Held(UpStreamMsgQ, j) = Held(UpStreamMsgQ', j) + one
           /\ Held(crudMsgQ', j) = Held(crudMsgQ, j) + one
           /\ Held(ParodusMsgQ', j) = Held(ParodusMsgQ, j) /\ Held(UpStreamMsgQ', j) \in Nat
        \/ /\ Held(crudMsgQ, j) = Held(crudMsgQ', j) + one
           /\ Held(UpStreamMsgQ', j) = Held(UpStreamMsgQ, j) + one
           /\ Held(ParodusMsgQ', j) = Held(ParodusMsgQ, j) /\ Held(crudMsgQ', j) \in Nat
    BY <2>1, <2>2, <2>3, Zenon DEF MovedTo
  <2> QED BY <2>3, <2>4, <2>5, <2>6, <2>7
<1>5. Flow'
  <2>1. \A o, x : (CrudOrigin(o)' <=> CrudOrigin(o)) /\ (ForCrud(o, x)' <=> ForCrud(o, x))
                   /\ (Upstream(o, x)' <=> Upstream(o, x))
    BY DEF CrudOrigin, ForCrud, Upstream
  <2>2. \A k \in 1..Len(Tail(q)) : k + 1 \in 1..Len(q) /\ Tail(q)[k] = q[k + 1]
    BY <1>1, Dequeued
  <2>3. /\ \A k \in 1..Len(Append(crudMsgQ, it)) :
             \/ k \in 1..Len(crudMsgQ) /\ Append(crudMsgQ, it)[k] = crudMsgQ[k]
             \/ Append(crudMsgQ, it)[k] = it
        /\ \A k \in 1..Len(Append(UpStreamMsgQ, it)) :
             \/ k \in 1..Len(UpStreamMsgQ) /\ Append(UpStreamMsgQ, it)[k] = UpStreamMsgQ[k]
             \/ Append(UpStreamMsgQ, it)[k] = it
    BY <1>1, Enqueued
  <2>4. Flow
    BY DEF QInv
  <2>5. \A k \in 1..Len(ParodusMsgQ') :
            FromCloud(origin[ParodusMsgQ'[k].id], ParodusMsgQ'[k])
    BY <2>2, <2>4 DEF Flow, MovedTo
  <2>6. \A k \in 1..Len(crudMsgQ') : ForCrud(origin[crudMsgQ'[k].id], crudMsgQ'[k])
    BY <2>2, <2>3, <2>4 DEF Flow, MovedTo
  <2>7. \A k \in 1..Len(UpStreamMsgQ') :
            Upstream(origin[UpStreamMsgQ'[k].id], UpStreamMsgQ'[k])
    BY <2>2, <2>3, <2>4 DEF Flow, MovedTo
  <2> QED BY <2>1, <2>5, <2>6, <2>7 DEF Flow, FromCloud
<1>6. RightFates'
  <2>1. \A o, g : RightFate(o, g)' <=> RightFate(o, g)
    BY DEF RightFate
  <2> QED BY <2>1 DEF QInv, RightFates
<1> QED BY <1>3, <1>4, <1>5, <1>6 DEF QInv

\* Message it comes in from outside.
Arrived(it) ==
    \/ /\ ParodusMsgQ' = Append(ParodusMsgQ, it) /\ UNCHANGED <<crudMsgQ, UpStreamMsgQ>>
       /\ origin' = [origin EXCEPT ![it.id] = [from |-> "cloud", c |-> it.c]]
       /\ it.c \in CloudMsgs
    \/ /\ UpStreamMsgQ' = Append(UpStreamMsgQ, it) /\ UNCHANGED <<crudMsgQ, ParodusMsgQ>>
       /\ origin' = [origin EXCEPT ![it.id] = [from |-> "client", c |-> it.c]]
       /\ it.c \in ClientMsgs /\ it.buf = "nn"

LEMMA ArriveKeeps ==
    ASSUME QInv, NEW it \in Items, Fresh(it.id), Arrived(it), UNCHANGED <<hw_mac, fate>>
    PROVE  QInv'
<1> DEFINE i == it.id
           o == origin'[i]
<1>1. /\ ParodusMsgQ \in Seq(Items) /\ crudMsgQ \in Seq(Items) /\ UpStreamMsgQ \in Seq(Items)
      /\ fate \in [Ids -> Seq(Fates)] /\ origin \in [Ids -> {NULL} \cup Origins]
  BY DEF QInv, QueueTypes
<1>2. /\ i \in Ids
      /\ Append(ParodusMsgQ, it) \in Seq(Items) /\ Append(UpStreamMsgQ, it) \in Seq(Items)
  BY <1>1, Enqueued, ItemFields
<1>3. /\ o \in Origins /\ o # NULL
      /\ origin' \in [Ids -> {NULL} \cup Origins]
      /\ \A j \in Ids : j # i => origin'[j] = origin[j]
      /\ o = [from |-> "cloud", c |-> it.c] \/ o = [from |-> "client", c |-> it.c]
  <2>1. ASSUME NEW p, NEW c, (p = "cloud" /\ c \in CloudMsgs) \/ (p = "client" /\ c \in ClientMsgs)
        PROVE  [from |-> p, c |-> c] \in Origins /\ [from |-> p, c |-> c] # NULL
    BY <2>1, RoutingAssumption DEF Origins
  <2>2. PICK p \in {"cloud", "client"} :
           /\ origin' = [origin EXCEPT ![i] = [from |-> p, c |-> it.c]]
           /\ (p = "cloud" /\ it.c \in CloudMsgs) \/ (p = "client" /\ it.c \in ClientMsgs)
    BY Zenon DEF Arrived
  <2> DEFINE r == [from |-> p, c |-> it.c]
  <2>3. r \in Origins /\ r # NULL
    BY <2>1, <2>2
  <2>4. r = [from |-> "cloud", c |-> it.c] \/ r = [from |-> "client", c |-> it.c]
    OBVIOUS
  <2> HIDE DEF r, i
  <2>5. origin' = [origin EXCEPT ![i] = r]
    BY <2>2 DEF r
  <2> QED BY <1>1, <1>2, <2>3, <2>4, <2>5
<1>4. QueueTypes'
  BY <1>1, <1>2, <1>3 DEF QueueTypes, Arrived
<1>5. /\ \A j \in Ids : /\ Held(ParodusMsgQ, j) \in Nat /\ Held(crudMsgQ, j) \in Nat
                        /\ Held(UpStreamMsgQ, j) \in Nat /\ Len(fate[j]) \in Nat
                        /\ Held(ParodusMsgQ, j) + Held(crudMsgQ, j) + Held(UpStreamMsgQ, j)
                             + Len(fate[j]) = IF Fresh(j) THEN 0 ELSE 1
  BY <1>1, HeldCounts DEF QInv, Counts
<1>6. /\ Held(ParodusMsgQ, i) = 0 /\ Held(crudMsgQ, i) = 0 /\ Held(UpStreamMsgQ, i) = 0
      /\ Len(fate[i]) = 0
  BY <1>2, <1>5
<1>7. Counts'
  <2> SUFFICES ASSUME NEW j \in Ids
               PROVE  Held(ParodusMsgQ', j) + Held(crudMsgQ', j) + Held(UpStreamMsgQ', j)
                        + Len(fate[j]) = IF Fresh(j)' THEN 0 ELSE 1
    BY DEF Counts, Fresh
  <2> DEFINE one == IF i = j THEN 1 ELSE 0
  <2>1. /\ Held(Append(ParodusMsgQ, it), j) = Held(ParodusMsgQ, j) + one
        /\ Held(Append(UpStreamMsgQ, it), j) = Held(UpStreamMsgQ, j) + one
    BY <1>1, HeldAppend
  <2>2. (one = 1 /\ i = j) \/ (one = 0 /\ i # j)
    OBVIOUS
  <2> HIDE DEF one
  <2>3. \/ /\ Held(ParodusMsgQ', j) = Held(ParodusMsgQ, j) + one
           /\ Held(crudMsgQ', j) = Held(crudMsgQ, j)
           /\ Held(UpStreamMsgQ', j) = Held(UpStreamMsgQ, j)
        \/ /\ Held(UpStreamMsgQ', j) = Held(UpStreamMsgQ, j) + one
           /\ Held(crudMsgQ', j) = Held(crudMsgQ, j)
           /\ Held(ParodusMsgQ', j) = Held(ParodusMsgQ, j)
    BY <2>1, Zenon DEF Arrived
  <2>4. i = j => ~Fresh(j)' /\ Fresh(j)
    BY <1>3 DEF Fresh
  <2>5. i # j => (Fresh(j)' <=> Fresh(j))
    BY <1>3 DEF Fresh
  <2> QED BY <1>5, <2>2, <2>3, <2>4, <2>5
<1>8. Flow'
  <2>1. \A p, x : (CrudOrigin(p)' <=> CrudOrigin(p)) /\ (ForCrud(p, x)' <=> ForCrud(p, x))
                   /\ (Upstream(p, x)' <=> Upstream(p, x))
    BY DEF CrudOrigin, ForCrud, Upstream
  <2>2. /\ \A k \in 1..Len(ParodusMsgQ) : ParodusMsgQ[k].id # i
        /\ \A k \in 1..Len(crudMsgQ) : crudMsgQ[k].id # i
        /\ \A k \in 1..Len(UpStreamMsgQ) : UpStreamMsgQ[k].id # i
    BY <1>1, <1>6, HeldCounts
  <2>3. /\ \A k \in 1..Len(ParodusMsgQ) : ParodusMsgQ[k].id \in Ids
        /\ \A k \in 1..Len(crudMsgQ) : crudMsgQ[k].id \in Ids
        /\ \A k \in 1..Len(UpStreamMsgQ) : UpStreamMsgQ[k].id \in Ids
    BY <1>1, ItemFields
  <2>4. /\ \A k \in 1..Len(Append(ParodusMsgQ, it)) :
             \/ k \in 1..Len(ParodusMsgQ) /\ Append(ParodusMsgQ, it)[k] = ParodusMsgQ[k]
             \/ Append(ParodusMsgQ, it)[k] = it
        /\ \A k \in 1..Len(Append(UpStreamMsgQ, it)) :
             \/ k \in 1..Len(UpStreamMsgQ) /\ Append(UpStreamMsgQ, it)[k] = UpStreamMsgQ[k]
             \/ Append(UpStreamMsgQ, it)[k] = it
    BY <1>1, Enqueued
  <2>5. /\ \A k \in 1..Len(ParodusMsgQ) :
             FromCloud(origin'[ParodusMsgQ[k].id], ParodusMsgQ[k])
        /\ \A k \in 1..Len(crudMsgQ) : ForCrud(origin'[crudMsgQ[k].id], crudMsgQ[k])
        /\ \A k \in 1..Len(UpStreamMsgQ) :
             Upstream(origin'[UpStreamMsgQ[k].id], UpStreamMsgQ[k])
    BY <1>3, <2>2, <2>3 DEF QInv, Flow
  <2>6. \/ /\ ParodusMsgQ' = Append(ParodusMsgQ, it) /\ FromCloud(o, it)
           /\ UNCHANGED <<crudMsgQ, UpStreamMsgQ>>
        \/ /\ UpStreamMsgQ' = Append(UpStreamMsgQ, it) /\ Upstream(o, it)
           /\ UNCHANGED <<crudMsgQ, ParodusMsgQ>>
    BY <1>1, <1>2 DEF Arrived, FromCloud, Upstream
  <2> HIDE DEF o
  <2>7. \A k \in 1..Len(ParodusMsgQ') :
            FromCloud(origin'[ParodusMsgQ'[k].id], ParodusMsgQ'[k])
    BY <2>4, <2>5, <2>6 DEF o
  <2>8. \A k \in 1..Len(crudMsgQ') : ForCrud(origin'[crudMsgQ'[k].id], crudMsgQ'[k])
    BY <2>5, <2>6
  <2>9. \A k \in 1..Len(UpStreamMsgQ') :
            Upstream(origin'[UpStreamMsgQ'[k].id], UpStreamMsgQ'[k])
    BY <2>4, <2>5, <2>6 DEF o
  <2> QED BY <2>1, <2>7, <2>8, <2>9 DEF Flow, FromCloud
<1>9. RightFates'
  <2>1. \A p, g : RightFate(p, g)' <=> RightFate(p, g)
    BY DEF RightFate
  <2>2. fate[i] = <<>>
    BY <1>1, <1>2, <1>6
  <2> QED BY <1>3, <2>1, <2>2 DEF QInv, RightFates
<1> QED BY <1>4, <1>7, <1>8, <1>9 DEF QInv

-----------------------------------------------------------------------------
(* The oldest message of each queue.                                        *)

LEMMA OriginFields ==
    ASSUME NEW o \in Origins
    PROVE  /\ o.from \in {"cloud", "client"} /\ o.c \in Contents
           /\ o.from = "cloud" => o.c \in CloudMsgs
           /\ o.from = "client" => o.c \in ClientMsgs
BY SendersAssumption DEF Origins

LEMMA OldestHasOrigin ==
    ASSUME QInv, NEW q \in {ParodusMsgQ, crudMsgQ, UpStreamMsgQ}, q # <<>>
    PROVE  /\ Head(q) \in Items /\ Head(q).id \in Ids /\ Head(q).c \in Contents
           /\ Head(q) = q[1] /\ 1 \in 1..Len(q)
           /\ origin[Head(q).id] \in Origins
<1>1. /\ ParodusMsgQ \in Seq(Items) /\ crudMsgQ \in Seq(Items) /\ UpStreamMsgQ \in Seq(Items)
      /\ origin \in [Ids -> {NULL} \cup Origins]
  BY DEF QInv, QueueTypes
<1>2. ~Fresh(Head(q).id)
  BY InQueueUnsettled DEF QInv
<1>3. /\ Head(q) \in Items /\ Head(q).id \in Ids /\ Head(q).c \in Contents
      /\ Head(q) = q[1] /\ 1 \in 1..Len(q)
  BY <1>1, Dequeued
<1> QED BY <1>1, <1>2, <1>3 DEF Fresh

LEMMA OldestFromCloud ==
    ASSUME QInv, ParodusMsgQ # <<>>
    PROVE  LET it == Head(ParodusMsgQ) IN
           /\ it \in Items /\ it.id \in Ids /\ it.c \in Contents /\ it.c \in CloudMsgs
           /\ origin[it.id] \in Origins /\ origin[it.id] # NULL
           /\ origin[it.id].from = "cloud" /\ origin[it.id].c = it.c
<1> DEFINE it == Head(ParodusMsgQ)
           o == origin[it.id]
<1>1. /\ it \in Items /\ it.id \in Ids /\ it.c \in Contents
      /\ it = ParodusMsgQ[1] /\ 1 \in 1..Len(ParodusMsgQ) /\ o \in Origins
  BY OldestHasOrigin
<1>2. FromCloud(o, it)
  BY <1>1 DEF QInv, Flow
<1>3. o.from = "cloud" /\ o.c = it.c
  BY <1>2 DEF FromCloud
<1>4. o # NULL
  BY InQueueUnsettled DEF QInv, Fresh
<1> HIDE DEF it, o
<1>5. it.c \in CloudMsgs
  BY <1>1, <1>3, OriginFields
<1> QED BY <1>1, <1>3, <1>4, <1>5 DEF it, o

LEMMA OldestForCrud ==
    ASSUME QInv, crudMsgQ # <<>>
    PROVE  LET it == Head(crudMsgQ) IN
           /\ it \in Items /\ it.id \in Ids /\ it.c \in Contents
           /\ CrudOrigin(origin[it.id]) /\ origin[it.id].c = it.c
           /\ it.c.type \in CrudLayout => it.c.src # NULL /\ it.c.uuid = TRUE
<1> DEFINE it == Head(crudMsgQ)
           o == origin[it.id]
<1>1. /\ it \in Items /\ it.id \in Ids /\ it.c \in Contents
      /\ it = crudMsgQ[1] /\ 1 \in 1..Len(crudMsgQ)
  BY OldestHasOrigin
<1>2. ForCrud(o, it)
  BY <1>1 DEF QInv, Flow
<1> HIDE DEF it, o
<1>3. CrudOrigin(o) /\ o.c = it.c
  BY <1>2 DEF ForCrud
<1>4. it.c.type \in CrudLayout => it.c.src # NULL /\ it.c.uuid = TRUE
  BY <1>3 DEF CrudOrigin
<1> QED BY <1>1, <1>3, <1>4 DEF it, o

LEMMA OldestUpstream ==
    ASSUME QInv, UpStreamMsgQ # <<>>
    PROVE  LET it == Head(UpStreamMsgQ)
               o == origin[it.id]
           IN /\ it \in Items /\ it.id \in Ids /\ it.c \in Contents
              /\ o \in Origins /\ o # NULL
              /\ \/ it.buf = "nn" /\ o.from = "client" /\ o.c = it.c
                 \/ it.buf = "malloc" /\ CrudOrigin(o) /\ it.c \in CrudReplies(o.c)
<1> DEFINE it == Head(UpStreamMsgQ)
           o == origin[it.id]
<1>1. /\ it \in Items /\ it.id \in Ids /\ it.c \in Contents
      /\ it = UpStreamMsgQ[1] /\ 1 \in 1..Len(UpStreamMsgQ) /\ o \in Origins
  BY OldestHasOrigin
<1>2. Upstream(o, it)
  BY <1>1 DEF QInv, Flow
<1>3. o # NULL
  BY InQueueUnsettled DEF QInv, Fresh
<1> HIDE DEF it, o
<1>4. \/ it.buf = "nn" /\ o.from = "client" /\ o.c = it.c
      \/ it.buf = "malloc" /\ CrudOrigin(o) /\ it.c \in CrudReplies(o.c)
  BY <1>2 DEF Upstream
<1> QED BY <1>1, <1>3, <1>4 DEF it, o

-----------------------------------------------------------------------------
(* From the cloud.                                                          *)

LEMMA QueuesUntouched ==
    ASSUME QInv, UNCHANGED <<ParodusMsgQ, crudMsgQ, UpStreamMsgQ, hw_mac, origin, fate>>
    PROVE  QInv'
<1>1. \A o, x : (CrudOrigin(o)' <=> CrudOrigin(o)) /\ (ForCrud(o, x)' <=> ForCrud(o, x))
                /\ (Upstream(o, x)' <=> Upstream(o, x)) /\ (RightFate(o, x)' <=> RightFate(o, x))
                /\ (FromCloud(o, x)' <=> FromCloud(o, x))
  BY DEF CrudOrigin, ForCrud, Upstream, RightFate, FromCloud
<1>2. QueueTypes' /\ Counts'
  BY DEF QInv, QueueTypes, Counts, Fresh
<1>3. Flow' /\ RightFates'
  BY <1>1 DEF QInv, Flow, RightFates
<1> QED BY <1>2, <1>3 DEF QInv

\* While nothing crashed, the rest of the state is right if the buffers were
\* released as they should.
LEMMA OthersKept ==
    ASSUME Others, UNCHANGED <<hw_mac, registered, msg, open, crashed, released>>, ~crashed
    PROVE  Others'
<1>1. ~crashed'
  OBVIOUS
<1>2. OnlyKnownMisuse'
  BY <1>1 DEF Others, OnlyKnownMisuse, ReleasedByItsMaker, OnlyKnownCrashes
<1> QED BY <1>2 DEF Others

\* A crash in a situation that OnlyKnownCrashes names.
LEMMA CrashKeeps ==
    ASSUME RInv, Crash,
           \/ HeadIs(UpStreamMsgQ, LAMBDA it : it.c.type = "BAD") /\ msg = "wild"
           \/ HeadIs(ParodusMsgQ, LAMBDA it : /\ it.c.type = "EVENT" /\ DevicePartners # {}
                                              /\ it.c.partners = NULL \/ Foreign(it.c))
           \/ CrudMistaken
    PROVE  RInv'
<1>1. /\ crashed' = TRUE
      /\ UNCHANGED <<hw_mac, ParodusMsgQ, crudMsgQ, UpStreamMsgQ, registered, msg, open,
                     origin, fate, released>>
  BY DEF Crash, queues
<1>2. QInv'
  BY <1>1, QueuesUntouched DEF RInv
<1>3. ReleasedByItsMaker'
  BY <1>1 DEF RInv, Others, OnlyKnownMisuse, ReleasedByItsMaker
<1>4. OnlyKnownCrashes'
  BY <1>1 DEF OnlyKnownCrashes, HeadIs, CrudMistaken, Foreign
<1>5. Others'
  BY <1>1, <1>3, <1>4 DEF RInv, Others, OnlyKnownMisuse
<1> QED BY <1>2, <1>5 DEF RInv

LEMMA ReceiveKeeps ==
    ASSUME RInv, Receive
    PROVE  RInv'
<1>1. UNCHANGED <<hw_mac, registered, msg, open, crashed, released, fate>> /\ ~crashed
  BY DEF Receive, CloudSends, ClientSends
<1>2. ASSUME NEW i \in Ids, NEW c \in CloudMsgs, CloudSends(i, c) PROVE QInv'
  <2> DEFINE it == Item(i, c, "malloc")
  <2>1. it \in Items /\ it.id = i /\ it.c = c
    BY ItemFields, SendersAssumption
  <2>2. ParodusMsgQ' = Append(ParodusMsgQ, it) /\ UNCHANGED <<crudMsgQ, UpStreamMsgQ>>
    BY <1>2 DEF CloudSends
  <2> HIDE DEF it
  <2>3. Arrived(it) /\ Fresh(it.id)
    BY <1>2, <2>1, <2>2 DEF CloudSends, Arrived
  <2> QED BY <1>1, <2>1, <2>3, ArriveKeeps DEF RInv
<1>3. ASSUME NEW i \in Ids, NEW c \in ClientMsgs, ClientSends(i, c) PROVE QInv'
  <2> DEFINE it == Item(i, c, "nn")
  <2>1. it \in Items /\ it.id = i /\ it.c = c /\ it.buf = "nn"
    BY ItemFields, SendersAssumption
  <2>2. UpStreamMsgQ' = Append(UpStreamMsgQ, it) /\ UNCHANGED <<crudMsgQ, ParodusMsgQ>>
    BY <1>3 DEF ClientSends
  <2> HIDE DEF it
  <2>3. Arrived(it) /\ Fresh(it.id)
    BY <1>3, <2>1, <2>2 DEF ClientSends, Arrived
  <2> QED BY <1>1, <2>1, <2>3, ArriveKeeps DEF RInv
<1>4. QInv'
  BY <1>2, <1>3 DEF Receive
<1>5. Others'
  BY <1>1, OthersKept DEF RInv
<1> QED BY <1>4, <1>5 DEF RInv

\* An answer has the code that the check of the partner ids calls for.
LEMMA AnswerKeeps ==
    ASSUME QInv, ParodusMsgQ # <<>>, NEW it, it = Head(ParodusMsgQ),
           NEW n \in {400, 403, 531}, it.c.type = "REQ" => (n = 403 <=> Foreign(it.c)),
           Answer(it, n), ParodusMsgQ' = Tail(ParodusMsgQ),
           UNCHANGED <<hw_mac, UpStreamMsgQ, origin>>
    PROVE  QInv'
<1> DEFINE o == origin[it.id]
           c == it.c
           e == ErrorResponse(c)
<1>1. /\ it.id \in Ids /\ c \in Contents /\ o.from = "cloud" /\ o.c = c
  BY OldestFromCloud
<1>2. UNCHANGED crudMsgQ
  BY DEF Answer
<1>3. ASSUME NEW f \in Fates, Settle(it.id, f), RightFate(o, f) PROVE QInv'
  BY <1>2, <1>3, SettleKeeps
<1>4. CASE c.type = "EVENT"
  <2> DEFINE f == Fate("ignored", NULL, c)
  <2>1. f \in Fates
    BY <1>1, PlainFate
  <2>2. Settle(it.id, f)
    BY <1>4 DEF Answer
  <2> HIDE DEF f
  <2>3. RightFate(o, f)
    BY <1>1, <1>4 DEF RightFate, Requests
  <2> QED BY <1>3, <2>1, <2>2, <2>3
<1>5. CASE c.type # "EVENT"
  <2> DEFINE f == WithCode(ServerFate(e), n)
  <2>1. /\ e \in Contents /\ e.type = c.type /\ e.src = c.dst /\ (c.src # NULL => e.dst = c.src)
    BY <1>1, Replies
  <2>2. Settle(it.id, f)
    BY <1>5 DEF Answer, WithCode
  <2> HIDE DEF e
  <2>3. /\ f \in Fates /\ f.what \in {"sent", "lost"} /\ f.to = "server"
        /\ f.c = e /\ f.code = n
    BY <2>1, ServerFateFields
  <2> HIDE DEF f
  <2>4. RightFate(o, f)
    BY <1>1, <2>1, <2>3 DEF RightFate
  <2> QED BY <1>3, <2>2, <2>3, <2>4
<1> QED BY <1>4, <1>5

\* A message is given to nn_send for the client it names, or dropped if there is none.
LEMMA ToClient ==
    ASSUME NEW c \in Contents, c.dst # NULL, NEW i, sendMsgtoRegisteredClients(i, c)
    PROVE  \E f \in Fates :
             /\ Settle(i, f) /\ f.c = c /\ f.code = 0
             /\ IF c.dst.svc \in registered THEN f.what \in {"sent", "lost"} /\ f.to = c.dst.svc
                ELSE f.what = "dropped"
<1>1. PICK what \in {"sent", "lost"} :
        Settle(i, IF c.dst.svc \in registered THEN Fate(what, c.dst.svc, c)
                                              ELSE Fate("dropped", NULL, c))
  BY DEF sendMsgtoRegisteredClients
<1> DEFINE s == Fate(what, c.dst.svc, c)
           d == Fate("dropped", NULL, c)
<1>2. c.dst.svc \in Services
  BY ContentsFields
<1>3. s \in Fates /\ s.what = what /\ s.to = c.dst.svc /\ s.c = c /\ s.code = 0
  BY <1>2, PlainFate
<1>4. d \in Fates /\ d.what = "dropped" /\ d.c = c /\ d.code = 0
  BY PlainFate
<1>5. Settle(i, IF c.dst.svc \in registered THEN s ELSE d)
  BY <1>1
<1> HIDE DEF s, d
<1>6. CASE c.dst.svc \in registered
  BY <1>3, <1>5, <1>6
<1>7. CASE c.dst.svc \notin registered
  BY <1>4, <1>5, <1>7
<1> QED BY <1>6, <1>7

LEMMA CloudRoutedKeeps ==
    ASSUME QInv, ParodusMsgQ # <<>>, NEW it, it = Head(ParodusMsgQ),
           it.c.type \in Requests \cup {"EVENT"}, it.c.type = "REQ" => ~Foreign(it.c),
           CloudRouted(it), ParodusMsgQ' = Tail(ParodusMsgQ),
           UNCHANGED <<hw_mac, UpStreamMsgQ, origin>>
    PROVE  QInv'
<1> DEFINE o == origin[it.id]
           c == it.c
<1>1. /\ it.id \in Ids /\ c \in Contents /\ c \in CloudMsgs
      /\ o \in Origins /\ o # NULL /\ o.from = "cloud" /\ o.c = c
  BY OldestFromCloud
<1>2. c.dst # NULL
  BY <1>1, SendersAssumption
<1>3. CASE /\ c.dst.svc \in registered
           /\ sendMsgtoRegisteredClients(it.id, c) /\ UNCHANGED crudMsgQ
  <2>1. PICK f \in Fates : /\ Settle(it.id, f) /\ f.c = c /\ f.code = 0
                           /\ f.what \in {"sent", "lost"} /\ f.to = c.dst.svc
    BY <1>1, <1>2, <1>3, ToClient
  <2>2. RightFate(o, f)
    BY <1>1, <2>1 DEF RightFate
  <2> QED BY <1>3, <2>1, <2>2, SettleKeeps
<1>4. CASE /\ c.dst.svc = "parodus"
           /\ \E missing \in CrudFieldsMissing(c) :
                IF missing THEN Answer(it, 400)
                ELSE addCRUDmsgToQueue(it.id, c) /\ UNCHANGED fate
  <2>1. PICK missing \in CrudFieldsMissing(c) :
                IF missing THEN Answer(it, 400)
                ELSE addCRUDmsgToQueue(it.id, c) /\ UNCHANGED fate
    BY <1>4, Zenon
  <2>2. CASE Answer(it, 400)
    BY <2>2, AnswerKeeps
  <2>3. CASE ~missing /\ addCRUDmsgToQueue(it.id, c) /\ UNCHANGED fate
    <3> DEFINE m == Item(it.id, c, "malloc")
    <3>1. m \in Items /\ m.id = it.id /\ m.c = c
      BY <1>1, ItemFields
    <3>2. crudMsgQ' = Append(crudMsgQ, m)
      BY <2>3 DEF addCRUDmsgToQueue
    <3>3. c.type \in CrudLayout => c.src # NULL /\ c.uuid = TRUE
      <4>1. c.uuid \in BOOLEAN
        BY <1>1, ContentsFields
      <4> QED BY <2>3, <4>1 DEF CrudFieldsMissing
    <3> HIDE DEF m
    <3>4. CrudOrigin(o)
      BY <1>1, <1>2, <1>4, <3>3 DEF CrudOrigin
    <3>5. MovedTo(ParodusMsgQ, m)
      BY <1>1, <3>1, <3>2, <3>4 DEF MovedTo, ForCrud
    <3> QED BY <2>3, <3>1, <3>5, MoveKeeps
  <2> QED BY <2>1, <2>2, <2>3
<1>5. CASE Answer(it, 531)
  BY <1>5, AnswerKeeps
<1> QED BY <1>3, <1>4, <1>5 DEF CloudRouted

LEMMA ListenerKeeps ==
    ASSUME RInv, listenerOnMessage
    PROVE  RInv'
<1> DEFINE it == Head(ParodusMsgQ)
           c == it.c
           check == validate_partner_id(c)
           routed == c.type \in Requests \cup {"EVENT"}
<1>1. QInv /\ Others /\ ~crashed /\ ParodusMsgQ # <<>>
  BY DEF RInv, listenerOnMessage
<1>2. c \in Contents /\ it.id \in Ids /\ origin[it.id].from = "cloud" /\ origin[it.id].c = c
  BY <1>1, OldestFromCloud
<1>3. /\ check.ret \in {-1, 0, 1}
      /\ check.ret = -1 <=> c.type = "REQ" /\ Foreign(c)
      /\ check.list # NULL => /\ c.type = "EVENT" /\ DevicePartners # {}
                              /\ c.partners = NULL \/ Foreign(c)
  BY <1>2, PartnersChecked
<1>4. CASE routed /\ check.list # NULL /\ Crash
  <2>1. HeadIs(ParodusMsgQ, LAMBDA x : /\ x.c.type = "EVENT" /\ DevicePartners # {}
                                       /\ x.c.partners = NULL \/ Foreign(x.c))
    BY <1>1, <1>3, <1>4 DEF HeadIs
  <2> QED BY <1>1, <1>4, <2>1, CrashKeeps
<1>6. CASE routed /\ MistakenForCrud(c) /\ Crash
  <2>1. c.type \in {"REQ", "EVENT"} /\ c.dst.svc = "parodus"
    BY <1>6 DEF MistakenForCrud, CrudLayout, Requests
  <2>2. CrudMistaken
    BY <1>1, <2>1 DEF CrudMistaken, HeadIs
  <2> QED BY <1>1, <1>6, <2>2, CrashKeeps
<1>5. CASE /\ ParodusMsgQ' = Tail(ParodusMsgQ)
           /\ UNCHANGED <<hw_mac, UpStreamMsgQ, registered, msg, open, crashed, origin, released>>
           /\ \/ ~routed /\ Settle(it.id, Fate("ignored", NULL, c)) /\ UNCHANGED crudMsgQ
              \/ routed /\ check.ret < 0 /\ Answer(it, 403)
              \/ routed /\ check.ret >= 0 /\ CloudRouted(it)
  <2>1. Others'
    BY <1>1, <1>5, OthersKept
  <2>2. CASE ~routed /\ Settle(it.id, Fate("ignored", NULL, c)) /\ UNCHANGED crudMsgQ
    <3> DEFINE f == Fate("ignored", NULL, c)
    <3>1. f \in Fates
      BY <1>2, PlainFate
    <3> HIDE DEF f
    <3>2. RightFate(origin[it.id], f)
      BY <1>2, <2>2 DEF RightFate, Requests
    <3>3. Settle(it.id, f)
      BY <2>2 DEF f
    <3>4. QInv'
      BY <1>1, <1>5, <2>2, <3>1, <3>2, <3>3, SettleKeeps
    <3> QED BY <2>1, <3>4 DEF RInv
  <2>3. CASE routed /\ check.ret < 0 /\ Answer(it, 403)
    <3>1. c.type = "REQ" /\ Foreign(c)
      BY <1>3, <2>3
    <3>2. QInv'
      BY <1>1, <1>5, <2>3, <3>1, AnswerKeeps
    <3> QED BY <2>1, <3>2 DEF RInv
  <2>4. CASE routed /\ check.ret >= 0 /\ CloudRouted(it)
    <3>1. c.type = "REQ" => ~Foreign(c)
      BY <1>3, <2>4
    <3>2. QInv'
      BY <1>1, <1>5, <2>4, <3>1, CloudRoutedKeeps
    <3> QED BY <2>1, <3>2 DEF RInv
  <2> QED BY <1>5, <2>2, <2>3, <2>4
<1> QED BY <1>4, <1>5, <1>6 DEF listenerOnMessage

-----------------------------------------------------------------------------
(* The CRUD thread, local clients and replies.                              *)

LEMMA CrudKeeps ==
    ASSUME RInv, CRUDHandlerTask
    PROVE  RInv'
<1> DEFINE it == Head(crudMsgQ)
           o == origin[it.id]
<1>1. QInv /\ Others /\ ~crashed /\ crudMsgQ # <<>>
  BY DEF RInv, CRUDHandlerTask
<1>2. /\ it.id \in Ids /\ it.c \in Contents /\ CrudOrigin(o) /\ o.c = it.c
      /\ it.c.type \in CrudLayout => it.c.src # NULL /\ it.c.uuid = TRUE
  BY <1>1, OldestForCrud
<1>3. CASE it.c.type \notin CrudLayout /\ Crash
  <2>1. it.c.type \in {"REQ", "EVENT"}
    BY <1>2, <1>3 DEF CrudOrigin, CrudLayout, Requests
  <2>2. CrudMistaken
    BY <1>1, <2>1 DEF CrudMistaken, HeadIs
  <2> QED BY <1>3, <2>2, CrashKeeps
<1>4. ASSUME NEW x \in CrudReplies(it.c),
             crudMsgQ' = Tail(crudMsgQ),
             UpStreamMsgQ' = Append(UpStreamMsgQ, Item(it.id, x, "malloc")),
             UNCHANGED <<hw_mac, ParodusMsgQ, registered, msg, open, crashed, origin, fate,
                         released>>
      PROVE  RInv'
  <2> DEFINE m == Item(it.id, x, "malloc")
  <2>1. x \in Contents
    BY <1>2, RepliesOfCrud
  <2>2. m \in Items /\ m.id = it.id /\ m.c = x /\ m.buf = "malloc"
    BY <1>2, <2>1, ItemFields
  <2>3. UpStreamMsgQ' = Append(UpStreamMsgQ, m)
    BY <1>4
  <2> HIDE DEF m
  <2>4. MovedTo(crudMsgQ, m)
    BY <1>2, <1>4, <2>2, <2>3 DEF MovedTo, Upstream
  <2>5. QInv'
    BY <1>1, <1>4, <2>2, <2>4, MoveKeeps
  <2>6. Others'
    BY <1>1, <1>4, OthersKept
  <2> QED BY <2>5, <2>6 DEF RInv
<1> QED BY <1>2, <1>3, <1>4 DEF CRUDHandlerTask

\* The event that leaves is the one that came in but for its partner ids.
LEMMA EventSent ==
    ASSUME NEW it \in Items, Event(it)
    PROVE  LET check == validate_partner_id(it.c) IN
           \E f \in Fates :
             /\ Settle(it.id, f) /\ f.what \in {"sent", "lost"}
             /\ check.ret = 1 => f.c.partners = check.list
             /\ UNCHANGED <<registered, crudMsgQ>>
<1> DEFINE c == it.c
           check == validate_partner_id(c)
           r == Readdressed(c, c.src, c.dst, check.list)
           m == IF check.ret = 1 THEN r ELSE c
<1>1. c \in Contents
  BY ItemFields
<1>2. check.list \in Lists
  BY <1>1, PartnersChecked
<1>3. [c EXCEPT !.partners = check.list] = r
  BY <1>1 DEF Readdressed, Contents
<1>4. Settle(it.id, ServerFate(m)) /\ UNCHANGED <<registered, crudMsgQ>>
  BY <1>3 DEF Event, sendUpstreamMsgToServer
<1>5. c.src \in Addrs \cup {NULL} /\ c.dst \in Addrs \cup {NULL}
  BY <1>1, ContentsFields
<1>6. r \in Contents /\ r.partners = check.list
  <2>1. \A p \in Lists : LET n == Readdressed(c, c.src, c.dst, p) IN
                         n \in Contents /\ n.partners = p
    BY <1>1, <1>5, ContentsMade
  <2> QED BY <1>2, <2>1
<1> HIDE DEF r
<1>7. m \in Contents /\ (check.ret = 1 => m.partners = check.list)
  BY <1>1, <1>6
<1> HIDE DEF m, check
<1>8. 400 \in {400, 403, 531}
  OBVIOUS
<1>9. /\ ServerFate(m) \in Fates /\ ServerFate(m).what \in {"sent", "lost"}
      /\ ServerFate(m).c = m
  BY <1>7, <1>8, ServerFateFields
<1> QED BY <1>4, <1>7, <1>9 DEF check

LEMMA EventSettles ==
    ASSUME QInv, NEW it \in Items, Event(it)
    PROVE  fate'[it.id] # <<>>
<1>1. PICK f \in Fates : Settle(it.id, f)
  BY EventSent
<1>2. it.id \in Ids /\ fate \in [Ids -> Seq(Fates)]
  BY ItemFields DEF QInv, QueueTypes
<1>3. fate'[it.id] = Append(fate[it.id], f) /\ fate[it.id] \in Seq(Fates)
  BY <1>1, <1>2 DEF Settle
<1> QED BY <1>3

LEMMA ToServer ==
    ASSUME NEW c \in Contents, NEW i, sendUpstreamMsgToServer(i, c)
    PROVE  \E f \in Fates : /\ Settle(i, f) /\ f.what \in {"sent", "lost"}
                            /\ f.to = "server" /\ f.c = c /\ f.code = 0
<1>1. 400 \in {400, 403, 531}
  OBVIOUS
<1> QED BY <1>1, ServerFateFields DEF sendUpstreamMsgToServer

LEMMA Given ==
    ASSUME NEW c \in Contents, NEW i, NEW what \in {"dropped", "done"},
           Settle(i, Fate(what, NULL, c))
    PROVE  \E f \in Fates : Settle(i, f) /\ f.what = what /\ f.c = c /\ f.code = 0
BY PlainFate

\* What a client sent.
LEMMA ClientRouted ==
    ASSUME QInv, registered \subseteq Services, UpStreamMsgQ # <<>>,
           NEW it, it = Head(UpStreamMsgQ), it.buf = "nn",
           origin[it.id].from = "client", origin[it.id].c = it.c,
           Route(it), UpStreamMsgQ' = Tail(UpStreamMsgQ),
           UNCHANGED <<hw_mac, ParodusMsgQ, origin>>
    PROVE  QInv' /\ registered' \subseteq Services
<1> DEFINE o == origin[it.id]
           c == it.c
<1>1. it \in Items /\ it.id \in Ids /\ c \in Contents /\ o \in Origins /\ o # NULL
  BY OldestUpstream
<1>2. o.from = "client" /\ o.c = c /\ c \in ClientMsgs
  BY <1>1, OriginFields
<1>3. c.type \in {"REG", "RETRIEVE", "UPDATE", "DELETE"} => c.dst # NULL
  BY <1>2, SendersAssumption
<1>4. ASSUME NEW f \in Fates, Settle(it.id, f), RightFate(o, f), UNCHANGED crudMsgQ
      PROVE  QInv'
  BY <1>4, SettleKeeps
<1>5. ASSUME NEW f \in Fates, c.type \notin {"RETRIEVE", "EVENT"} PROVE RightFate(o, f)
  BY <1>2, <1>5 DEF RightFate
<1> HIDE DEF o
<1>6. CASE c.type = "REG" /\ Registration(it)
  <2>1. /\ registered' = registered \cup {c.dst.svc} /\ UNCHANGED crudMsgQ
        /\ Settle(it.id, Fate("done", NULL, c))
    BY <1>6 DEF Registration
  <2>2. c.dst.svc \in Services
    BY <1>1, <1>3, <1>6, ContentsFields
  <2>3. QInv'
    BY <1>1, <1>4, <1>5, <1>6, <2>1, Given
  <2> QED BY <2>1, <2>2, <2>3
<1>7. CASE c.type = "EVENT" /\ Event(it)
  <2> DEFINE check == validate_partner_id(c)
  <2>1. PICK f \in Fates :
             /\ Settle(it.id, f) /\ f.what \in {"sent", "lost"}
             /\ check.ret = 1 => f.c.partners = check.list
             /\ UNCHANGED <<registered, crudMsgQ>>
    BY <1>1, <1>7, EventSent
  <2>2. /\ check.ret \in {-1, 0, 1} /\ check.ret # -1
        /\ check.ret = 0 <=> DevicePartners = {}
        /\ DevicePartners # {} =>
                IF c.partners # NULL /\ ~Foreign(c) THEN check.list = NULL
                ELSE /\ check.list # NULL /\ DevicePartners \subseteq check.list
                     /\ c.partners # NULL => c.partners \subseteq check.list
    BY <1>1, <1>7, PartnersChecked
  <2> HIDE DEF check
  <2>3. RightFate(o, f)
    BY <1>2, <1>7, <2>1, <2>2 DEF RightFate
  <2> QED BY <1>4, <2>1, <2>3
<1>8. CASE c.type = "RETRIEVE" /\ hw_mac /\ Retrieve(it)
  <2>1. registered' = registered
    BY <1>8 DEF Retrieve
  <2>2. CASE ForThisDevice(c) /\ c.dst.svc \in ParodusLike
    <3> DEFINE m == Item(it.id, c, "malloc")
    <3>1. m \in Items /\ m.id = it.id /\ m.c = c
      BY <1>1, ItemFields
    <3>2. crudMsgQ' = Append(crudMsgQ, m) /\ UNCHANGED fate
      BY <1>8, <2>2 DEF Retrieve, addCRUDmsgToQueue
    <3>3. c.src # NULL /\ c.uuid = TRUE /\ c.dst.dev = "this"
      <4>1. c.src # NULL /\ c.uuid
        BY <1>2, <1>8, SendersAssumption
      <4>2. c.uuid \in BOOLEAN
        BY <1>1, ContentsFields
      <4>3. c.dst.dev = "this"
        BY <2>2 DEF ForThisDevice
      <4> QED BY <4>1, <4>2, <4>3
    <3> HIDE DEF m
    <3>4. CrudOrigin(o)
      BY <1>1, <1>2, <1>3, <1>8, <2>2, <3>3 DEF CrudOrigin
    <3>5. MovedTo(UpStreamMsgQ, m)
      BY <1>2, <3>1, <3>2, <3>4 DEF MovedTo, ForCrud, o
    <3>6. QInv'
      BY <3>1, <3>2, <3>5, MoveKeeps
    <3> QED BY <2>1, <3>6
  <2>3. CASE ~(ForThisDevice(c) /\ c.dst.svc \in ParodusLike)
    <3>1. /\ UNCHANGED crudMsgQ
          /\ \/ sendMsgtoRegisteredClients(it.id, c)
             \/ sendUpstreamMsgToServer(it.id, c)
      BY <1>8, <2>3 DEF Retrieve
    <3>2. PICK f \in Fates : Settle(it.id, f)
      BY <1>1, <1>3, <1>8, <3>1, ToClient, ToServer
    <3>3. c.dst # [dev |-> "this", svc |-> "parodus"]
      BY <2>3, RoutingAssumption DEF ForThisDevice
    <3>4. RightFate(o, f)
      BY <1>2, <1>8, <3>3 DEF RightFate
    <3> QED BY <1>4, <2>1, <3>1, <3>2, <3>4
  <2> QED BY <2>2, <2>3
<1>9. CASE c.type \in {"UPDATE", "DELETE"} /\ UpdateOrDelete(it)
  <2>1. /\ UNCHANGED <<registered, crudMsgQ>>
        /\ \/ sendMsgtoRegisteredClients(it.id, c)
           \/ sendUpstreamMsgToServer(it.id, c)
    BY <1>9 DEF UpdateOrDelete
  <2>2. PICK f \in Fates : Settle(it.id, f)
    BY <1>1, <1>3, <1>9, <2>1, ToClient, ToServer
  <2> QED BY <1>4, <1>5, <1>9, <2>1, <2>2
<1>10. CASE Dropped(it) /\ c.type # "EVENT"
  <2>1. UNCHANGED <<registered, crudMsgQ>> /\ Settle(it.id, Fate("dropped", NULL, c))
    BY <1>10 DEF Dropped
  <2>2. PICK f \in Fates : Settle(it.id, f) /\ f.what = "dropped"
    BY <1>1, <2>1, Given
  <2>3. RightFate(o, f)
    BY <1>2, <1>10, <2>2 DEF RightFate
  <2> QED BY <1>4, <2>1, <2>2, <2>3
<1>11. CASE /\ c.type \in {"REQ", "CREATE", "AUTH"} /\ sendUpstreamMsgToServer(it.id, c)
            /\ UNCHANGED <<registered, crudMsgQ>>
  <2>1. PICK f \in Fates : Settle(it.id, f)
    BY <1>1, <1>11, ToServer
  <2> QED BY <1>4, <1>5, <1>11, <2>1
<1> QED BY <1>6, <1>7, <1>8, <1>9, <1>10, <1>11 DEF Route

\* A reply of the CRUD thread.
LEMMA ReplyRouted ==
    ASSUME QInv, registered \subseteq Services, UpStreamMsgQ # <<>>,
           NEW it, it = Head(UpStreamMsgQ), CrudOrigin(origin[it.id]),
           it.c \in CrudReplies(origin[it.id].c),
           Route(it), UpStreamMsgQ' = Tail(UpStreamMsgQ),
           UNCHANGED <<hw_mac, ParodusMsgQ, origin>>
    PROVE  QInv' /\ registered' \subseteq Services
<1> DEFINE o == origin[it.id]
           c == it.c
<1>1. it \in Items /\ it.id \in Ids /\ c \in Contents /\ o \in Origins /\ o # NULL
  BY OldestUpstream
<1>2. /\ o.c \in Contents
      /\ o.from = "cloud" => o.c \in CloudMsgs
      /\ o.from = "client" => o.c \in ClientMsgs
  BY <1>1, OriginFields
<1>3. /\ c.type = o.c.type
      /\ c.type \in CrudLayout => c.src = o.c.dst /\ c.dst = o.c.src
  BY <1>2, RepliesOfCrud, Replies
<1>4. /\ o.c.type \in CrudLayout => o.c.src # NULL
      /\ \/ /\ o.from = "cloud" /\ o.c.type \in Requests \cup {"EVENT"}
            /\ o.c.dst.svc = "parodus" /\ (o.c.type = "REQ" => ~Foreign(o.c))
         \/ o.from = "client" /\ o.c.type = "RETRIEVE" /\ hw_mac
  BY DEF CrudOrigin
<1>5. ASSUME NEW f \in Fates, Settle(it.id, f), RightFate(o, f), UNCHANGED crudMsgQ
      PROVE  QInv'
  BY <1>5, SettleKeeps
<1> HIDE DEF o
<1>6. CASE o.from = "cloud"
  <2>1. c.type \in CrudLayout => o.c.src.dev = "other"
    BY <1>2, <1>3, <1>4, <1>6, SendersAssumption
  <2>2. c.type \in CrudLayout => ~ForThisDevice(c)
    BY <1>3, <2>1 DEF ForThisDevice
  <2>3. /\ c.type \in Requests \cup {"EVENT"} /\ (c.type = "REQ" => ~Foreign(o.c))
    BY <1>3, <1>4, <1>6
  <2>4. CASE c.type = "EVENT" /\ Event(it)
    <3>1. UNCHANGED <<registered, crudMsgQ>> /\ \E f \in Fates : Settle(it.id, f)
      BY <1>1, <2>4, EventSent
    <3>2. ASSUME NEW f \in Fates PROVE RightFate(o, f)
      BY <1>3, <1>6, <2>4 DEF RightFate, Requests
    <3> QED BY <1>5, <3>1, <3>2
  <2>5. CASE /\ sendUpstreamMsgToServer(it.id, c) /\ UNCHANGED <<registered, crudMsgQ>>
             /\ c.type \in Requests
    <3>1. PICK f \in Fates : /\ Settle(it.id, f) /\ f.what \in {"sent", "lost"}
                             /\ f.to = "server" /\ f.c = c /\ f.code = 0
      BY <1>1, <2>5, ToServer
    <3>2. RightFate(o, f)
      BY <1>3, <1>4, <1>6, <2>3, <2>5, <3>1 DEF RightFate, CrudLayout, Requests
    <3> QED BY <1>5, <2>5, <3>1, <3>2
  <2>6. CASE ~hw_mac /\ Dropped(it) /\ c.type # "REQ"
    <3>1. UNCHANGED <<registered, crudMsgQ>> /\ Settle(it.id, Fate("dropped", NULL, c))
      BY <2>6 DEF Dropped
    <3>2. PICK f \in Fates : Settle(it.id, f) /\ f.what = "dropped"
      BY <1>1, <3>1, Given
    <3>3. RightFate(o, f)
      BY <1>3, <1>6, <2>6, <3>2 DEF RightFate
    <3> QED BY <1>5, <3>1, <3>2, <3>3
  <2> QED BY <2>2, <2>3, <2>4, <2>5, <2>6
          DEF Route, Retrieve, UpdateOrDelete, Requests, CrudLayout
<1>7. CASE o.from = "client"
  <2>1. c.type = "RETRIEVE" /\ hw_mac
    BY <1>3, <1>4, <1>7
  <2>2. /\ c.dst # NULL /\ c.dst = o.c.src /\ c.dst.dev = "this"
        /\ c.dst.svc \notin ParodusLike
    BY <1>2, <1>3, <1>4, <1>7, <2>1, SendersAssumption DEF CrudLayout
  <2>3. Retrieve(it)
    BY <2>1 DEF Route
  <2>4. sendMsgtoRegisteredClients(it.id, c) /\ UNCHANGED <<registered, crudMsgQ>>
    BY <2>2, <2>3 DEF Retrieve, ForThisDevice
  <2>5. PICK f \in Fates : /\ Settle(it.id, f)
                           /\ \/ f.what = "dropped"
                              \/ f.what \in {"sent", "lost"} /\ f.to = c.dst.svc
    BY <1>1, <2>2, <2>4, ToClient
  <2>6. RightFate(o, f)
    BY <1>3, <1>7, <2>1, <2>2, <2>5 DEF RightFate
  <2> QED BY <1>5, <2>4, <2>5, <2>6
<1> QED BY <1>4, <1>6, <1>7

Release == [made : {"nn", "malloc"}, by : {"nn", "malloc"},
            type : Types, src : Services \cup {NULL}]

\* A buffer is released by the library that made it, but for the replies that
\* ReleasedByItsMaker excepts.
LEMMA ReleasedRight ==
    ASSUME QInv, UpStreamMsgQ # <<>>, NEW by \in ReleasedBy(Head(UpStreamMsgQ).c)
    PROVE  LET it == Head(UpStreamMsgQ)
               r == [made |-> it.buf, by |-> by, type |-> it.c.type, src |-> Source(it.c)]
           IN /\ r \in Release
              /\ \/ r.made = r.by
                 \/ r.src \in ParodusLike \ {"parodus"}
                 \/ r.made = "malloc" /\ r.type \notin CrudLayout
<1> DEFINE it == Head(UpStreamMsgQ)
           o == origin[it.id]
           c == it.c
<1>1. /\ it \in Items /\ c \in Contents /\ o \in Origins
      /\ \/ it.buf = "nn" /\ o.from = "client" /\ o.c = c
         \/ it.buf = "malloc" /\ CrudOrigin(o) /\ c \in CrudReplies(o.c)
  BY OldestUpstream
<1>2. by \in ReleasedBy(c)
  OBVIOUS
<1> HIDE DEF it, o
<1>3. it.buf \in {"nn", "malloc"} /\ by \in {"nn", "malloc"}
  <2>1. it.buf \in {"nn", "malloc"}
    BY <1>1, ItemFields
  <2>2. by \in {"nn", "malloc"}
    BY <1>2, Zenon DEF ReleasedBy
  <2> QED BY <2>1, <2>2
<1>4. Source(c) \in Services \cup {NULL} /\ c.type \in Types
  BY <1>1, ContentsFields DEF Source
<1>5. \/ it.buf = by
      \/ Source(c) \in ParodusLike \ {"parodus"}
      \/ it.buf = "malloc" /\ c.type \notin CrudLayout
  <2>1. CASE it.buf = "nn" /\ o.from = "client" /\ o.c = c
    <3>1. c.src # NULL => c.src.svc # "parodus"
      BY <1>1, <2>1, OriginFields, SendersAssumption, RoutingAssumption
    <3>2. c.type \in {"REQ", "EVENT"} /\ c.dst # NULL => c.dst.svc # "parodus"
      BY <1>1, <2>1, OriginFields, SendersAssumption
    <3>3. by = "nn"
      BY <1>2, <3>1, <3>2 DEF ReleasedBy
    <3> QED BY <2>1, <3>3
  <2>2. CASE it.buf = "malloc" /\ CrudOrigin(o) /\ c \in CrudReplies(o.c) /\ c.type \in CrudLayout
    <3>1. c.type = o.c.type /\ c.src = o.c.dst
      BY <1>1, <2>2, OriginFields, RepliesOfCrud, Replies
    <3>2. o.c.dst # NULL /\ o.c.dst.svc \in ParodusLike
      BY <2>2, RoutingAssumption DEF CrudOrigin
    <3>3. CASE c.src.svc = "parodus"
      <4>1. by = "malloc"
        BY <1>2, <2>2, <3>1, <3>2, <3>3 DEF ReleasedBy
      <4> QED BY <2>2, <4>1
    <3>4. CASE c.src.svc # "parodus"
      BY <3>1, <3>2, <3>4 DEF Source
    <3> QED BY <3>3, <3>4
  <2>3. CASE it.buf = "malloc" /\ c.type \notin CrudLayout
    BY <2>3
  <2> QED BY <1>1, <2>1, <2>2, <2>3
<1> QED BY <1>3, <1>4, <1>5 DEF it, Release

LEMMA UpstreamKeeps ==
    ASSUME RInv, processUpstreamMessage
    PROVE  RInv'
<1> DEFINE it == Head(UpStreamMsgQ)
           c == it.c
           o == origin[it.id]
           r(by) == [made |-> it.buf, by |-> by, type |-> c.type, src |-> Source(c)]
<1>1. QInv /\ Others /\ ~crashed /\ UpStreamMsgQ # <<>>
  BY DEF RInv, processUpstreamMessage
<1>2. /\ it.id \in Ids /\ c \in Contents /\ o \in Origins /\ o # NULL
      /\ \/ it.buf = "nn" /\ o.from = "client" /\ o.c = c
         \/ it.buf = "malloc" /\ CrudOrigin(o) /\ c \in CrudReplies(o.c)
  BY <1>1, OldestUpstream
<1>3. CASE c.type = "BAD" /\ msg = "wild" /\ Crash
  <2>1. HeadIs(UpStreamMsgQ, LAMBDA x : x.c.type = "BAD")
    BY <1>1, <1>3 DEF HeadIs
  <2> QED BY <1>3, <2>1, CrashKeeps
<1>4. CASE it.buf = "malloc" /\ c.type \notin CrudLayout /\ Crash
  <2>1. CrudOrigin(o) /\ c \in CrudReplies(o.c) /\ o.c \in Contents
    BY <1>2, <1>4, OriginFields
  <2>2. c.type \in {"REQ", "EVENT"}
    BY <1>4, <2>1, RepliesOfCrud DEF CrudOrigin, CrudLayout, Requests
  <2>3. CrudMistaken
    BY <1>1, <1>4, <2>2 DEF CrudMistaken, HeadIs
  <2> QED BY <1>4, <2>3, CrashKeeps
<1>5. ASSUME NEW by \in ReleasedBy(c), UpStreamMsgQ' = Tail(UpStreamMsgQ), Route(it),
             released' = released \cup {r(by)}, msg' = "null",
             crashed' \in {FALSE, SharesStrings(c)},
             UNCHANGED <<hw_mac, ParodusMsgQ, open, origin>>
      PROVE  RInv'
  <2>1. QInv' /\ registered' \subseteq Services
    <3>1. registered \subseteq Services
      BY <1>1 DEF Others
    <3>2. CASE it.buf = "nn" /\ o.from = "client" /\ o.c = c
      BY <1>1, <1>5, <3>1, <3>2, ClientRouted
    <3>3. CASE CrudOrigin(o) /\ c \in CrudReplies(o.c)
      BY <1>1, <1>5, <3>1, <3>3, ReplyRouted
    <3> QED BY <1>2, <3>2, <3>3
  <2>2. /\ r(by) \in Release
        /\ \/ r(by).made = r(by).by
           \/ r(by).src \in ParodusLike \ {"parodus"}
           \/ r(by).made = "malloc" /\ r(by).type \notin CrudLayout
    BY <1>1, ReleasedRight
  <2>3. PICK x : x = r(by)
    OBVIOUS
  <2>4. released' = released \cup {x}
    BY <1>5, <2>3
  <2>5. /\ x \in Release
        /\ \/ x.made = x.by
           \/ x.src \in ParodusLike \ {"parodus"}
           \/ x.made = "malloc" /\ x.type \notin CrudLayout
    BY <2>2, <2>3
  <2> HIDE DEF r
  <2>6. released' \subseteq Release
    BY <1>1, <2>4, <2>5 DEF Others, Release
  <2>7. ReleasedByItsMaker'
    BY <1>1, <2>4, <2>5 DEF Others, OnlyKnownMisuse, ReleasedByItsMaker
  <2>8. crashed' \in BOOLEAN /\ OnlyKnownCrashes'
    <3>1. CASE ~SharesStrings(c)
      <4>1. crashed' = FALSE
        BY <1>5, <3>1 DEF SharesStrings
      <4> QED BY <4>1 DEF OnlyKnownCrashes
    <3>2. CASE SharesStrings(c)
      <4>1. crashed' \in BOOLEAN
        BY <1>5 DEF SharesStrings
      <4>2. /\ c.type = "EVENT" /\ DevicePartners # {} /\ c.partners # NULL
            /\ c.partners # {} /\ ~PartnerMatch(c.partners)
        BY <3>2 DEF SharesStrings
      <4>3. Foreign(c)
        BY <4>2, ForeignIsNoMatch
      <4>4. o.from = "client" /\ o.c = c
        BY <1>2, <4>2, RepliesOfCrud, OriginFields
      <4>5. it \in Items /\ Event(it)
        <5>1. it \in Items
          BY <1>1, OldestUpstream
        <5> QED BY <1>5, <4>2, <5>1 DEF Route
      <4>6. PICK i : i = it.id
        OBVIOUS
      <4>7. fate'[i] # <<>>
        BY <1>1, <4>5, <4>6, EventSettles
      <4>8. i \in Ids /\ origin'[i] = o /\ origin'[i] # NULL
        BY <1>2, <1>5, <4>6
      <4>9. /\ ~Fresh(i)' /\ origin'[i].from = "client"
            /\ origin'[i].c.type = "EVENT" /\ Foreign(origin'[i].c)
            /\ origin'[i].c.partners # {}
        BY <4>2, <4>3, <4>4, <4>8 DEF Fresh
      <4>10. \E j \in Ids : /\ ~Fresh(j)' /\ origin'[j].from = "client" /\ fate'[j] # <<>>
                           /\ origin'[j].c.type = "EVENT" /\ Foreign(origin'[j].c)
                           /\ origin'[j].c.partners # {}
        BY <4>7, <4>8, <4>9
      <4> QED BY <4>1, <4>10 DEF OnlyKnownCrashes, Foreign, Fresh
    <3> QED BY <3>1, <3>2
  <2>9. Others'
    BY <1>1, <1>5, <2>1, <2>6, <2>7, <2>8 DEF Others, OnlyKnownMisuse, Release
  <2> QED BY <2>1, <2>9 DEF RInv
<1> QED BY <1>3, <1>4, <1>5 DEF processUpstreamMessage

LEMMA NextKeeps ==
    ASSUME RInv, [Next]_vars
    PROVE  RInv'
<1>1. CASE Receive
  BY <1>1, ReceiveKeeps
<1>2. CASE listenerOnMessage
  BY <1>2, ListenerKeeps
<1>3. CASE CRUDHandlerTask
  BY <1>3, CrudKeeps
<1>4. CASE processUpstreamMessage
  BY <1>4, UpstreamKeeps
<1>5. ASSUME NEW s \in Services, Reconnect \/ ClientGone(s) PROVE RInv'
  <2>1. /\ UNCHANGED <<ParodusMsgQ, crudMsgQ, UpStreamMsgQ, hw_mac, origin, fate, msg,
                       crashed, released>> /\ ~crashed
    BY <1>5 DEF Reconnect, ClientGone, queues
  <2>2. open' \in BOOLEAN /\ registered' \subseteq Services
    BY <1>5 DEF RInv, Others, Reconnect, ClientGone
  <2>3. QInv'
    BY <2>1, QueuesUntouched DEF RInv
  <2>4. OnlyKnownMisuse'
    BY <2>1 DEF RInv, Others, OnlyKnownMisuse, ReleasedByItsMaker, OnlyKnownCrashes
  <2>5. Others'
    BY <2>1, <2>2, <2>4 DEF RInv, Others
  <2> QED BY <2>3, <2>5 DEF RInv
<1>6. CASE UNCHANGED vars
  <2>1. UNCHANGED <<ParodusMsgQ, crudMsgQ, UpStreamMsgQ, hw_mac, origin, fate, msg, open,
                    registered, crashed, released>>
    BY <1>6 DEF vars, queues
  <2>2. QInv'
    BY <2>1, QueuesUntouched DEF RInv
  <2>3. OnlyKnownMisuse'
    BY <2>1 DEF RInv, Others, OnlyKnownMisuse, ReleasedByItsMaker, OnlyKnownCrashes, HeadIs,
                CrudMistaken, Foreign, Fresh
  <2>4. Others'
    BY <2>1, <2>3 DEF RInv, Others
  <2> QED BY <2>2, <2>4 DEF RInv
<1>7. "parodus" \in Services
  BY RoutingAssumption
<1> QED BY <1>1, <1>2, <1>3, <1>4, <1>5, <1>6, <1>7 DEF Next

LEMMA InitHolds ==
    ASSUME Init
    PROVE  RInv
<1>1. QueueTypes
  BY DEF Init, QueueTypes
<1>2. Counts
  <2>1. <<>> \in Seq(Items) /\ Len(<<>>) = 0 /\ \A k \in 1..Len(<<>>) : FALSE
    OBVIOUS
  <2>2. ASSUME NEW i \in Ids PROVE Held(<<>>, i) = 0
    BY <2>1, HeldCounts
  <2> QED BY <2>1, <2>2 DEF Init, Counts, Fresh
<1>3. Flow /\ RightFates
  BY DEF Init, Flow, RightFates
<1>4. Others
  BY DEF Init, Others, OnlyKnownMisuse, ReleasedByItsMaker, OnlyKnownCrashes
<1> QED BY <1>1, <1>2, <1>3, <1>4 DEF RInv, QInv

-----------------------------------------------------------------------------
(* The theorems.                                                            *)

\* The queues hold what their origins say, in every reachable state.
THEOREM RoutingInvariant == Spec => []RInv
<1>1. Init => RInv
  BY InitHolds
<1>2. RInv /\ [Next]_vars => RInv'
  BY NextKeeps
<1> QED BY <1>1, <1>2, PTL DEF Spec

\* A message that came in is in exactly one queue, once, or has exactly one fate: none
\* is lost track of or handled twice on its way through the three threads, whoever is
\* registered meanwhile, and in CRUD messages the CRUD thread finds the fields it copies.
THEOREM MessagesAccounted == Spec => []AccountedOnce
<1>1. RInv => AccountedOnce
  <2> SUFFICES ASSUME RInv PROVE AccountedOnce
    OBVIOUS
  <2>1. /\ ParodusMsgQ \in Seq(Items) /\ crudMsgQ \in Seq(Items) /\ UpStreamMsgQ \in Seq(Items)
        /\ fate \in [Ids -> Seq(Fates)]
    BY DEF RInv, QInv, QueueTypes
  <2>2. origin \in [Ids -> {NULL} \cup [from : {"cloud", "client"}, c : Contents]]
    <3>1. Origins \subseteq [from : {"cloud", "client"}, c : Contents]
      BY SendersAssumption DEF Origins
    <3> QED BY <3>1 DEF RInv, QInv, QueueTypes
  <2>3. \A k \in 1..Len(crudMsgQ) :
          crudMsgQ[k].c.type \in CrudLayout => crudMsgQ[k].c.src # NULL /\ crudMsgQ[k].c.uuid
    BY DEF RInv, QInv, Flow, ForCrud, CrudOrigin
  <2>4. TypeOK
    BY <2>1, <2>2, <2>3 DEF RInv, Others, TypeOK
  <2> QED BY <2>4 DEF RInv, QInv, Counts, AccountedOnce
<1> QED BY <1>1, RoutingInvariant, PTL

\* Requests of the cloud are given to nn_send for the client they name or to the
\* connection as an answer, and what a client asks parodus to that client only; what is
\* lost is lost there.
THEOREM RequestsAreServed == Spec => []RequestsServed
<1>1. RInv => RequestsServed
  BY DEF RInv, QInv, RightFates, RightFate, RequestsServed, CloudRequestsAnswered,
         LocalRetrievesStayLocal, CloudRequest, Settled
<1> QED BY <1>1, RoutingInvariant, PTL

\* A request is refused with 403, and gets to neither the CRUD thread nor upstream,
\* exactly if its partner ids are foreign; events leave with the right partner ids.
THEOREM PartnersAreDecisive == Spec => []PartnersDecide
<1>1. RInv => PartnersDecide
  <2> SUFFICES ASSUME RInv PROVE PartnersDecide
    OBVIOUS
  <2>1. ASSUME NEW i \in Ids, CloudRequest(i), origin[i].c.type = "REQ", Foreign(origin[i].c)
        PROVE  Held(crudMsgQ, i) + Held(UpStreamMsgQ, i) = 0
    <3>1. crudMsgQ \in Seq(Items) /\ UpStreamMsgQ \in Seq(Items)
      BY DEF RInv, QInv, QueueTypes
    <3>2. ~CrudOrigin(origin[i]) /\ origin[i].from = "cloud"
      BY <2>1 DEF CrudOrigin, CloudRequest
    <3>3. \A k \in 1..Len(crudMsgQ) : crudMsgQ[k].id # i
      BY <3>2 DEF RInv, QInv, Flow, ForCrud
    <3>4. \A k \in 1..Len(UpStreamMsgQ) : UpStreamMsgQ[k].id # i
      <4>1. ASSUME NEW x, Upstream(origin[i], x) PROVE FALSE
        BY <3>2, <4>1 DEF Upstream
      <4> QED BY <4>1 DEF RInv, QInv, Flow
    <3>5. Held(crudMsgQ, i) = 0 /\ Held(UpStreamMsgQ, i) = 0
      BY <3>1, <3>3, <3>4, HeldCounts
    <3> QED BY <3>5
  <2>2. \A i \in Ids : CloudRequest(i) /\ origin[i].c.type = "REQ" /\ fate[i] # <<>>
                       => (fate[i][1].code = 403 <=> Foreign(origin[i].c))
    BY DEF RInv, QInv, RightFates, RightFate, CloudRequest
  <2>3. RequestPartnersDecide
    BY <2>1, <2>2 DEF RequestPartnersDecide
  <2>4. EventsKeepPartners
    BY DEF RInv, QInv, RightFates, RightFate, EventsKeepPartners, Settled
  <2> QED BY <2>3, <2>4 DEF PartnersDecide
<1> QED BY <1>1, RoutingInvariant, PTL

\* Buffers are released by the library that made them and pointers are valid, but in the
\* five situations that OnlyKnownMisuse names.
THEOREM MisuseIsKnown == Spec => []OnlyKnownMisuse
<1>1. RInv => OnlyKnownMisuse
  BY DEF RInv, Others
<1> QED BY <1>1, RoutingInvariant, PTL

=============================================================================
