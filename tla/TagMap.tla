------------------------------- MODULE TagMap -------------------------------
(***************************************************************************)
(* What the CRUD service of parodus promises about tags: each request is   *)
(* answered once and is atomic.  An accepted CREATE or UPDATE sets one tag *)
(* and keeps the others, an accepted DELETE removes one, nothing else      *)
(* changes the tags.  Only a fault of the file system or a crash, which    *)
(* the field fault of the answer records, may do otherwise: it may lose    *)
(* all the tags, or leave a tag that a DELETE was said to have removed.    *)
(***************************************************************************)
EXTENDS Naturals

CONSTANTS Names, Values

VARIABLES store,   \* the tags: a function from some names to values
          resp     \* the last answer

NoTags == [n \in {} |-> {}]
Set(n, v) == [m \in DOMAIN store \cup {n} |-> IF m = n THEN v ELSE store[m]]
Without(n) == [m \in DOMAIN store \ {n} |-> store[m]]
Only(n) == [m \in {n} |-> store[m]]
Answer(op, n, status, value) ==
    [op |-> op, name |-> n, status |-> status, value |-> value, fault |-> FALSE]

Init == store = NoTags /\ resp.status = 0 /\ ~resp.fault

Create(n, v) ==
    /\ n \notin DOMAIN store
    /\ store' = Set(n, v)
    /\ resp' = Answer("CREATE", n, 201, [m \in {n} |-> v])

Update(n, v) ==
    /\ store' = Set(n, v)
    /\ resp' = Answer("UPDATE", n, IF n \in DOMAIN store THEN 200 ELSE 201, NoTags)

Delete(n) ==
    /\ n \in DOMAIN store
    /\ store' = Without(n)
    /\ resp' = Answer("DELETE", n, 200, NoTags)

Retrieve(n) ==
    /\ n \in DOMAIN store
    /\ resp' = Answer("RETRIEVE", n, 200, Only(n))
    /\ UNCHANGED store

RetrieveAll(n) ==
    /\ resp' = Answer("RETRIEVE", n, 200, store)
    /\ UNCHANGED store

\* A request that is not about tags, or that is refused, does not touch them.
Other ==
    /\ ~resp'.fault
    /\ resp'.status = 200 => resp'.op \in {"MEMORY", "DISCONNECT"}
    /\ resp'.status # 201
    /\ resp'.status = 409 => resp'.op = "CREATE" /\ resp'.name \in DOMAIN store
    /\ UNCHANGED store

Fault ==
    /\ resp'.fault
    /\ \/ store' \in {store, NoTags}
       \/ \E n \in Names, v \in Values : store' = [m \in {n} |-> v]

Next == \/ \E n \in Names, v \in Values : Create(n, v) \/ Update(n, v)
        \/ \E n \in Names : Delete(n) \/ Retrieve(n) \/ RetrieveAll(n)
        \/ Other \/ Fault

Spec == Init /\ [][Next]_<<store, resp>>
=============================================================================
