------------------------------ MODULE TagStore ------------------------------
(***************************************************************************)
(* The CRUD requests of parodus and the JSON file in which it keeps tags.  *)
(*                                                                         *)
(* CRUDHandlerTask serves one request at a time.  A request reads the      *)
(* file, checks destination and payload, changes the parsed tags in memory *)
(* and writes the file back: writeToJSON truncates the file, then writes.  *)
(* A request is one step up to the truncation and a second one after it,   *)
(* so that a crash may fall between them.  A file holds no JSON members    *)
(* but the tags; the order of the tags in it is left out.                  *)
(***************************************************************************)
EXTENDS Integers, Sequences

CONSTANTS
    Names,        \* tag names, the last element of the destination
    Fold,         \* a name as cJSON_GetObjectItem compares it: without case
    Payloads,     \* request payloads
    NoPayload,    \* no payload
    NotJson,      \* a payload that does not parse
    ConfigKeys,   \* in-memory parameters that can be retrieved
    ConfigSet,    \* those that have a value
    Faults        \* fopen, fwrite and printing may fail, the process may crash

ASSUME TagStoreAssumption ==
    /\ "tags" \in Names
    /\ Names \subseteq DOMAIN Fold
    /\ Payloads \ {NoPayload, NotJson} \subseteq Seq([key : STRING, type : STRING, val : Int])
    /\ ConfigSet \subseteq ConfigKeys
    /\ Faults \in BOOLEAN

VARIABLES
    file,      \* the CRUD file
    pc,        \* "idle", or "write": the file has been truncated
    pending,   \* the write under way: tags before, tags to write, answer
    resp       \* the last answer

vars == <<file, pc, pending, resp>>

NoTags    == [n \in {} |-> {}]
Contents(kind, tags) == [kind |-> kind, tags |-> tags]
Absent    == Contents("absent", NoTags)
Empty     == Contents("empty", NoTags)
Garbage   == Contents("garbage", NoTags)   \* text that is not JSON
NoMembers == Contents("object", NoTags)    \* JSON without tags
JsonOf(tags) == Contents("tags", tags)

Answer(op, n, status, value) ==
    [op |-> op, name |-> n, status |-> status, value |-> value, fault |-> FALSE]
NoAnswer == Answer("NONE", "tags", 0, NoTags)
NoWrite  == [old |-> NoTags, new |-> NoTags, resp |-> NoAnswer]
Fault(r) == [r EXCEPT !.fault = TRUE]

Init ==
    /\ file \in {Absent, Empty, Garbage, NoMembers, JsonOf(NoTags)}
    /\ pc = "idle" /\ pending = NoWrite /\ resp = NoAnswer
-----------------------------------------------------------------------------
(* Payloads: a sequence of members [key, type, val].  For a number, val is  *)
(* counted in halves, so that valueint cuts some; for a string it is the    *)
(* length.                                                                  *)

\* The integer part, towards zero.
ValueInt(v) == IF v >= 0 THEN v \div 2 ELSE -((-v) \div 2)

IsExpires(item) == item.key = "expires" /\ item.type = "number"

\* Mutant of HasExpires: the number is checked before it is cut.
HasExpiresUncut(p) ==
    \E i \in 1..Len(p) :
        /\ IsExpires(p[i]) /\ p[i].val # 0
        /\ \A j \in 1..(i - 1) : ~IsExpires(p[j])

\* The first numeric "expires" decides.
HasExpires(p) ==
    \E i \in 1..Len(p) :
        /\ IsExpires(p[i]) /\ ValueInt(p[i].val) # 0
        /\ \A j \in 1..(i - 1) : ~IsExpires(p[j])

\* No empty key, no empty string.
ProperStrings(p) ==
    \A i \in 1..Len(p) : p[i].key # "" /\ (p[i].type = "string" => p[i].val # 0)

ValidPayload(p) ==
    /\ p \notin {NoPayload, NotJson} /\ p # <<>>
    /\ HasExpires(p) /\ ProperStrings(p)

\* Objects, arrays and literals are refused, after the checks of the name.
ValidTypes(p) == \A i \in 1..Len(p) : p[i].type \in {"number", "string"}

\* What is stored: numbers become integers.
Stored(p) ==
    [i \in 1..Len(p) |->
        IF p[i].type = "number" THEN [p[i] EXCEPT !.val = ValueInt(@)] ELSE p[i]]
-----------------------------------------------------------------------------
(* Reading and writing the file.                                            *)

\* What a request sees of the file; if fopen fails, as if there were none.
Seen == {file} \cup (IF Faults THEN {Absent} ELSE {})
Missed(seen) == seen # file

\* Mutant of CaseMatch: the names are compared as they are.
CaseMatchExact(tags, n) == n \in DOMAIN tags

\* cJSON_GetObjectItem finds the name in any case.
CaseMatch(tags, n) == \E m \in DOMAIN tags : Fold[m] = Fold[n]

Single(n, v) == [m \in {n} |-> v]
Put(tags, n, v) == [m \in DOMAIN tags \cup {n} |-> IF m = n THEN v ELSE tags[m]]

Drop(tags, n) == [m \in DOMAIN tags \ {n} |-> tags[m]]

Respond(r) == resp' = r /\ UNCHANGED <<file, pc, pending>>

\* The answer when writeToJSON reports a failure; deleteObject only logs it.
Failed(r) ==
    Fault(IF r.op = "DELETE" THEN r ELSE [r EXCEPT !.status = 500, !.value = NoTags])

\* writeToJSON: fopen "w+" fails, or truncates the file.
BeginWrite(seen, r, new) ==
    LET answer == IF Missed(seen) THEN Fault(r) ELSE r IN
    \/ Faults /\ Respond(Failed(answer))
    \/ /\ file' = Empty /\ pc' = "write"
       /\ pending' = [old |-> file.tags, new |-> new, resp |-> answer]
       /\ UNCHANGED resp

EndWrite(f, r) ==
    /\ pc = "write" /\ pc' = "idle" /\ pending' = NoWrite
    /\ file' = f /\ resp' = r

\* The text is written;
WriteData == EndWrite(JsonOf(pending.new), pending.resp)

\* or there is none, because printing failed;
WriteNull == Faults /\ EndWrite(Empty, Failed(pending.resp))

\* or not all of it gets to the disk, which nobody notices;
WriteShort == Faults /\ \E f \in {Empty, Garbage} : EndWrite(f, Fault(pending.resp))

\* or the process ends here, and is started again.
Crash == Faults /\ \E f \in {Empty, Garbage} : EndWrite(f, Fault(NoAnswer))
-----------------------------------------------------------------------------
(* CREATE                                                                   *)

\* A file that does not parse, then a wrong destination or payload, end the
\* request.
CreateRefused(seen, n, p, isTag) ==
    \/ /\ seen.kind = "garbage"
       /\ Respond(Answer("CREATE", n, 500, NoTags))
    \/ /\ seen.kind # "garbage" /\ ~(isTag /\ ValidPayload(p))
       /\ Respond(Answer("CREATE", n, 400, NoTags))

\* The name is there: 409; there in another case: nothing is written, 500.
CreateExists(seen, n) ==
    /\ seen.kind = "tags" /\ CaseMatch(seen.tags, n)
    /\ Respond(Answer("CREATE", n, IF n \in DOMAIN seen.tags THEN 409 ELSE 500, NoTags))

CreateWrite(seen, n, p) ==
    IF ValidTypes(p)
    THEN BeginWrite(seen, Answer("CREATE", n, 201, Single(n, Stored(p))),
                    Put(seen.tags, n, Stored(p)))
    ELSE Respond(Answer("CREATE", n, 400, NoTags))

\* A new tag beside the others.
CreateAdd(seen, n, p) ==
    /\ seen.kind = "tags" /\ ~CaseMatch(seen.tags, n)
    /\ CreateWrite(seen, n, p)

\* The first tag: an object with nothing but it.
CreateFirst(seen, n, p) ==
    /\ seen.kind \in {"absent", "empty", "object"}
    /\ CreateWrite(seen, n, p)

createObject(n, p, isTag) ==
    /\ pc = "idle"
    /\ \E seen \in Seen :
         \/ CreateRefused(seen, n, p, isTag)
         \/ /\ isTag /\ ValidPayload(p)
            /\ \/ CreateExists(seen, n)
               \/ CreateAdd(seen, n, p)
               \/ CreateFirst(seen, n, p)
-----------------------------------------------------------------------------
(* RETRIEVE                                                                 *)

\* In-memory parameters; the test of webpa-interface-used looks at fw-name.
retrieveFromMemory(key) ==
    LET tested == IF key = "webpa-interface-used" THEN "fw-name" ELSE key
    IN key \in ConfigKeys /\ tested \in ConfigSet

RetrieveMemory(key) ==
    /\ pc = "idle"
    /\ Respond(Answer("MEMORY", "tags", IF retrieveFromMemory(key) THEN 200 ELSE 400, NoTags))

\* service-status/<service>; without a service obj[4] was never set, and what
\* it points to is taken for a name.
getClientStatus(named) ==
    /\ pc = "idle"
    /\ \/ Respond(Answer("MEMORY", "tags", 200, NoTags))
       \/ ~named /\ Respond(Answer("MEMORY", "tags", 400, NoTags))
       \/ ~named /\ Respond(NoAnswer)

\* The name "tags", as parodus/tags or as parodus/tag/tags, asks for all of them.
RetrieveTags(seen, n, isTag) ==
    LET tags == seen.tags
        status == IF seen.kind \in {"absent", "empty", "garbage"} THEN 500
                  ELSE IF tags = NoTags \/ (n # "tags" /\ ~(isTag /\ n \in DOMAIN tags))
                       THEN 400 ELSE 200
    IN Respond(Answer("RETRIEVE", n, status,
                      IF status # 200 THEN NoTags
                      ELSE IF n = "tags" THEN tags ELSE Single(n, tags[n])))

retrieveObject(n, isTag) ==
    /\ pc = "idle"
    /\ \E seen \in Seen : RetrieveTags(seen, n, isTag)
-----------------------------------------------------------------------------
(* UPDATE                                                                   *)

UpdateRefused(seen, n, p, isTag) ==
    \/ /\ seen.kind = "garbage"
       /\ Respond(Answer("UPDATE", n, 500, NoTags))
    \/ /\ seen.kind # "garbage" /\ ~(isTag /\ ValidPayload(p))
       /\ Respond(Answer("UPDATE", n, 400, NoTags))

UpdateWrite(seen, n, p, status) ==
    IF ValidTypes(p)
    THEN BeginWrite(seen, Answer("UPDATE", n, status, NoTags), Put(seen.tags, n, Stored(p)))
    ELSE Respond(Answer("UPDATE", n, 400, NoTags))

\* Mutant of UpdateReplace: the tags found are dropped with the old object.
UpdateReplaceAlone(seen, n, p) ==
    /\ n \in DOMAIN seen.tags /\ ValidTypes(p)
    /\ BeginWrite(seen, Answer("UPDATE", n, 200, NoTags), Single(n, Stored(p)))

\* The old object is deleted and a new one added.
UpdateReplace(seen, n, p) ==
    /\ n \in DOMAIN seen.tags
    /\ UpdateWrite(seen, n, p, 200)

\* The name is there in another case: nothing is written.
UpdateOtherCase(seen, n) ==
    /\ CaseMatch(seen.tags, n) /\ n \notin DOMAIN seen.tags
    /\ Respond(Answer("UPDATE", n, 500, NoTags))

UpdateAdd(seen, n, p) ==
    /\ seen.kind = "tags" /\ ~CaseMatch(seen.tags, n)
    /\ UpdateWrite(seen, n, p, 201)

UpdateFirst(seen, n, p) ==
    /\ seen.kind \in {"absent", "empty", "object"}
    /\ UpdateWrite(seen, n, p, 201)

updateObject(n, p, isTag) ==
    /\ pc = "idle"
    /\ \E seen \in Seen :
         \/ UpdateRefused(seen, n, p, isTag)
         \/ /\ isTag /\ ValidPayload(p)
            /\ \/ UpdateReplace(seen, n, p) \/ UpdateOtherCase(seen, n)
               \/ UpdateAdd(seen, n, p) \/ UpdateFirst(seen, n, p)

\* The disconnection-reason of a cloud-disconnect request.
DisconnectReasons == {"missing", "not a string", "empty", "alphanumeric", "other characters"}

validateDisconnectString(reason) == reason = "alphanumeric"

\* cloud-disconnect: 400 unless the reason is valid; then 200, or 500 if a
\* reconnect is under way.
UpdateCloudDisconnect(reason) ==
    /\ pc = "idle"
    /\ \E seen \in Seen, status \in {200, 400, 500} :
         /\ seen.kind = "garbage" => status = 500
         /\ seen.kind # "garbage" => (validateDisconnectString(reason) <=> status # 400)
         /\ Respond(Answer("DISCONNECT", "tags", status, NoTags))
-----------------------------------------------------------------------------
(* DELETE                                                                   *)

\* The name "tags" is refused, whether or not there is such a tag.
DeleteRefused(seen, n, isTag) ==
    \/ /\ seen.kind \in {"absent", "empty", "garbage"}
       /\ Respond(Answer("DELETE", n, 500, NoTags))
    \/ /\ seen.kind \in {"object", "tags"}
       /\ ~isTag \/ n = "tags" \/ n \notin DOMAIN seen.tags
       /\ Respond(Answer("DELETE", n, 400, NoTags))

DeleteTag(seen, n) ==
    /\ n # "tags" /\ n \in DOMAIN seen.tags
    /\ BeginWrite(seen, Answer("DELETE", n, 200, NoTags), Drop(seen.tags, n))

deleteObject(n, isTag) ==
    /\ pc = "idle"
    /\ \E seen \in Seen :
         \/ DeleteRefused(seen, n, isTag)
         \/ isTag /\ DeleteTag(seen, n)
-----------------------------------------------------------------------------
\* What parse_dest_elements_to_string makes of a destination: its last element,
\* and whether the destination is parodus/tag/<name>.
Dests == [name : Names, isTag : BOOLEAN]

processCrudRequest ==
    \/ \E d \in Dests :
         \/ \E p \in Payloads : \/ createObject(d.name, p, d.isTag)
                               \/ updateObject(d.name, p, d.isTag)
         \/ retrieveObject(d.name, d.isTag) \/ deleteObject(d.name, d.isTag)
    \/ \E key \in ConfigKeys \cup {"unknown"} : RetrieveMemory(key)
    \/ \E named \in BOOLEAN : getClientStatus(named)
    \/ \E reason \in DisconnectReasons : UpdateCloudDisconnect(reason)

Write == WriteData \/ WriteNull \/ WriteShort \/ Crash

Next == processCrudRequest \/ Write

Spec == Init /\ [][Next]_vars
-----------------------------------------------------------------------------
StoredValues == {Stored(p) : p \in {q \in Payloads : ValidPayload(q) /\ ValidTypes(q)}}
TagSets == UNION {[S -> StoredValues] : S \in SUBSET Names}
Answers == [op : {"NONE", "CREATE", "RETRIEVE", "UPDATE", "DELETE", "MEMORY", "DISCONNECT"},
            name : Names, status : {0, 200, 201, 400, 409, 500},
            value : TagSets, fault : BOOLEAN]

\* Type invariant; it says that whatever is stored or read back came through the
\* validation of a CREATE or UPDATE.
TypeOK ==
    /\ file \in [kind : {"absent", "empty", "garbage", "object", "tags"}, tags : TagSets]
    /\ file.kind # "tags" => file.tags = NoTags
    /\ pc \in {"idle", "write"}
    /\ pending \in [old : TagSets, new : TagSets, resp : Answers]
    /\ resp \in Answers

Distinct(tags) == \A m, n \in DOMAIN tags : Fold[m] = Fold[n] => m = n

\* No two tags of the file differ only in case, so that every tag can be found
\* again by cJSON's lookup, whatever sequence of requests, faults and crashes
\* wrote the file.
NamesDistinct == Distinct(file.tags) /\ Distinct(pending.new)

\* Every stored tag can expire: its first numeric "expires" is not zero, and it
\* holds no empty key and no empty string, although the numbers were cut to
\* integers after they had been checked; and only a file of the kind "tags" has any.
StoredTagsExpire ==
    TypeOK /\
    \A n \in DOMAIN file.tags :
        LET v == file.tags[n] IN
        /\ \E i \in 1..Len(v) :
             /\ IsExpires(v[i]) /\ v[i].val # 0
             /\ \A j \in 1..(i - 1) : ~IsExpires(v[j])
        /\ \A i \in 1..Len(v) : v[i].key # "" /\ (v[i].type = "string" => v[i].val # 0)

\* A write under way: the change of one tag with its answer, or, for a request
\* that could not read the file, one tag alone.
CreatePending(w, n, v) ==
    /\ n \notin DOMAIN w.old /\ w.new = Put(w.old, n, v)
    /\ w.resp = Answer("CREATE", n, 201, Single(n, v))
UpdatePending(w, n, v) ==
    /\ w.new = Put(w.old, n, v)
    /\ w.resp = Answer("UPDATE", n, IF n \in DOMAIN w.old THEN 200 ELSE 201, NoTags)
LonePending(w, n, v) ==
    /\ w.new = Put(NoTags, n, v)
    /\ \/ w.resp = Fault(Answer("CREATE", n, 201, Single(n, v)))
       \/ w.resp = Fault(Answer("UPDATE", n, 201, NoTags))
DeletePending(w, n) ==
    /\ n \in DOMAIN w.old /\ w.new = Drop(w.old, n)
    /\ w.resp = Answer("DELETE", n, 200, NoTags)
WriteOK(w) ==
    \E n \in Names :
      \/ DeletePending(w, n)
      \/ \E v \in StoredValues :
            CreatePending(w, n, v) \/ UpdatePending(w, n, v) \/ LonePending(w, n, v)

\* The inductive invariant behind NamesDistinct and ImplementsTagMap.
IInv ==
    /\ pc \in {"idle", "write"}
    /\ file.kind # "tags" => file.tags = NoTags
    /\ pc = "write" => WriteOK(pending)
    /\ NamesDistinct

Map == INSTANCE TagMap WITH
           Values <- StoredValues,
           store <- IF pc = "write" THEN pending.old ELSE file.tags

\* The CRUD service is an atomic map of tags: each answer tells what happened to
\* the tags, an accepted request changes the tag it names and no other, and tags
\* get lost only through a fault of the file system or a crash.
ImplementsTagMap == Map!Spec
=============================================================================
