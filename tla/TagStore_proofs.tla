-------------------------- MODULE TagStore_proofs --------------------------
(***************************************************************************)
(* TagStore implements TagMap, and the names in the file stay distinct,    *)
(* for every set of names and payloads and every way of ignoring case.     *)
(***************************************************************************)
EXTENDS TagStore, TLAPS

\* A request is answered without touching the file.
Harmless(r) ==
    /\ ~r.fault
    /\ r.status = 200 => r.op \in {"MEMORY", "DISCONNECT"}
    /\ r.status # 201
    /\ r.status = 409 => r.op = "CREATE" /\ r.name \in DOMAIN file.tags
Read(r) ==
    \E n \in Names :
        \/ r = Answer("RETRIEVE", n, 200, file.tags)
        \/ n \in DOMAIN file.tags /\ r = Answer("RETRIEVE", n, 200, Single(n, file.tags[n]))
Answered ==
    /\ UNCHANGED <<file, pc, pending>>
    /\ resp'.fault \/ Harmless(resp') \/ Read(resp')

\* A request has truncated the file and will write.
Begun ==
    /\ pc' = "write" /\ file' = Empty /\ resp' = resp
    /\ pending'.old = file.tags
    /\ WriteOK(pending') /\ Distinct(pending'.new)

\* A tag added beside tags that do not have its name in any case, or replacing
\* the one that has it, keeps the names distinct.
LEMMA PutDistinct ==
    ASSUME NEW tags, NEW n, NEW v, Distinct(tags),
           ~CaseMatch(tags, n) \/ n \in DOMAIN tags
    PROVE  Distinct(Put(tags, n, v))
  BY DEF Distinct, CaseMatch, Put

\* What a request sees is the file, or nothing.
LEMMA SeenCases ==
    ASSUME IInv, NEW seen \in Seen
    PROVE  /\ seen = file \/ (seen # file /\ seen.kind = "absent" /\ seen.tags = NoTags)
           /\ seen.kind # "tags" => seen.tags = NoTags
           /\ Distinct(seen.tags)
  BY DEF IInv, Seen, Absent, Contents, NamesDistinct, Distinct, NoTags

\* A refused request is answered.
LEMMA RefusalAnswered ==
    ASSUME NEW op \in {"CREATE", "RETRIEVE", "UPDATE", "DELETE", "MEMORY", "DISCONNECT"},
           NEW n, NEW value, NEW status \in {400, 409, 500},
           status = 409 => op = "CREATE" /\ n \in DOMAIN file.tags,
           Respond(Answer(op, n, status, value))
    PROVE  Answered
  BY DEF Respond, Answer, Answered, Harmless

\* The beginning of a write: a failing fopen is answered, with the fault noted;
\* else the write is under way.
LEMMA BeginStep ==
    ASSUME NEW seen, NEW op, NEW n, NEW status, NEW value, NEW new,
           BeginWrite(seen, Answer(op, n, status, value), new)
    PROVE  \/ Answered
           \/ /\ pc' = "write" /\ file' = Empty /\ resp' = resp
              /\ pending'.old = file.tags /\ pending'.new = new
              /\ pending'.resp = IF seen = file THEN Answer(op, n, status, value)
                                 ELSE Fault(Answer(op, n, status, value))
<1> DEFINE r == Answer(op, n, status, value)
           a == IF Missed(seen) THEN Fault(r) ELSE r
<1>1. CASE Respond(Failed(a))
  <2>1. Failed(a).fault
    <3>1. CASE Missed(seen)
      BY <3>1 DEF Failed, Fault, Answer
    <3>2. CASE ~Missed(seen)
      BY <3>2 DEF Failed, Fault, Answer
    <3> QED BY <3>1, <3>2
  <2> QED BY <1>1, <2>1 DEF Respond, Answered
<1>2. CASE /\ file' = Empty /\ pc' = "write"
           /\ pending' = [old |-> file.tags, new |-> new, resp |-> a]
           /\ UNCHANGED resp
  BY <1>2 DEF Missed
<1> QED BY <1>1, <1>2 DEF BeginWrite

\* createObject and updateObject, when they get as far as writing a tag.
LEMMA CreateWriteStep ==
    ASSUME IInv, NEW seen \in Seen, NEW n \in Names,
           NEW p \in Payloads, ValidPayload(p), ~CaseMatch(seen.tags, n),
           CreateWrite(seen, n, p)
    PROVE  Answered \/ Begun
<1> DEFINE v == Stored(p)
<1>1. CASE ~ValidTypes(p)
  BY <1>1, RefusalAnswered DEF CreateWrite
<1>2. CASE ValidTypes(p)
  <2>1. v \in StoredValues
    BY <1>2 DEF StoredValues
  <2>2. BeginWrite(seen, Answer("CREATE", n, 201, Single(n, v)), Put(seen.tags, n, v))
    BY <1>2 DEF CreateWrite
  <2> HIDE DEF v
  <2>3. Distinct(Put(seen.tags, n, v)) /\ n \notin DOMAIN seen.tags
    BY SeenCases, PutDistinct DEF CaseMatch
  <2>4. \/ Answered
        \/ /\ pc' = "write" /\ file' = Empty /\ resp' = resp
           /\ pending'.old = file.tags /\ pending'.new = Put(seen.tags, n, v)
           /\ pending'.resp = IF seen = file THEN Answer("CREATE", n, 201, Single(n, v))
                              ELSE Fault(Answer("CREATE", n, 201, Single(n, v)))
    BY <2>2, BeginStep
  <2>5. CASE seen = file
    BY <2>1, <2>3, <2>4, <2>5 DEF Begun, WriteOK, CreatePending
  <2>6. CASE seen # file
    BY <2>1, <2>3, <2>4, <2>6, SeenCases DEF Begun, WriteOK, LonePending
  <2> QED BY <2>5, <2>6
<1> QED BY <1>1, <1>2

LEMMA UpdateWriteStep ==
    ASSUME IInv, NEW seen \in Seen, NEW n \in Names,
           NEW p \in Payloads, ValidPayload(p),
           ~CaseMatch(seen.tags, n) \/ n \in DOMAIN seen.tags,
           UpdateWrite(seen, n, p, IF n \in DOMAIN seen.tags THEN 200 ELSE 201)
    PROVE  Answered \/ Begun
<1> DEFINE v == Stored(p)
           s == IF n \in DOMAIN seen.tags THEN 200 ELSE 201
<1>1. CASE ~ValidTypes(p)
  BY <1>1, RefusalAnswered DEF UpdateWrite
<1>2. CASE ValidTypes(p)
  <2>1. v \in StoredValues
    BY <1>2 DEF StoredValues
  <2>2. BeginWrite(seen, Answer("UPDATE", n, s, NoTags), Put(seen.tags, n, v))
    BY <1>2 DEF UpdateWrite
  <2> HIDE DEF v
  <2>3. Distinct(Put(seen.tags, n, v))
    BY SeenCases, PutDistinct
  <2>4. \/ Answered
        \/ /\ pc' = "write" /\ file' = Empty /\ resp' = resp
           /\ pending'.old = file.tags /\ pending'.new = Put(seen.tags, n, v)
           /\ pending'.resp = IF seen = file THEN Answer("UPDATE", n, s, NoTags)
                              ELSE Fault(Answer("UPDATE", n, s, NoTags))
    BY <2>2, BeginStep
  <2>5. CASE seen = file
    BY <2>1, <2>3, <2>4, <2>5 DEF Begun, WriteOK, UpdatePending
  <2>6. CASE seen # file
    <3>1. s = 201 /\ seen.tags = NoTags
      BY <2>6, SeenCases DEF NoTags
    <3> QED BY <2>1, <2>3, <2>4, <2>6, <3>1 DEF Begun, WriteOK, LonePending
  <2> QED BY <2>5, <2>6
<1> QED BY <1>1, <1>2

LEMMA CreateStep ==
    ASSUME IInv, NEW n \in Names, NEW p \in Payloads, NEW isTag, createObject(n, p, isTag)
    PROVE  Answered \/ Begun
<1>1. PICK seen \in Seen :
         \/ CreateRefused(seen, n, p, isTag)
         \/ /\ isTag /\ ValidPayload(p)
            /\ CreateExists(seen, n) \/ CreateAdd(seen, n, p) \/ CreateFirst(seen, n, p)
  BY DEF createObject
<1>2. CASE CreateRefused(seen, n, p, isTag)
  BY <1>2, RefusalAnswered DEF CreateRefused
<1>3. CASE ValidPayload(p) /\ CreateExists(seen, n)
  <2>1. seen = file
    BY <1>3, SeenCases DEF CreateExists
  <2>2. CASE n \in DOMAIN seen.tags
    BY <1>3, <2>1, <2>2, RefusalAnswered DEF CreateExists
  <2>3. CASE n \notin DOMAIN seen.tags
    BY <1>3, <2>3, RefusalAnswered DEF CreateExists
  <2> QED BY <2>2, <2>3
<1>4. CASE ValidPayload(p) /\ CreateAdd(seen, n, p)
  BY <1>4, CreateWriteStep DEF CreateAdd
<1>5. CASE ValidPayload(p) /\ CreateFirst(seen, n, p)
  <2>1. ~CaseMatch(seen.tags, n)
    BY <1>5, SeenCases DEF CreateFirst, CaseMatch, NoTags
  <2> QED BY <1>5, <2>1, CreateWriteStep DEF CreateFirst
<1> QED BY <1>1, <1>2, <1>3, <1>4, <1>5

LEMMA UpdateStep ==
    ASSUME IInv, NEW n \in Names, NEW p \in Payloads, NEW isTag, updateObject(n, p, isTag)
    PROVE  Answered \/ Begun
<1>1. PICK seen \in Seen :
         \/ UpdateRefused(seen, n, p, isTag)
         \/ /\ isTag /\ ValidPayload(p)
            /\ \/ UpdateReplace(seen, n, p) \/ UpdateOtherCase(seen, n)
               \/ UpdateAdd(seen, n, p) \/ UpdateFirst(seen, n, p)
  BY DEF updateObject
<1>2. CASE UpdateRefused(seen, n, p, isTag)
  BY <1>2, RefusalAnswered DEF UpdateRefused
<1>3. CASE UpdateOtherCase(seen, n)
  BY <1>3, RefusalAnswered DEF UpdateOtherCase
<1>4. CASE ValidPayload(p) /\ UpdateReplace(seen, n, p)
  BY <1>4, UpdateWriteStep DEF UpdateReplace
<1>5. CASE ValidPayload(p) /\ UpdateAdd(seen, n, p)
  <2>1. n \notin DOMAIN seen.tags
    BY <1>5 DEF UpdateAdd, CaseMatch
  <2> QED BY <1>5, <2>1, UpdateWriteStep DEF UpdateAdd
<1>6. CASE ValidPayload(p) /\ UpdateFirst(seen, n, p)
  <2>1. ~CaseMatch(seen.tags, n) /\ n \notin DOMAIN seen.tags
    BY <1>6, SeenCases DEF UpdateFirst, CaseMatch, NoTags
  <2> QED BY <1>6, <2>1, UpdateWriteStep DEF UpdateFirst
<1> QED BY <1>1, <1>2, <1>3, <1>4, <1>5, <1>6

LEMMA DeleteStep ==
    ASSUME IInv, NEW n \in Names, NEW isTag, deleteObject(n, isTag)
    PROVE  Answered \/ Begun
<1>1. PICK seen \in Seen : DeleteRefused(seen, n, isTag) \/ DeleteTag(seen, n)
  BY DEF deleteObject
<1>2. CASE DeleteRefused(seen, n, isTag)
  BY <1>2, RefusalAnswered DEF DeleteRefused
<1>3. CASE DeleteTag(seen, n)
  <2>1. seen = file /\ n \in DOMAIN file.tags
    BY <1>3, SeenCases DEF DeleteTag, NoTags
  <2>2. Distinct(Drop(seen.tags, n))
    BY SeenCases DEF Distinct, Drop
  <2>3. \/ Answered
        \/ /\ pc' = "write" /\ file' = Empty /\ resp' = resp
           /\ pending'.old = file.tags /\ pending'.new = Drop(seen.tags, n)
           /\ pending'.resp = Answer("DELETE", n, 200, NoTags)
    BY <1>3, <2>1, BeginStep DEF DeleteTag
  <2> QED BY <2>1, <2>2, <2>3 DEF Begun, WriteOK, DeletePending
<1> QED BY <1>1, <1>2, <1>3

LEMMA RetrieveStep ==
    ASSUME IInv, NEW n \in Names, NEW isTag, retrieveObject(n, isTag)
    PROVE  Answered
<1>1. PICK seen \in Seen : RetrieveTags(seen, n, isTag)
  BY DEF retrieveObject
<1> DEFINE tags == seen.tags
           status == IF seen.kind \in {"absent", "empty", "garbage"} THEN 500
                     ELSE IF tags = NoTags \/ (n # "tags" /\ ~(isTag /\ n \in DOMAIN tags))
                          THEN 400 ELSE 200
<1>2. CASE status # 200
  <2>1. status \in {400, 409, 500} /\ status # 409
    BY <1>2
  <2>2. Respond(Answer("RETRIEVE", n, status, NoTags))
    BY <1>1, <1>2 DEF RetrieveTags
  <2> HIDE DEF status
  <2> QED BY <2>1, <2>2, RefusalAnswered
<1>3. CASE status = 200
  <2>1. seen = file
    BY <1>3, SeenCases
  <2>2. Respond(Answer("RETRIEVE", n, 200,
                       IF n = "tags" THEN file.tags ELSE Single(n, file.tags[n])))
    BY <1>1, <1>3, <2>1 DEF RetrieveTags
  <2>3. n = "tags" \/ n \in DOMAIN file.tags
    BY <1>3, <2>1
  <2>4. Read(resp')
    BY <2>2, <2>3 DEF Respond, Read
  <2> QED BY <2>2, <2>4 DEF Respond, Answered
<1> QED BY <1>2, <1>3

\* Every request is answered at once, or begins a write of one tag.
LEMMA RequestStep ==
    ASSUME IInv, processCrudRequest
    PROVE  pc = "idle" /\ (Answered \/ Begun)
<1>0. pc = "idle"
  BY DEF processCrudRequest, createObject, updateObject, retrieveObject, deleteObject,
         RetrieveMemory, getClientStatus, UpdateCloudDisconnect
<1>1. CASE \E d \in Dests : \E p \in Payloads : \/ createObject(d.name, p, d.isTag)
                                               \/ updateObject(d.name, p, d.isTag)
  <2>1. PICK d \in Dests, p \in Payloads : \/ createObject(d.name, p, d.isTag)
                                            \/ updateObject(d.name, p, d.isTag)
    BY <1>1
  <2>2. d.name \in Names
    BY DEF Dests
  <2>3. CASE createObject(d.name, p, d.isTag)
    BY <1>0, <2>2, <2>3, CreateStep
  <2>4. CASE updateObject(d.name, p, d.isTag)
    BY <1>0, <2>2, <2>4, UpdateStep
  <2> QED BY <2>1, <2>3, <2>4
<1>2. CASE \E d \in Dests : retrieveObject(d.name, d.isTag) \/ deleteObject(d.name, d.isTag)
  <2>1. PICK d \in Dests : retrieveObject(d.name, d.isTag) \/ deleteObject(d.name, d.isTag)
    BY <1>2
  <2>2. d.name \in Names
    BY DEF Dests
  <2>3. CASE retrieveObject(d.name, d.isTag)
    BY <1>0, <2>2, <2>3, RetrieveStep
  <2>4. CASE deleteObject(d.name, d.isTag)
    BY <1>0, <2>2, <2>4, DeleteStep
  <2> QED BY <2>1, <2>3, <2>4
<1>3. CASE \E key \in ConfigKeys \cup {"unknown"} : RetrieveMemory(key)
  BY <1>3 DEF RetrieveMemory, Respond, Answer, Answered, Harmless
<1>4. CASE \E named \in BOOLEAN : getClientStatus(named)
  BY <1>4 DEF getClientStatus, Respond, Answer, NoAnswer, Answered, Harmless
<1>5. CASE \E reason \in DisconnectReasons : UpdateCloudDisconnect(reason)
  BY <1>5 DEF UpdateCloudDisconnect, Respond, Answer, Answered, Harmless
<1> QED BY <1>0, <1>1, <1>2, <1>3, <1>4, <1>5 DEF processCrudRequest

LEMMA InitIInv == Init => IInv
  BY DEF Init, IInv, NamesDistinct, Distinct, NoWrite, Absent, Empty, Garbage, NoMembers,
         JsonOf, Contents, NoTags

\* Each of the ends of a write leaves a file with the tags written, or with none.
LEMMA EndPreserves ==
    ASSUME IInv, Write
    PROVE  IInv'
<1>1. /\ pc' = "idle" /\ pending' = NoWrite
      /\ file' \in {JsonOf(pending.new), Empty, Garbage}
  BY DEF Write, WriteData, WriteNull, WriteShort, Crash, EndWrite
<1>2. Distinct(pending'.new)
  BY <1>1 DEF NoWrite, NoTags, Distinct
<1>3. Distinct(file'.tags) /\ (file'.kind # "tags" => file'.tags = NoTags)
  BY <1>1 DEF IInv, NamesDistinct, JsonOf, Empty, Garbage, Contents, NoTags, Distinct
<1> QED BY <1>1, <1>2, <1>3 DEF IInv, NamesDistinct

LEMMA NextPreserves == IInv /\ [Next]_vars => IInv'
<1> SUFFICES ASSUME IInv, [Next]_vars PROVE IInv'
  OBVIOUS
<1>1. CASE UNCHANGED vars
  BY <1>1 DEF vars, IInv, NamesDistinct
<1>2. CASE processCrudRequest
  <2>1. CASE Answered
    BY <2>1 DEF Answered, IInv, NamesDistinct
  <2>2. CASE Begun
    <3>1. Distinct(file'.tags) /\ file'.tags = NoTags
      BY <2>2 DEF Begun, Empty, Contents, NoTags, Distinct
    <3> QED BY <2>2, <3>1 DEF Begun, IInv, NamesDistinct
  <2> QED BY <1>2, <2>1, <2>2, RequestStep
<1>3. CASE Write
  BY <1>3, EndPreserves
<1> QED BY <1>1, <1>2, <1>3 DEF Next

\* The inductive invariant holds: a write under way always changes one tag of
\* what the file held, or replaces a file that could not be read.
THEOREM IInvAlways == Spec => []IInv
<1>1. Init => IInv
  BY InitIInv
<1>2. IInv /\ [Next]_vars => IInv'
  BY NextPreserves
<1> QED BY <1>1, <1>2, PTL DEF Spec

\* No two tags in the file differ only in case.
THEOREM NamesStayDistinct == Spec => []NamesDistinct
<1>1. IInv => NamesDistinct
  BY DEF IInv
<1> QED BY <1>1, IInvAlways, PTL
\* The tags of TagMap: while a write is under way, those the file held before.
Tags == IF pc = "write" THEN pending.old ELSE file.tags

LEMMA InitMaps == Init => Map!Init
  BY DEF Init, Map!Init, Map!NoTags, NoTags, NoAnswer, Answer, Absent, Empty, Garbage,
         NoMembers, JsonOf, Contents

\* An answer without a write is a step of TagMap that keeps the tags.
LEMMA AnsweredMaps ==
    ASSUME pc = "idle", Answered
    PROVE  Map!Next
<1>1. Tags' = Tags /\ Tags = file.tags
  BY DEF Answered, Tags
<1>2. CASE resp'.fault
  BY <1>1, <1>2 DEF Map!Next, Map!Fault, Tags
<1>3. CASE Harmless(resp')
  BY <1>1, <1>3 DEF Map!Next, Map!Other, Harmless, Tags
<1>4. CASE Read(resp')
  BY <1>1, <1>4 DEF Map!Next, Map!Retrieve, Map!RetrieveAll, Map!Only, Map!Answer, Answer,
                    Read, Single, Tags
<1> QED BY <1>2, <1>3, <1>4 DEF Answered

\* The end of a write that succeeds is the change it was begun for.
LEMMA WriteDataMaps ==
    ASSUME pc = "write", WriteOK(pending), WriteData
    PROVE  Map!Next
<1>1. /\ Tags = pending.old /\ Tags' = pending.new /\ resp' = pending.resp
  BY DEF WriteData, EndWrite, JsonOf, Contents, Tags
<1>2. PICK n \in Names :
         \/ DeletePending(pending, n)
         \/ \E v \in StoredValues : \/ CreatePending(pending, n, v)
                                   \/ UpdatePending(pending, n, v)
                                   \/ LonePending(pending, n, v)
  BY DEF WriteOK
<1>3. CASE DeletePending(pending, n)
  <2>1. Map!Delete(n)
    BY <1>1, <1>3 DEF DeletePending, Map!Delete, Map!Without, Drop, Map!Answer, Answer,
                      Map!NoTags, NoTags, Tags
  <2> QED BY <2>1 DEF Map!Next
<1>4. ASSUME NEW v \in StoredValues, CreatePending(pending, n, v) PROVE Map!Next
  <2>1. Map!Create(n, v)
    BY <1>1, <1>4 DEF CreatePending, Map!Create, Map!Set, Put, Map!Answer, Answer, Single, Tags
  <2> QED BY <2>1 DEF Map!Next
<1>5. ASSUME NEW v \in StoredValues, UpdatePending(pending, n, v) PROVE Map!Next
  <2>1. Map!Update(n, v)
    BY <1>1, <1>5 DEF UpdatePending, Map!Update, Map!Set, Put, Map!Answer, Answer,
                      Map!NoTags, NoTags, Tags
  <2> QED BY <2>1 DEF Map!Next
<1>6. ASSUME NEW v \in StoredValues, LonePending(pending, n, v) PROVE Map!Next
  <2>1. resp'.fault
    BY <1>1, <1>6 DEF LonePending, Fault, Answer
  <2>2. Tags' = [m \in {n} |-> v]
    BY <1>1, <1>6 DEF LonePending, Put, NoTags
  <2>3. Map!Fault
    BY <2>1, <2>2 DEF Map!Fault, Tags
  <2> QED BY <2>3 DEF Map!Next
<1> QED BY <1>2, <1>3, <1>4, <1>5, <1>6

\* The other ends of a write lose the tags and say so.
LEMMA LossMaps ==
    ASSUME WriteOK(pending), WriteNull \/ WriteShort \/ Crash
    PROVE  Map!Next
<1>1. Tags' = NoTags
  BY DEF WriteNull, WriteShort, Crash, EndWrite, Empty, Garbage, Contents, Tags
<1>2. Fault(pending.resp).fault /\ Failed(pending.resp).fault /\ Fault(NoAnswer).fault
  <2>1. PICK op, n, s, value : \/ pending.resp = Answer(op, n, s, value)
                               \/ pending.resp = Fault(Answer(op, n, s, value))
    BY DEF WriteOK, CreatePending, UpdatePending, LonePending, DeletePending
  <2> QED BY <2>1 DEF Failed, Fault, Answer, NoAnswer
<1>3. resp'.fault
  BY <1>2 DEF WriteNull, WriteShort, Crash, EndWrite
<1>4. Map!Fault
  BY <1>1, <1>3 DEF Map!Fault, Map!NoTags, NoTags, Tags
<1> QED BY <1>4 DEF Map!Next

LEMMA NextMaps ==
    IInv /\ [Next]_vars => [Map!Next]_<<IF pc = "write" THEN pending.old ELSE file.tags, resp>>
<1> SUFFICES ASSUME IInv, [Next]_vars PROVE Map!Next \/ UNCHANGED <<Tags, resp>>
  BY DEF Tags
<1>1. CASE UNCHANGED vars
  BY <1>1 DEF vars, Tags
<1>2. CASE processCrudRequest
  <2>1. CASE Answered
    BY <1>2, <2>1, RequestStep, AnsweredMaps
  <2>2. CASE pc = "idle" /\ Begun
    BY <2>2 DEF Begun, Tags
  <2> QED BY <1>2, <2>1, <2>2, RequestStep
<1>3. CASE Write
  <2>1. pc = "write" /\ WriteOK(pending)
    BY <1>3 DEF Write, WriteData, WriteNull, WriteShort, Crash, EndWrite, IInv
  <2> QED BY <1>3, <2>1, WriteDataMaps, LossMaps DEF Write
<1> QED BY <1>1, <1>2, <1>3 DEF Next

\* The CRUD service is an atomic map of tags: whatever the names and payloads and
\* wherever a fault or a crash falls, each answer tells what became of the tags.
THEOREM Implements == Spec => ImplementsTagMap
<1>1. Init => Map!Init
  BY InitMaps
<1>2. IInv /\ [Next]_vars => [Map!Next]_<<IF pc = "write" THEN pending.old ELSE file.tags, resp>>
  BY NextMaps
<1> QED BY <1>1, <1>2, IInvAlways, PTL DEF Spec, ImplementsTagMap, Map!Spec
-----------------------------------------------------------------------------
(* What is stored came through the checks.                                  *)

Ops == {"NONE", "CREATE", "RETRIEVE", "UPDATE", "DELETE", "MEMORY", "DISCONNECT"}
Statuses == {0, 200, 201, 400, 409, 500}

\* The tags are a function from some names to stored values.
LEMMA TagSetsDef == \A t : t \in TagSets <=> \E S \in SUBSET Names : t \in [S -> StoredValues]
BY DEF TagSets

\* The operations on tags stay among such functions.
LEMMA TagOperations ==
    ASSUME NEW t \in TagSets, NEW n \in Names
    PROVE  /\ NoTags \in TagSets /\ Drop(t, n) \in TagSets
           /\ n \in DOMAIN t => Single(n, t[n]) \in TagSets
           /\ \A v \in StoredValues : Put(t, n, v) \in TagSets /\ Single(n, v) \in TagSets
<1>1. PICK S \in SUBSET Names : t \in [S -> StoredValues]
  BY TagSetsDef
<1>2. NoTags \in [{} -> StoredValues] /\ {} \in SUBSET Names
  BY DEF NoTags
<1>3. Drop(t, n) \in [S \ {n} -> StoredValues] /\ S \ {n} \in SUBSET Names
  BY <1>1 DEF Drop
<1>4. ASSUME NEW v \in StoredValues
      PROVE  /\ Put(t, n, v) \in [S \cup {n} -> StoredValues] /\ S \cup {n} \in SUBSET Names
             /\ Single(n, v) \in [{n} -> StoredValues] /\ {n} \in SUBSET Names
  BY <1>1 DEF Put, Single
<1>5. n \in DOMAIN t => t[n] \in StoredValues
  BY <1>1
<1> QED BY <1>2, <1>3, <1>4, <1>5, TagSetsDef

\* The answers parodus makes.
LEMMA AnswerTypes ==
    /\ \A op \in Ops, n \in Names, status \in Statuses, value \in TagSets :
          Answer(op, n, status, value) \in Answers
    /\ \A r \in Answers : Fault(r) \in Answers /\ Failed(r) \in Answers
<1>1. ASSUME NEW op \in Ops, NEW n \in Names, NEW status \in Statuses, NEW value \in TagSets
      PROVE  Answer(op, n, status, value) \in Answers
  BY DEF Answer, Answers, Ops, Statuses
<1> DEFINE B == BOOLEAN
           t == TRUE
           R == [op : Ops, name : Names, status : Statuses, value : TagSets, fault : B]
<1>0. R = Answers /\ t \in B
  BY DEF Answers, Ops, Statuses
<1>2. ASSUME NEW r \in Answers PROVE Fault(r) \in Answers
  <2>1. Fault(r) = [r EXCEPT !.fault = t]
    BY DEF Fault
  <2> HIDE DEF B, t
  <2>2. ASSUME NEW q \in R PROVE [q EXCEPT !.fault = t] \in R
    BY <1>0
  <2> QED BY <1>0, <2>1, <2>2
<1>3. ASSUME NEW r \in Answers PROVE Failed(r) \in Answers
  <2>1. NoTags \in TagSets /\ 500 \in Statuses
    BY TagOperations DEF Answers, Statuses
  <2> HIDE DEF B, t
  <2>2. \A q \in R : [q EXCEPT !.status = 500] \in R /\ [q EXCEPT !.value = NoTags] \in R
    BY <2>1
  <2> HIDE DEF R
  <2>3. [r EXCEPT !.status = 500, !.value = NoTags] \in Answers
    <3> DEFINE q == [r EXCEPT !.status = 500]
               w == [q EXCEPT !.value = NoTags]
    <3>1. q \in R
      BY <1>0, <2>2
    <3>2. [r EXCEPT !.status = 500, !.value = NoTags] = w
      OBVIOUS
    <3> HIDE DEF q
    <3>3. w \in R
      BY <2>2, <3>1
    <3> HIDE DEF w
    <3> QED BY <1>0, <3>2, <3>3, Zenon
  <2> QED BY <1>2, <2>3 DEF Failed
<1> QED BY <1>1, <1>2, <1>3

\* Cutting the numbers keeps the "expires" that was checked, and touches no key and no
\* string.
LEMMA StoredExpires ==
    ASSUME NEW v \in StoredValues
    PROVE  /\ \E i \in 1..Len(v) :
                /\ IsExpires(v[i]) /\ v[i].val # 0
                /\ \A j \in 1..(i - 1) : ~IsExpires(v[j])
           /\ \A i \in 1..Len(v) : v[i].key # "" /\ (v[i].type = "string" => v[i].val # 0)
<1>1. PICK p \in Payloads : ValidPayload(p) /\ ValidTypes(p) /\ v = Stored(p)
  BY DEF StoredValues
<1>2. p \in Seq([key : STRING, type : STRING, val : Int]) /\ HasExpires(p) /\ ProperStrings(p)
  BY <1>1, TagStoreAssumption DEF ValidPayload
<1>3. Len(v) = Len(p) /\ Len(p) \in Nat
  BY <1>1, <1>2 DEF Stored
<1>4. ASSUME NEW i \in 1..Len(p)
      PROVE  /\ v[i].key = p[i].key /\ v[i].type = p[i].type
             /\ v[i].val = IF p[i].type = "number" THEN ValueInt(p[i].val) ELSE p[i].val
  <2>1. v[i] = IF p[i].type = "number" THEN [p[i] EXCEPT !.val = ValueInt(@)] ELSE p[i]
    BY <1>1 DEF Stored
  <2>2. p[i] \in [key : STRING, type : STRING, val : Int]
    <3> DEFINE Item == [key : STRING, type : STRING, val : Int]
    <3>1. p \in Seq(Item)
      BY <1>2
    <3> HIDE DEF Item
    <3>2. p[i] \in Item
      BY <3>1
    <3> QED BY <3>2 DEF Item
  <2> QED BY <2>1, <2>2
<1>5. \A i \in 1..Len(p) : IsExpires(v[i]) <=> IsExpires(p[i])
  BY <1>4 DEF IsExpires
<1>6. PICK k \in 1..Len(p) : /\ IsExpires(p[k]) /\ ValueInt(p[k].val) # 0
                            /\ \A j \in 1..(k - 1) : ~IsExpires(p[j])
  BY <1>2 DEF HasExpires
<1>7. /\ k \in 1..Len(v) /\ IsExpires(v[k]) /\ v[k].val # 0
      /\ \A j \in 1..(k - 1) : ~IsExpires(v[j])
  <2>1. v[k].val = ValueInt(p[k].val)
    BY <1>4, <1>6 DEF IsExpires
  <2>2. \A j \in 1..(k - 1) : j \in 1..Len(p)
    BY <1>3
  <2> QED BY <1>3, <1>5, <1>6, <2>1, <2>2
<1>8. ASSUME NEW i \in 1..Len(v)
      PROVE  v[i].key # "" /\ (v[i].type = "string" => v[i].val # 0)
  BY <1>2, <1>3, <1>4 DEF ProperStrings
<1> QED BY <1>7, <1>8

\* An answer keeps the types.
LEMMA RespondTypes ==
    ASSUME TypeOK, NEW r \in Answers, Respond(r)
    PROVE  TypeOK'
BY DEF TypeOK, Respond

\* A request that is refused, or is not about tags, is answered.
LEMMA RefusalTypes ==
    ASSUME TypeOK, NEW op \in Ops, NEW n \in Names, NEW status \in Statuses,
           Respond(Answer(op, n, status, NoTags))
    PROVE  TypeOK'
<1>1. NoTags \in TagSets
  BY TagOperations DEF TypeOK
<1>2. Answer(op, n, status, NoTags) \in Answers
  BY <1>1, AnswerTypes
<1> QED BY <1>2, RespondTypes

\* What a request sees is of the type of the file.
LEMMA SeenTypes ==
    ASSUME TypeOK, NEW seen \in Seen
    PROVE  seen.tags \in TagSets /\ file.tags \in TagSets
<1>1. file.tags \in TagSets
  BY DEF TypeOK
<1>2. NoTags \in TagSets
  BY <1>1, TagOperations, TagStoreAssumption
<1> QED BY <1>1, <1>2 DEF Seen, Absent, Contents

\* A write that begins keeps the types, whether fopen fails or not.
LEMMA BeginTypes ==
    ASSUME TypeOK, NEW seen \in Seen, NEW r \in Answers, NEW new \in TagSets,
           BeginWrite(seen, r, new)
    PROVE  TypeOK'
<1> DEFINE answer == IF Missed(seen) THEN Fault(r) ELSE r
<1>1. answer \in Answers /\ Failed(answer) \in Answers
  <2>1. answer \in Answers
    BY AnswerTypes
  <2> HIDE DEF answer
  <2> QED BY <2>1, AnswerTypes
<1>2. \/ Respond(Failed(answer))
      \/ /\ file' = Empty /\ pc' = "write"
         /\ pending' = [old |-> file.tags, new |-> new, resp |-> answer]
         /\ UNCHANGED resp
  BY DEF BeginWrite
<1> HIDE DEF answer
<1>3. file.tags \in TagSets /\ NoTags \in TagSets
  BY SeenTypes, TagOperations, TagStoreAssumption
<1>4. CASE /\ file' = Empty /\ pc' = "write"
           /\ pending' = [old |-> file.tags, new |-> new, resp |-> answer]
           /\ UNCHANGED resp
  BY <1>1, <1>3, <1>4 DEF TypeOK, Empty, Contents
<1> QED BY <1>1, <1>2, <1>4, RespondTypes

\* The requests on tags keep the types.
LEMMA CreateTypes ==
    ASSUME TypeOK, NEW n \in Names, NEW p \in Payloads, NEW isTag, createObject(n, p, isTag)
    PROVE  TypeOK'
<1> USE DEF Ops, Statuses
<1>1. PICK seen \in Seen :
         \/ CreateRefused(seen, n, p, isTag)
         \/ ValidPayload(p) /\ (CreateExists(seen, n) \/ CreateWrite(seen, n, p))
  BY DEF createObject, CreateAdd, CreateFirst
<1>2. CASE CreateRefused(seen, n, p, isTag)
  BY <1>2, RefusalTypes DEF CreateRefused
<1>3. CASE CreateExists(seen, n)
  BY <1>3, RefusalTypes DEF CreateExists
<1>4. CASE ValidPayload(p) /\ CreateWrite(seen, n, p)
  <2>1. CASE ~ValidTypes(p)
    BY <1>4, <2>1, RefusalTypes DEF CreateWrite
  <2>2. CASE ValidTypes(p)
    <3> DEFINE v == Stored(p)
    <3>1. v \in StoredValues
      BY <1>4, <2>2 DEF StoredValues
    <3>2. BeginWrite(seen, Answer("CREATE", n, 201, Single(n, v)), Put(seen.tags, n, v))
      BY <1>4, <2>2 DEF CreateWrite
    <3> HIDE DEF v
    <3>3. Put(seen.tags, n, v) \in TagSets /\ Single(n, v) \in TagSets
      BY <3>1, SeenTypes, TagOperations
    <3>4. Answer("CREATE", n, 201, Single(n, v)) \in Answers
      BY <3>3, AnswerTypes
    <3> QED BY <3>2, <3>3, <3>4, BeginTypes
  <2> QED BY <2>1, <2>2
<1> QED BY <1>1, <1>2, <1>3, <1>4

LEMMA UpdateTypes ==
    ASSUME TypeOK, NEW n \in Names, NEW p \in Payloads, NEW isTag, updateObject(n, p, isTag)
    PROVE  TypeOK'
<1> USE DEF Ops, Statuses
<1>1. PICK seen \in Seen :
         \/ UpdateRefused(seen, n, p, isTag)
         \/ UpdateOtherCase(seen, n)
         \/ ValidPayload(p) /\ (UpdateWrite(seen, n, p, 200) \/ UpdateWrite(seen, n, p, 201))
  BY DEF updateObject, UpdateReplace, UpdateAdd, UpdateFirst
<1>2. CASE UpdateRefused(seen, n, p, isTag)
  BY <1>2, RefusalTypes DEF UpdateRefused
<1>3. CASE UpdateOtherCase(seen, n)
  BY <1>3, RefusalTypes DEF UpdateOtherCase
<1>4. ASSUME NEW status \in {200, 201}, ValidPayload(p), UpdateWrite(seen, n, p, status)
      PROVE  TypeOK'
  <2>1. CASE ~ValidTypes(p)
    BY <1>4, <2>1, RefusalTypes DEF UpdateWrite
  <2>2. CASE ValidTypes(p)
    <3> DEFINE v == Stored(p)
    <3>1. v \in StoredValues
      BY <1>4, <2>2 DEF StoredValues
    <3>2. BeginWrite(seen, Answer("UPDATE", n, status, NoTags), Put(seen.tags, n, v))
      BY <1>4, <2>2 DEF UpdateWrite
    <3> HIDE DEF v
    <3>3. Put(seen.tags, n, v) \in TagSets /\ NoTags \in TagSets
      BY <3>1, SeenTypes, TagOperations
    <3>4. Answer("UPDATE", n, status, NoTags) \in Answers
      BY <3>3, AnswerTypes
    <3> QED BY <3>2, <3>3, <3>4, BeginTypes
  <2> QED BY <2>1, <2>2
<1> QED BY <1>1, <1>2, <1>3, <1>4

LEMMA DeleteTypes ==
    ASSUME TypeOK, NEW n \in Names, NEW isTag, deleteObject(n, isTag)
    PROVE  TypeOK'
<1> USE DEF Ops, Statuses
<1>1. PICK seen \in Seen : DeleteRefused(seen, n, isTag) \/ DeleteTag(seen, n)
  BY DEF deleteObject
<1>2. CASE DeleteRefused(seen, n, isTag)
  BY <1>2, RefusalTypes DEF DeleteRefused
<1>3. CASE DeleteTag(seen, n)
  <2>1. Drop(seen.tags, n) \in TagSets /\ NoTags \in TagSets
    BY SeenTypes, TagOperations
  <2>2. Answer("DELETE", n, 200, NoTags) \in Answers
    BY <2>1, AnswerTypes
  <2> QED BY <1>3, <2>1, <2>2, BeginTypes DEF DeleteTag
<1> QED BY <1>1, <1>2, <1>3

LEMMA RetrieveTypes ==
    ASSUME TypeOK, NEW n \in Names, NEW isTag, retrieveObject(n, isTag)
    PROVE  TypeOK'
<1>1. PICK seen \in Seen : RetrieveTags(seen, n, isTag)
  BY DEF retrieveObject
<1>2. PICK status \in {200, 400, 500}, value \in {NoTags, seen.tags, Single(n, seen.tags[n])} :
         /\ Respond(Answer("RETRIEVE", n, status, value))
         /\ value \in {NoTags, seen.tags} \/ n \in DOMAIN seen.tags
  BY <1>1 DEF RetrieveTags
<1>3. value \in TagSets
  BY <1>2, SeenTypes, TagOperations
<1>4. Answer("RETRIEVE", n, status, value) \in Answers
  BY <1>3, AnswerTypes DEF Ops, Statuses
<1> QED BY <1>2, <1>4, RespondTypes

\* The ends of a write keep the types.
LEMMA WriteTypes ==
    ASSUME TypeOK, Write
    PROVE  TypeOK'
<1>1. pending.new \in TagSets /\ pending.resp \in Answers
  BY DEF TypeOK
<1>2. NoTags \in TagSets
  BY <1>1, TagOperations, TagStoreAssumption
<1>3. NoAnswer \in Answers
  BY <1>2, AnswerTypes, TagStoreAssumption DEF NoAnswer, Ops, Statuses
<1>4. /\ pc' = "idle" /\ pending' = NoWrite
      /\ file' \in {JsonOf(pending.new), Empty, Garbage}
      /\ resp' \in {pending.resp, Failed(pending.resp), Fault(pending.resp), Fault(NoAnswer)}
  BY DEF Write, WriteData, WriteNull, WriteShort, Crash, EndWrite
<1>5. resp' \in Answers
  BY <1>1, <1>3, <1>4, AnswerTypes
<1>6. pending' \in [old : TagSets, new : TagSets, resp : Answers]
  BY <1>2, <1>3, <1>4 DEF NoWrite
<1> QED BY <1>1, <1>2, <1>4, <1>5, <1>6 DEF TypeOK, JsonOf, Empty, Garbage, Contents

\* Every step keeps the types.
LEMMA TypeStep == TypeOK /\ [Next]_vars => TypeOK'
<1> SUFFICES ASSUME TypeOK, [Next]_vars PROVE TypeOK'
  OBVIOUS
<1>1. CASE UNCHANGED vars
  BY <1>1 DEF vars, TypeOK
<1>2. ASSUME NEW d \in Dests, NEW p \in Payloads,
             createObject(d.name, p, d.isTag) \/ updateObject(d.name, p, d.isTag)
      PROVE  TypeOK'
  <2>1. d.name \in Names
    BY DEF Dests
  <2> QED BY <1>2, <2>1, CreateTypes, UpdateTypes
<1>3. ASSUME NEW d \in Dests, retrieveObject(d.name, d.isTag) \/ deleteObject(d.name, d.isTag)
      PROVE  TypeOK'
  <2>1. d.name \in Names
    BY DEF Dests
  <2> QED BY <1>3, <2>1, RetrieveTypes, DeleteTypes
<1>4. CASE \E key \in ConfigKeys \cup {"unknown"} : RetrieveMemory(key)
  BY <1>4, RefusalTypes, TagStoreAssumption DEF RetrieveMemory, Ops, Statuses
<1>5. CASE \E named \in BOOLEAN : getClientStatus(named)
  BY <1>5, RefusalTypes, TagStoreAssumption DEF getClientStatus, NoAnswer, Ops, Statuses
<1>6. CASE \E reason \in DisconnectReasons : UpdateCloudDisconnect(reason)
  BY <1>6, RefusalTypes, TagStoreAssumption DEF UpdateCloudDisconnect, Ops, Statuses
<1>7. CASE Write
  BY <1>7, WriteTypes
<1> QED BY <1>1, <1>2, <1>3, <1>4, <1>5, <1>6, <1>7 DEF Next, processCrudRequest

\* Whatever is stored or read back came through the validation of a CREATE or UPDATE:
\* every tag in the file can expire, also after its numbers were cut, and has no empty
\* key or string.
THEOREM StoredTagsCanExpire == Spec => []StoredTagsExpire
<1>1. Init => TypeOK
  <2> SUFFICES ASSUME Init PROVE TypeOK
    OBVIOUS
  <2>1. NoTags \in TagSets
    <3>1. NoTags \in [{} -> StoredValues]
      BY DEF NoTags
    <3> QED BY <3>1, TagSetsDef
  <2>2. NoAnswer \in Answers
    BY <2>1, AnswerTypes, TagStoreAssumption DEF NoAnswer, Ops, Statuses
  <2>3. pending \in [old : TagSets, new : TagSets, resp : Answers]
    BY <2>1, <2>2 DEF Init, NoWrite
  <2> QED BY <2>1, <2>2, <2>3 DEF Init, TypeOK, Absent, Empty, Garbage, NoMembers, JsonOf, Contents
<1>2. TypeOK => StoredTagsExpire
  <2> SUFFICES ASSUME TypeOK, NEW n \in DOMAIN file.tags
               PROVE  LET v == file.tags[n] IN
                      /\ \E i \in 1..Len(v) :
                           /\ IsExpires(v[i]) /\ v[i].val # 0
                           /\ \A j \in 1..(i - 1) : ~IsExpires(v[j])
                      /\ \A i \in 1..Len(v) : v[i].key # "" /\ (v[i].type = "string" => v[i].val # 0)
    BY DEF StoredTagsExpire
  <2>1. file.tags \in TagSets
    BY DEF TypeOK
  <2>2. file.tags[n] \in StoredValues
    BY <2>1, TagSetsDef
  <2> QED BY <2>2, StoredExpires
<1> QED BY <1>1, <1>2, TypeStep, PTL DEF Spec
=============================================================================
