------------------------------ MODULE JwtLookup ------------------------------
(***************************************************************************)
(* token.c: the lookup of the server in a JWT that DNS TXT records hold.   *)
(* The JWT is cut into records labelled 01:, 02:, ...; the resolver may    *)
(* give them in any order and together with records of other types.        *)
(*                                                                         *)
(* A record is abstracted to what the scan finds in it: its type and its   *)
(* label.  The resolver, the parser of its answer and cjwt are external:   *)
(* each call succeeds or fails, and cjwt yields any JWT.                   *)
(***************************************************************************)
EXTENDS Integers, Sequences

CONSTANTS
    MAX_RR_RECS,
    MaxSeq,       \* the largest label (99, as a label has two digits)
    MaxAnswer,    \* the most records an answer holds
    Algs,         \* algorithms: the numbers a JWT header may hold
    jwt_algo,     \* those that are allowed
    Now,          \* the time
    Servers,      \* what parse_webpa_url finds in valid endpoints
    NULL

ASSUME LookupAssumption ==
    /\ MAX_RR_RECS \in Nat /\ MaxSeq \in Nat /\ MaxAnswer \in Nat /\ Now \in Nat
    /\ NULL \notin Servers

NO_LABEL == -1
BAD_LABEL == -2
Labels == {BAD_LABEL, NO_LABEL} \cup 0..MaxSeq

Records == [txt : {TRUE}, label : Labels] \cup {[txt |-> FALSE, label |-> NO_LABEL]}
Answers == UNION {[1..n -> Records] : n \in 0..MaxAnswer}

\* Results: 1 and 0 as parse_webpa_url has them, or an error.
MEMORY_FAIL == -999
QUERY_DNS_FAIL == -101
JWT_DECODE_FAIL == -102
ALGO_NOT_ALLOWED == -103
INVALID_JWT_CONTENT == -104
NO_EXPIRATION == -105
JWT_EXPIRED == -106
BAD_ENDPOINT == -107

\* exp is 0 if the JWT has none; an endpoint is BAD if it cannot be parsed.
NoJwt == [claims |-> FALSE, endpoint |-> NULL, alg |-> 0, exp |-> 0, insecure |-> 0]
Jwts == [claims : BOOLEAN, endpoint : Servers \cup {NULL, "BAD"}, alg : Algs,
         exp : {0} \cup (Now - 1)..(Now + 1), insecure : {0, 1}]

VARIABLES
    pc,
    answer,       \* the answer of the resolver
    i,            \* the record that is scanned next
    num_txt_recs,
    seq_table,    \* slot -> the record, or 0
    text,         \* jwt_ans: the records strung together, each with or without label
    jwt,          \* what was decoded
    server,       \* *server_addr
    result,
    refused       \* history: an answer was refused for what it holds

vars == <<pc, answer, i, num_txt_recs, seq_table, text, jwt, server, result, refused>>

num_rr_recs == Len(answer)

Init ==
    /\ pc = "query" /\ answer = <<>> /\ i = 1 /\ num_txt_recs = 0
    /\ seq_table = [s \in 0..MAX_RR_RECS |-> 0]
    /\ text = <<>> /\ jwt = NoJwt /\ server = NULL /\ result = NULL /\ refused = FALSE

Fail(r) ==
    /\ pc' = "done" /\ result' = r
    /\ UNCHANGED <<answer, i, num_txt_recs, seq_table, text, jwt, server>>

\* A call into a library fails.
LibraryFails(r) == Fail(r) /\ UNCHANGED refused

\* parodus does not take the answer.
Refuse == Fail(QUERY_DNS_FAIL) /\ refused' = TRUE
-----------------------------------------------------------------------------
(* query_dns and get_rr_seq_table                                           *)

query_dns_fails == pc = "query" /\ \E r \in {MEMORY_FAIL, QUERY_DNS_FAIL} : LibraryFails(r)

query_dns(a) ==
    /\ pc = "query" /\ answer' = a
    /\ IF Len(a) > MAX_RR_RECS
       THEN pc' = "done" /\ result' = QUERY_DNS_FAIL /\ refused' = TRUE
       ELSE pc' = "scan" /\ UNCHANGED <<result, refused>>
    /\ UNCHANGED <<i, num_txt_recs, seq_table, text, jwt, server>>

Scanning == pc = "scan" /\ i <= num_rr_recs

ns_parserr_fails == Scanning /\ LibraryFails(QUERY_DNS_FAIL)

SkipOtherType ==
    /\ Scanning /\ ~answer[i].txt
    /\ i' = i + 1
    /\ UNCHANGED <<pc, answer, num_txt_recs, seq_table, text, jwt, server, result, refused>>

\* find_seq_num and get_rr_seq_num: a record without a label has number 0.
seq_num == IF answer[i].label = NO_LABEL THEN 0 ELSE answer[i].label

\* Mutant of BadRecord: a second record of a number replaces the first.
BadRecordLastWins == seq_num \notin 0..num_rr_recs

\* Mutant of BadRecord: a number is compared with the records found so far.
BadRecordInOrder ==
    IF seq_num \in 0..(num_txt_recs + 1) THEN seq_table[seq_num] # 0 ELSE TRUE

\* No number, one that is too large, or one that was there before.
BadRecord == IF seq_num \in 0..num_rr_recs THEN seq_table[seq_num] # 0 ELSE TRUE

RejectRecord == Scanning /\ answer[i].txt /\ BadRecord /\ Refuse

ScanRecord ==
    /\ Scanning /\ answer[i].txt /\ ~BadRecord
    /\ seq_table' = [seq_table EXCEPT ![seq_num] = i]
    /\ num_txt_recs' = num_txt_recs + 1
    /\ i' = i + 1
    /\ UNCHANGED <<pc, answer, text, jwt, server, result, refused>>

\* A record without a number must be the only one; it takes slot 1.  "check if we
\* got them all" looks at the slots below num_txt_recs.
Incomplete ==
    \/ seq_table[0] # 0 /\ num_txt_recs > 1
    \/ seq_table[0] = 0 /\ \E s \in 1..(num_txt_recs - 1) : seq_table[s] = 0

Scanned == pc = "scan" /\ i = num_rr_recs + 1

RejectAnswer == Scanned /\ Incomplete /\ Refuse

\* What strncat appends for a slot: the record without its label; record 0 is a
\* null pointer with length 0.
Piece(s) == [rec |-> seq_table[s], labelled |-> FALSE]

\* A record in slot 0 goes into the JWT as it is, with the label 00: if it has one.
assemble_jwt_from_dns ==
    /\ Scanned /\ ~Incomplete
    /\ pc' = "decode"
    /\ text' = IF seq_table[0] # 0
               THEN <<[rec |-> seq_table[0], labelled |-> answer[seq_table[0]].label = 0]>>
               ELSE [s \in 1..num_txt_recs |-> Piece(s)]
    /\ UNCHANGED <<answer, i, num_txt_recs, seq_table, jwt, server, result, refused>>
-----------------------------------------------------------------------------
(* allow_insecure_conn                                                      *)

\* cjwt_decode; a text with nothing in it is no JWT.
cjwt_fails == pc = "decode" /\ LibraryFails(JWT_DECODE_FAIL)

cjwt_decode ==
    /\ pc = "decode" /\ \E s \in 1..Len(text) : text[s].rec # 0
    /\ jwt' \in Jwts /\ pc' = "analyze"
    /\ UNCHANGED <<answer, i, num_txt_recs, seq_table, text, server, result, refused>>

validate_algo == jwt.alg \in jwt_algo

\* Mutant of analyze_jwt: a JWT without an expiration time does not expire.
analyze_jwt_forever ==
    IF ~jwt.claims \/ jwt.endpoint = NULL THEN INVALID_JWT_CONTENT
    ELSE IF jwt.exp # 0 /\ jwt.exp < Now THEN JWT_EXPIRED
    ELSE IF jwt.endpoint = "BAD" THEN BAD_ENDPOINT
    ELSE jwt.insecure

analyze_jwt ==
    IF ~jwt.claims \/ jwt.endpoint = NULL THEN INVALID_JWT_CONTENT
    ELSE IF jwt.exp = 0 THEN NO_EXPIRATION
    ELSE IF jwt.exp < Now THEN JWT_EXPIRED
    ELSE IF jwt.endpoint = "BAD" THEN BAD_ENDPOINT
    ELSE jwt.insecure

allow_insecure_conn ==
    /\ pc = "analyze" /\ pc' = "done"
    /\ result' = IF validate_algo THEN analyze_jwt ELSE ALGO_NOT_ALLOWED
    /\ server' = IF result' >= 0 THEN jwt.endpoint ELSE NULL
    /\ UNCHANGED <<answer, i, num_txt_recs, seq_table, text, jwt, refused>>

\* find_servers asks again when parodus has no connection and no JWT.
LookupAgain ==
    /\ pc = "done"
    /\ pc' = "query" /\ answer' = <<>> /\ i' = 1 /\ num_txt_recs' = 0
    /\ seq_table' = [s \in 0..MAX_RR_RECS |-> 0]
    /\ text' = <<>> /\ jwt' = NoJwt /\ server' = NULL /\ result' = NULL /\ refused' = FALSE

Next ==
    \/ query_dns_fails \/ \E a \in Answers : query_dns(a)
    \/ ns_parserr_fails \/ SkipOtherType \/ RejectRecord \/ ScanRecord
    \/ RejectAnswer \/ assemble_jwt_from_dns
    \/ cjwt_fails \/ cjwt_decode \/ allow_insecure_conn \/ LookupAgain

Spec == Init /\ [][Next]_vars
-----------------------------------------------------------------------------
TxtRecs == {k \in 1..num_rr_recs : answer[k].txt}

\* Type invariant: the table has a slot for every number that is stored in it, and
\* every slot holds a record already scanned.
TypeOK ==
    /\ pc \in {"query", "scan", "decode", "analyze", "done"}
    /\ answer \in Seq([txt : BOOLEAN, label : Labels])
    /\ pc # "done" => num_rr_recs <= MAX_RR_RECS
    /\ i \in 1..(num_rr_recs + 1) /\ num_txt_recs \in 0..(i - 1)
    /\ seq_table \in [0..MAX_RR_RECS -> 0..(i - 1)]
    /\ \A s \in 1..Len(text) : text[s].rec \in 0..num_rr_recs /\ text[s].labelled \in BOOLEAN
    /\ jwt \in Jwts \cup {NoJwt} /\ server \in Servers \cup {NULL}
    /\ result \in {NULL, 0, 1, MEMORY_FAIL} \cup BAD_ENDPOINT..QUERY_DNS_FAIL
    /\ refused \in BOOLEAN

AllTxt == \A k \in 1..num_rr_recs : answer[k].txt

\* If all records of the answer are TXT records, the JWT is decoded from every one of
\* them, each without its label and at the place its label names, in whatever order
\* they came; a record without a number (or with 0) stands alone.  With records of
\* other types in the answer only the last piece may be missing ("check if we got
\* them all" does not look at it).
CompleteJwt ==
    pc \in {"decode", "analyze"} =>
        /\ \A s \in 1..(Len(text) - 1) : text[s].rec # 0
        /\ AllTxt =>
             /\ TxtRecs = {text[s].rec : s \in 1..Len(text)}
             /\ \/ \A s \in 1..Len(text) : answer[text[s].rec].label = s /\ ~text[s].labelled
                \/ Len(text) = 1 /\ answer[text[1].rec].label \in {0, NO_LABEL}

\* The TXT records are numbered from 1 up, without a gap and none twice.
Published == {answer[k].label : k \in TxtRecs} = {s \in 1..num_rr_recs :
                  \E k \in TxtRecs : answer[k].label >= s}
             /\ \A k, l \in TxtRecs : answer[k].label = answer[l].label => k = l

\* parodus refuses an answer whose TXT records are numbered from 1 up without a gap
\* only if the answer has more than MAX_RR_RECS records, those of other types counted:
\* never for the order they came in or for what is among them.
WholeAnswerUsed == Published /\ refused => num_rr_recs > MAX_RR_RECS

\* parodus follows a JWT only if its algorithm is allowed, it has an expiration time
\* that has not passed and its endpoint is a URL; with any other result it has no
\* server from the lookup.
AcceptedIsValid ==
    /\ server # NULL => /\ result \in {0, 1} /\ server = jwt.endpoint /\ server \in Servers
                       /\ jwt.alg \in jwt_algo /\ jwt.exp # 0 /\ jwt.exp >= Now
    /\ pc = "done" /\ server = NULL => result < 0
=============================================================================
