---------------------------- MODULE Startup_proofs ----------------------------
(* What parodus reads before it connects: the JWT of the DNS records and the  *)
(* command line.                                                              *)
(*                                                                            *)
(* The lookup, for every limit on the records and every set of labels: the    *)
(* types, that an accepted JWT is valid, and, for answers of TXT records      *)
(* only, that the JWT is complete.  The scan never compares the number of     *)
(* slots filled with the number of records; it is the pigeonhole principle    *)
(* that makes it right.                                                       *)
(*                                                                            *)
(* The command line, for any options in any order and number, numbers of any  *)
(* length and URLs of any parts: which start parodus and what it runs with.   *)
EXTENDS JwtLookup, CommandLine, FiniteSetTheorems, SequenceTheorems, WellFoundedInduction, TLAPS

USE LookupAssumption

\* Between lookups nothing is left of the last one.
LInv ==
    /\ TypeOK
    /\ pc = "query" => i = 1
    /\ pc \in {"query", "scan"} => text = <<>>

\* A function on 1..n is a sequence of length n.
LEMMA FunctionIsSeq ==
  ASSUME NEW R, NEW n \in Nat, NEW a \in [1..n -> R]
  PROVE  a \in Seq(R) /\ Len(a) = n
OBVIOUS

\* Answers of the resolver are sequences of records with a type and a label.
LEMMA AnswersType ==
  ASSUME NEW a \in Answers
  PROVE  a \in Seq(Records) /\ a \in Seq([txt : BOOLEAN, label : Labels]) /\ Len(a) \in Nat
<1>1. PICK n \in 0..MaxAnswer : a \in [1..n -> Records]
  BY DEF Answers
<1>2. Records \subseteq [txt : BOOLEAN, label : Labels]
  <2>1. NO_LABEL \in Labels
    BY DEF Labels
  <2> HIDE DEF Labels
  <2>2. [txt : {TRUE}, label : Labels] \subseteq [txt : BOOLEAN, label : Labels]
    BY Zenon
  <2>3. [txt |-> FALSE, label |-> NO_LABEL] \in [txt : BOOLEAN, label : Labels]
    BY <2>1
  <2> QED BY <2>2, <2>3 DEF Records
<1>3. n \in Nat
  OBVIOUS
<1>4. a \in Seq(Records) /\ Len(a) \in Nat
  BY <1>1, <1>3, FunctionIsSeq
<1> DEFINE R == [txt : BOOLEAN, label : Labels]
<1>5. Records \subseteq R
  BY <1>2
<1> HIDE DEF R
<1>6. a \in [1..n -> R]
  BY <1>1, <1>5
<1>7. a \in Seq(R)
  BY <1>3, <1>6, FunctionIsSeq
<1> QED BY <1>4, <1>7 DEF R

\* LInv holds at the start of a lookup.
LEMMA LInvInit == Init => LInv
BY DEF Init, LInv, TypeOK, NoJwt, num_rr_recs

\* Every step of a lookup keeps LInv.
LEMMA LInvStep == LInv /\ [Next]_vars => LInv'
<1> SUFFICES ASSUME LInv, [Next]_vars PROVE LInv'
  OBVIOUS
<1> USE DEF LInv, TypeOK, num_rr_recs
<1>1. CASE query_dns_fails
  BY <1>1 DEF query_dns_fails, Fail, LibraryFails, Refuse, MEMORY_FAIL, QUERY_DNS_FAIL, BAD_ENDPOINT
<1>2. ASSUME NEW a \in Answers, query_dns(a) PROVE LInv'
  <2>1. /\ a \in Seq([txt : BOOLEAN, label : Labels]) /\ Len(a) \in Nat
        /\ answer' = a /\ i = 1 /\ i' = 1 /\ text = <<>> /\ text' = <<>>
    BY <1>2, AnswersType DEF query_dns
  <2>2. /\ i' \in 1..(Len(answer') + 1) /\ num_txt_recs' \in 0..(i' - 1)
        /\ seq_table' \in [0..MAX_RR_RECS -> 0..(i' - 1)]
        /\ \A s \in 1..Len(text') : text'[s].rec \in 0..Len(answer') /\ text'[s].labelled \in BOOLEAN
    BY <1>2, <2>1 DEF query_dns
  <2>3. /\ pc' \in {"scan", "done"} /\ (pc' # "done" => Len(answer') <= MAX_RR_RECS)
        /\ refused' \in BOOLEAN
    BY <1>2, <2>1 DEF query_dns
  <2>4. /\ result' \in {NULL, 0, 1, MEMORY_FAIL} \cup BAD_ENDPOINT..QUERY_DNS_FAIL
        /\ jwt' \in Jwts \cup {NoJwt} /\ server' \in Servers \cup {NULL}
    BY <1>2 DEF query_dns, QUERY_DNS_FAIL, BAD_ENDPOINT
  <2> QED BY <2>1, <2>2, <2>3, <2>4
<1>3. CASE ns_parserr_fails
  BY <1>3 DEF ns_parserr_fails, Fail, LibraryFails, Refuse, MEMORY_FAIL, QUERY_DNS_FAIL, BAD_ENDPOINT
<1>4. CASE SkipOtherType
  BY <1>4 DEF SkipOtherType, Scanning
<1>5. CASE RejectRecord
  BY <1>5 DEF RejectRecord, Fail, LibraryFails, Refuse, QUERY_DNS_FAIL, BAD_ENDPOINT
<1>6. CASE ScanRecord
  <2>1. i' = i + 1 /\ i \in 1..Len(answer) /\ i' \in 1..(Len(answer) + 1)
    BY <1>6 DEF ScanRecord, Scanning
  <2>2. num_txt_recs' \in 0..(i' - 1)
    BY <1>6, <2>1 DEF ScanRecord
  <2>3. seq_table' \in [0..MAX_RR_RECS -> 0..(i' - 1)]
    <3>1. i \in 0..(i' - 1) /\ 0..(i - 1) \subseteq 0..(i' - 1)
      BY <2>1
    <3>2. seq_table \in [0..MAX_RR_RECS -> 0..(i' - 1)]
      BY <3>1
    <3>3. seq_table' = [seq_table EXCEPT ![seq_num] = i]
      BY <1>6 DEF ScanRecord
    <3> QED BY <3>1, <3>2, <3>3
  <2> QED BY <1>6, <2>1, <2>2, <2>3 DEF ScanRecord, Scanning
<1>7. CASE RejectAnswer
  BY <1>7 DEF RejectAnswer, Fail, LibraryFails, Refuse, QUERY_DNS_FAIL, BAD_ENDPOINT
<1>8. CASE assemble_jwt_from_dns
  <2>1. CASE seq_table[0] # 0
    <3> DEFINE b == answer[seq_table[0]].label = 0
    <3>0. b \in BOOLEAN
      OBVIOUS
    <3>1. text' = <<[rec |-> seq_table[0], labelled |-> b]>>
      BY <1>8, <2>1 DEF assemble_jwt_from_dns
    <3> HIDE DEF b
    <3>2. \A s \in 1..Len(text') : s = 1 /\ text'[s].rec = seq_table[0] /\ text'[s].labelled = b
      BY <3>1
    <3>3. seq_table[0] \in 0..Len(answer)
      BY <1>8 DEF assemble_jwt_from_dns, Scanned
    <3>4. \A s \in 1..Len(text') : text'[s].rec \in 0..Len(answer) /\ text'[s].labelled \in BOOLEAN
      BY <3>0, <3>2, <3>3
    <3> QED BY <1>8, <3>4 DEF assemble_jwt_from_dns, Scanned
  <2>2. CASE seq_table[0] = 0
    <3>1. text' = [s \in 1..num_txt_recs |-> [rec |-> seq_table[s], labelled |-> FALSE]]
      BY <1>8, <2>2 DEF assemble_jwt_from_dns, Piece
    <3>2. Len(text') = num_txt_recs
      BY <3>1, num_txt_recs \in Nat
    <3>3. \A s \in 1..num_txt_recs : seq_table[s] \in 0..Len(answer)
      BY <1>8 DEF assemble_jwt_from_dns, Scanned
    <3>4. \A s \in 1..Len(text') : text'[s].rec \in 0..Len(answer) /\ text'[s].labelled \in BOOLEAN
      BY <3>1, <3>2, <3>3
    <3> QED BY <1>8, <3>4 DEF assemble_jwt_from_dns, Scanned
  <2> QED BY <2>1, <2>2
<1>9. CASE cjwt_fails
  BY <1>9 DEF cjwt_fails, Fail, LibraryFails, Refuse, JWT_DECODE_FAIL, QUERY_DNS_FAIL, BAD_ENDPOINT
<1>10. CASE cjwt_decode
  BY <1>10 DEF cjwt_decode
<1>11. CASE allow_insecure_conn
  <2>1. \/ result' \in {ALGO_NOT_ALLOWED, INVALID_JWT_CONTENT, NO_EXPIRATION, JWT_EXPIRED, BAD_ENDPOINT}
        \/ result' \in {0, 1} /\ jwt.endpoint \in Servers
    BY <1>11 DEF allow_insecure_conn, analyze_jwt, Jwts, NoJwt
  <2>2. result' \in {NULL, 0, 1, MEMORY_FAIL} \cup BAD_ENDPOINT..QUERY_DNS_FAIL
    BY <2>1 DEF ALGO_NOT_ALLOWED, INVALID_JWT_CONTENT, NO_EXPIRATION, JWT_EXPIRED, BAD_ENDPOINT,
                QUERY_DNS_FAIL
  <2>3. server' \in Servers \cup {NULL}
    BY <1>11, <2>1 DEF allow_insecure_conn, ALGO_NOT_ALLOWED, INVALID_JWT_CONTENT, NO_EXPIRATION,
                JWT_EXPIRED, BAD_ENDPOINT
  <2> QED BY <1>11, <2>2, <2>3 DEF allow_insecure_conn
<1>12. CASE LookupAgain
  <2>1. /\ pc' = "query" /\ answer' = <<>> /\ i' = 1 /\ num_txt_recs' = 0 /\ text' = <<>>
        /\ jwt' = NoJwt /\ server' = NULL /\ result' = NULL /\ refused' = FALSE
        /\ seq_table' = [s \in 0..MAX_RR_RECS |-> 0]
    BY <1>12 DEF LookupAgain
  <2>2. Len(answer') = 0 /\ Len(text') = 0 /\ answer' \in Seq([txt : BOOLEAN, label : Labels])
    BY <2>1
  <2>3. /\ seq_table' \in [0..MAX_RR_RECS -> 0..(i' - 1)] /\ Len(answer') <= MAX_RR_RECS
        /\ i' \in 1..(Len(answer') + 1) /\ num_txt_recs' \in 0..(i' - 1)
        /\ 1..Len(text') = {}
    BY <2>1, <2>2
  <2> QED BY <2>1, <2>2, <2>3, Zenon
<1>13. CASE UNCHANGED vars
  BY <1>13 DEF vars
<1> QED
  BY <1>1, <1>2, <1>3, <1>4, <1>5, <1>6, <1>7, <1>8, <1>9, <1>10, <1>11, <1>12, <1>13 DEF Next

\* Type correctness: no record's number leads outside the table of token.c.
THEOREM LookupTypeOK == Spec => []TypeOK
<1>1. LInv => TypeOK
  BY DEF LInv
<1> QED BY <1>1, LInvInit, LInvStep, PTL DEF Spec

\* A JWT parodus follows is allowed, in time and names a server (analyze_jwt and
\* validate_algo); after a failed lookup there is no server of an earlier one.
THEOREM LookupAcceptedIsValid == Spec => []AcceptedIsValid
<1> DEFINE AInv == AcceptedIsValid /\ (pc # "done" => server = NULL)
<1>1. Init => AInv
  BY DEF Init, AcceptedIsValid
<1>2. LInv /\ AInv /\ [Next]_vars => AInv'
  <2> SUFFICES ASSUME LInv, AInv, [Next]_vars PROVE AInv'
    OBVIOUS
  <2> USE DEF AcceptedIsValid
  <2>1. ASSUME NEW r \in {MEMORY_FAIL, QUERY_DNS_FAIL, JWT_DECODE_FAIL}, Fail(r), pc # "done" PROVE AInv'
    BY <2>1 DEF Fail, LibraryFails, Refuse, MEMORY_FAIL, QUERY_DNS_FAIL, JWT_DECODE_FAIL
  <2>2. CASE query_dns_fails \/ ns_parserr_fails \/ RejectRecord \/ RejectAnswer \/ cjwt_fails
    BY <2>1, <2>2 DEF query_dns_fails, ns_parserr_fails, RejectRecord, RejectAnswer, cjwt_fails,
                     LibraryFails, Refuse, Scanning, Scanned
  <2>3. ASSUME NEW a \in Answers, query_dns(a) PROVE AInv'
    BY <2>3 DEF query_dns, QUERY_DNS_FAIL
  <2>4. CASE SkipOtherType \/ ScanRecord \/ assemble_jwt_from_dns \/ cjwt_decode
    BY <2>4 DEF SkipOtherType, ScanRecord, assemble_jwt_from_dns, cjwt_decode, Scanning, Scanned
  <2>5. CASE allow_insecure_conn
    <3>1. \/ result' \in {ALGO_NOT_ALLOWED, INVALID_JWT_CONTENT, NO_EXPIRATION, JWT_EXPIRED, BAD_ENDPOINT}
          \/ /\ result' \in {0, 1} /\ jwt.endpoint \in Servers
             /\ jwt.alg \in jwt_algo /\ jwt.exp # 0 /\ jwt.exp >= Now
      BY <2>5 DEF allow_insecure_conn, analyze_jwt, validate_algo, Jwts, NoJwt, LInv, TypeOK
    <3> QED
      BY <2>5, <3>1 DEF allow_insecure_conn, ALGO_NOT_ALLOWED, INVALID_JWT_CONTENT,
                        NO_EXPIRATION, JWT_EXPIRED, BAD_ENDPOINT
  <2>6. CASE LookupAgain \/ UNCHANGED vars
    BY <2>6 DEF LookupAgain, vars
  <2> QED BY <2>2, <2>3, <2>4, <2>5, <2>6 DEF Next
<1> QED BY <1>1, <1>2, LInvInit, LInvStep, PTL DEF Spec
-----------------------------------------------------------------------------
\* The number get_rr_seq_num finds in record k.
Num(k) == IF answer[k].label = NO_LABEL THEN 0 ELSE answer[k].label

\* The table after the records below i of an answer of TXT records: the record of a
\* number is in its slot, and nothing else is.
FullTable ==
    /\ \A k \in 1..Len(answer) : answer[k].txt /\ answer[k].label \in Labels
    /\ pc = "query" => num_txt_recs = 0
    /\ pc = "scan" =>
         /\ num_txt_recs = i - 1
         /\ \A k \in 1..(i - 1) : Num(k) \in 0..Len(answer) /\ seq_table[Num(k)] = k
         /\ \A s \in 0..MAX_RR_RECS : seq_table[s] # 0 => Num(seq_table[s]) = s

TableInv ==
    /\ pc = "query" => num_txt_recs = 0
    /\ AllTxt => FullTable
    /\ CompleteJwt

\* n records with different numbers in 1..n have all of these numbers.
LEMMA Pigeonhole ==
  ASSUME NEW n \in Nat, NEW f \in [1..n -> 1..n],
         \A k, l \in 1..n : f[k] = f[l] => k = l
  PROVE  \A s \in 1..n : \E k \in 1..n : f[k] = s
<1>1. f \in Injection(1..n, 1..n)
  BY DEF Injection, IsInjective
<1>2. IsFiniteSet(1..n)
  BY FS_Interval
<1>3. f \in Surjection(1..n, 1..n)
  BY <1>1, <1>2, FS_Injection
<1> QED BY <1>3 DEF Surjection

\* The image of a function from a set onto that set.
LEMMA ImageIsAll ==
  ASSUME NEW N, NEW f, \A s \in N : f[s] \in N, \A k \in N : \E s \in N : f[s] = k
  PROVE  {f[s] : s \in N} = N
OBVIOUS

\* A scan that is not rejected leaves every slot from 1 to the number of records
\* filled with the record of that number.
LEMMA SlotsFilled ==
  ASSUME LInv, FullTable, Scanned, seq_table[0] = 0
  PROVE  \A s \in 1..Len(answer) : /\ seq_table[s] \in 1..Len(answer)
                                   /\ answer[seq_table[s]].label = s
<1> DEFINE n == Len(answer)
           f == [k \in 1..n |-> Num(k)]
<1>1. n \in Nat /\ i = n + 1 /\ n <= MAX_RR_RECS
  BY DEF LInv, TypeOK, Scanned, num_rr_recs
<1>2. \A k \in 1..n : Num(k) \in 1..n /\ seq_table[Num(k)] = k
  <2> TAKE k \in 1..n
  <2>1. Num(k) \in 0..n /\ seq_table[Num(k)] = k
    BY <1>1 DEF FullTable, Scanned
  <2> QED BY <2>1, <1>1
<1>3. f \in [1..n -> 1..n] /\ \A k, l \in 1..n : f[k] = f[l] => k = l
  BY <1>2
<1>4. \A s \in 1..n : \E k \in 1..n : Num(k) = s
  <2> HIDE DEF n
  <2>1. \A s \in 1..n : \E k \in 1..n : f[k] = s
    <3> HIDE DEF f
    <3> QED BY <1>1, <1>3, Pigeonhole
  <2> QED BY <2>1
<1>5. ASSUME NEW s \in 1..n PROVE seq_table[s] \in 1..n /\ answer[seq_table[s]].label = s
  <2>1. PICK k \in 1..n : Num(k) = s
    BY <1>4
  <2>2. seq_table[s] = k
    BY <2>1, <1>2
  <2> QED BY <2>1, <2>2, <1>1 DEF Num
<1> QED BY <1>5

\* Every piece but the last was found.
LEMMA LastPieceOnly ==
  ASSUME LInv, assemble_jwt_from_dns
  PROVE  \A s \in 1..(Len(text') - 1) : text'[s].rec # 0
<1> USE DEF LInv, TypeOK, num_rr_recs
<1>1. CASE seq_table[0] # 0
  <2>1. Len(text') = 1
    BY <1>1 DEF assemble_jwt_from_dns
  <2> QED BY <2>1
<1>2. CASE seq_table[0] = 0
  <2>1. text' = [s \in 1..num_txt_recs |-> [rec |-> seq_table[s], labelled |-> FALSE]]
    BY <1>2 DEF assemble_jwt_from_dns, Piece
  <2>2. num_txt_recs \in Nat /\ Len(text') = num_txt_recs
    BY <2>1
  <2>3. \A s \in 1..(num_txt_recs - 1) : seq_table[s] # 0
    BY <1>2 DEF assemble_jwt_from_dns, Incomplete
  <2> QED BY <2>1, <2>2, <2>3
<1> QED BY <1>1, <1>2

\* Every step of a lookup keeps the table right.
LEMMA TableInvStep ==
  ASSUME LInv, TableInv, [Next]_vars
  PROVE  TableInv'
<1> USE DEF LInv, TypeOK, num_rr_recs
<1>0. ASSUME answer' = answer PROVE AllTxt' = AllTxt /\ TxtRecs' = TxtRecs
  BY <1>0 DEF AllTxt, TxtRecs
<1>1. ASSUME NEW r, Fail(r) PROVE TableInv'
  BY <1>0, <1>1 DEF Fail, LibraryFails, Refuse, TableInv, FullTable, CompleteJwt
<1>2. CASE query_dns_fails \/ ns_parserr_fails \/ RejectRecord \/ RejectAnswer \/ cjwt_fails
  BY <1>1, <1>2 DEF query_dns_fails, ns_parserr_fails, RejectRecord, RejectAnswer, cjwt_fails,
                   LibraryFails, Refuse
<1>3. ASSUME NEW a \in Answers, query_dns(a) PROVE TableInv'
  <2>1. /\ a \in Seq([txt : BOOLEAN, label : Labels]) /\ Len(a) \in Nat
        /\ answer' = a /\ i' = 1 /\ num_txt_recs' = 0 /\ pc' \in {"scan", "done"}
    BY <1>3, AnswersType DEF query_dns, TableInv
  <2>2. ASSUME AllTxt' PROVE \A k \in 1..Len(a) : a[k].txt /\ a[k].label \in Labels
    <3>1. \A k \in 1..Len(a) : a[k].txt
      BY <2>1, <2>2, Zenon DEF AllTxt
    <3>2. \A k \in 1..Len(a) : a[k].label \in Labels
      <4> DEFINE R == [txt : BOOLEAN, label : Labels]
      <4>1. ASSUME NEW k \in 1..Len(a) PROVE a[k] \in R
        <5>1. a \in Seq(R) /\ Len(a) \in Nat
          BY <2>1
        <5> HIDE DEF R
        <5> QED BY <5>1
      <4>2. \A x \in R : x.label \in Labels
        OBVIOUS
      <4> QED BY <4>1, <4>2
    <3> QED BY <3>1, <3>2, Zenon
  <2>3. \A s \in 0..MAX_RR_RECS : seq_table'[s] = 0
    BY <1>3 DEF query_dns
  <2>4. CompleteJwt'
    BY <2>1 DEF CompleteJwt
  <2> QED BY <2>1, <2>2, <2>3, <2>4 DEF TableInv, FullTable
<1>4. CASE SkipOtherType
  <2>1. pc = "scan" /\ i <= num_rr_recs /\ ~answer[i].txt /\ i \in 1..(num_rr_recs + 1)
    BY <1>4 DEF SkipOtherType, Scanning
  <2>2. i \in 1..num_rr_recs
    <3> HIDE DEF LInv, TypeOK
    <3> QED BY <2>1 DEF num_rr_recs
  <2>3. ~AllTxt
    <3> HIDE DEF LInv, TypeOK
    <3> QED BY <2>1, <2>2 DEF AllTxt
  <2>4. answer' = answer /\ pc' = "scan"
    <3> HIDE DEF LInv, TypeOK, AllTxt
    <3> QED BY <1>4, <2>1 DEF SkipOtherType
  <2>5. ~AllTxt /\ answer' = answer /\ pc' = "scan"
    BY <2>3, <2>4
  <2> QED BY <1>0, <2>5 DEF TableInv, CompleteJwt
<1>5. CASE ScanRecord /\ ~AllTxt
  BY <1>0, <1>5 DEF ScanRecord, Scanning, TableInv, CompleteJwt
<1>6. CASE ScanRecord /\ AllTxt
  <2>0. FullTable
    BY <1>6 DEF TableInv
  <2>1. /\ i \in 1..Len(answer) /\ i' = i + 1 /\ answer' = answer /\ pc' = "scan" /\ pc = "scan"
        /\ num_txt_recs' = num_txt_recs + 1 /\ Len(answer) <= MAX_RR_RECS
        /\ seq_table' = [seq_table EXCEPT ![Num(i)] = i]
        /\ Num(i) \in 0..Len(answer) /\ seq_table[Num(i)] = 0
    BY <1>6 DEF ScanRecord, Scanning, BadRecord, seq_num, Num
  <2>2. \A k \in 1..Len(answer) : Num(k)' = Num(k)
    BY <2>1 DEF Num
  <2>t. /\ i \in Nat /\ Len(answer) \in Nat /\ MAX_RR_RECS \in Nat
        /\ seq_table \in [0..MAX_RR_RECS -> 0..(i - 1)]
    <3> HIDE DEF num_rr_recs
    <3> QED BY <2>1
  <2> HIDE DEF LInv, TypeOK, num_rr_recs
  <2>f. /\ num_txt_recs = i - 1
        /\ \A l \in 1..(i - 1) : Num(l) \in 0..Len(answer) /\ seq_table[Num(l)] = l
        /\ \A s \in 0..MAX_RR_RECS : seq_table[s] # 0 => Num(seq_table[s]) = s
    BY <2>0, <2>1 DEF FullTable
  <2>3. ASSUME NEW k \in 1..i PROVE Num(k) \in 0..Len(answer) /\ seq_table'[Num(k)] = k
    <3>1. CASE k = i
      BY <3>1, <2>1, <2>t
    <3>2. CASE k # i
      <4>1. k \in 1..(i - 1)
        BY <3>2, <2>t
      <4>2. Num(k) \in 0..Len(answer) /\ seq_table[Num(k)] = k
        BY <4>1, <2>f
      <4>3. k # 0 /\ Num(k) # Num(i)
        BY <4>1, <4>2, <2>1, <2>t
      <4> QED BY <4>2, <4>3, <2>1, <2>t
    <3> QED BY <3>1, <3>2
  <2>4. ASSUME NEW s \in 0..MAX_RR_RECS, seq_table'[s] # 0 PROVE Num(seq_table'[s]) = s
    <3>1. CASE s = Num(i)
      BY <3>1, <2>1, <2>t
    <3>2. CASE s # Num(i)
      <4>1. seq_table'[s] = seq_table[s]
        BY <3>2, <2>1, <2>t
      <4> QED BY <4>1, <2>4, <2>f
    <3> QED BY <3>1, <3>2
  <2>5. \A s \in 0..MAX_RR_RECS : seq_table'[s] # 0 => seq_table'[s] \in 1..Len(answer)
    BY <2>1, <2>t
  <2>6. num_txt_recs' = i' - 1 /\ CompleteJwt'
    BY <2>1, <2>t, <2>f DEF CompleteJwt
  <2>7. \A k \in 1..(i' - 1) : Num(k)' \in 0..Len(answer') /\ seq_table'[Num(k)'] = k
    <3> TAKE k \in 1..(i' - 1)
    <3>1. k \in 1..i /\ k \in 1..Len(answer)
      BY <2>1, <2>t
    <3>2. Num(k)' = Num(k)
      BY <3>1, <2>2
    <3>3. Num(k) \in 0..Len(answer) /\ seq_table'[Num(k)] = k
      BY <3>1, <2>3
    <3> QED BY <3>2, <3>3, <2>1
  <2>8. \A s \in 0..MAX_RR_RECS : seq_table'[s] # 0 => Num(seq_table[s])' = s
    <3> TAKE s \in 0..MAX_RR_RECS
    <3>1. seq_table'[s] # 0 => Num(seq_table[s])' = Num(seq_table'[s])
      BY <2>1, <2>5 DEF Num
    <3> QED BY <3>1, <2>4
  <2> QED BY <2>0, <2>1, <2>6, <2>7, <2>8 DEF TableInv, FullTable
<1>7. CASE assemble_jwt_from_dns /\ ~AllTxt
  <2>1. answer' = answer /\ pc' = "decode"
    BY <1>7 DEF assemble_jwt_from_dns
  <2>2. \A s \in 1..(Len(text') - 1) : text'[s].rec # 0
    BY <1>7, LastPieceOnly
  <2> QED BY <1>0, <1>7, <2>1, <2>2 DEF TableInv, CompleteJwt
<1>8. CASE assemble_jwt_from_dns /\ AllTxt
  <2>0. FullTable
    BY <1>8 DEF TableInv
  <2>00. \A s \in 1..(Len(text') - 1) : text'[s].rec # 0
    BY <1>8, LastPieceOnly
  <2>1. /\ i = Len(answer) + 1 /\ num_txt_recs = Len(answer) /\ answer' = answer /\ pc' = "decode"
        /\ TxtRecs' = 1..Len(answer) /\ Len(answer) <= MAX_RR_RECS /\ pc = "scan"
    BY <1>0, <1>8, <2>0 DEF assemble_jwt_from_dns, Scanned, AllTxt, FullTable, TxtRecs
  <2>2. CASE seq_table[0] # 0
    <3>1. num_txt_recs = 1 /\ seq_table[0] = 1
      BY <1>8, <2>1, <2>2 DEF assemble_jwt_from_dns, Incomplete
    <3>2. Num(1) = 0
      BY <2>0, <2>1, <2>2, <3>1 DEF FullTable
    <3> DEFINE b == answer[seq_table[0]].label = 0
    <3>3. text' = <<[rec |-> seq_table[0], labelled |-> b]>>
      BY <1>8, <2>2 DEF assemble_jwt_from_dns
    <3> HIDE DEF b
    <3>4. Len(text') = 1 /\ text'[1].rec = 1
      BY <3>1, <3>3
    <3>5. TxtRecs' = {text'[s].rec : s \in 1..Len(text')}
      BY <2>1, <3>1, <3>4
    <3>6. answer[1].label \in {0, NO_LABEL}
      BY <3>2 DEF Num
    <3> QED BY <2>0, <2>00, <2>1, <3>4, <3>5, <3>6 DEF TableInv, FullTable, CompleteJwt
  <2>3. CASE seq_table[0] = 0
    <3>1. \A s \in 1..Len(answer) : seq_table[s] \in 1..Len(answer) /\ answer[seq_table[s]].label = s
      BY <1>8, <2>0, <2>3, SlotsFilled DEF assemble_jwt_from_dns
    <3>2. text' = [s \in 1..Len(answer) |-> [rec |-> seq_table[s], labelled |-> FALSE]]
      BY <1>8, <2>1, <2>3 DEF assemble_jwt_from_dns, Piece
    <3>3. Len(text') = Len(answer) /\ \A s \in 1..Len(answer) : text'[s].rec = seq_table[s]
      BY <3>2
    <3>4. \A s \in 1..Len(answer) : ~text'[s].labelled
      BY <3>2
    <3>5. ASSUME NEW k \in 1..Len(answer) PROVE \E s \in 1..Len(answer) : seq_table[s] = k
      <4>1. Num(k) \in 0..Len(answer) /\ seq_table[Num(k)] = k
        BY <2>0, <2>1 DEF FullTable
      <4> QED BY <4>1, <2>3
    <3>6. TxtRecs' = {text'[s].rec : s \in 1..Len(text')}
      <4>1. {text'[s].rec : s \in 1..Len(text')} = {seq_table[s] : s \in 1..Len(answer)}
        BY <3>3
      <4>2. {seq_table[s] : s \in 1..Len(answer)} = 1..Len(answer)
        <5> DEFINE N == 1..Len(answer)
        <5>1. \A s \in N : seq_table[s] \in N
          BY <3>1
        <5>2. \A k \in N : \E s \in N : seq_table[s] = k
          BY <3>5
        <5> HIDE DEF N
        <5>3. {seq_table[s] : s \in N} = N
          BY ONLY <5>1, <5>2, ImageIsAll, Zenon
        <5> QED BY <5>3, Zenon DEF N
      <4> QED BY <4>1, <4>2, <2>1
    <3> QED BY <2>0, <2>00, <2>1, <3>1, <3>3, <3>4, <3>6 DEF TableInv, FullTable, CompleteJwt
  <2> QED BY <2>2, <2>3
<1>9. CASE cjwt_decode \/ allow_insecure_conn
  <2>1. UNCHANGED <<answer, text>> /\ pc' \notin {"query", "scan", "decode"} /\ pc \in {"decode", "analyze"}
    BY <1>9 DEF cjwt_decode, allow_insecure_conn
  <2>2. CompleteJwt'
    BY <1>0, <2>1 DEF TableInv, CompleteJwt
  <2> QED BY <1>0, <2>1, <2>2 DEF TableInv, FullTable
<1>10. CASE LookupAgain
  <2>1. answer' = <<>> /\ num_txt_recs' = 0 /\ pc' = "query"
    BY <1>10 DEF LookupAgain
  <2> QED BY <2>1 DEF TableInv, FullTable, CompleteJwt
<1>11. CASE UNCHANGED vars
  BY <1>0, <1>11 DEF vars, TableInv, FullTable, CompleteJwt, Num
<1> QED BY <1>2, <1>3, <1>4, <1>5, <1>6, <1>7, <1>8, <1>9, <1>10, <1>11 DEF Next

\* Where an answer holds only TXT records, the JWT decoded is made of all of them in
\* the order of their labels, however many records there may be and in whatever order
\* the resolver gives them; in any answer, only the last piece can be missing
\* (get_rr_seq_table, assemble_jwt_from_dns).
THEOREM LookupCompleteJwt == Spec => []CompleteJwt
<1>1. Init => TableInv
  BY DEF Init, TableInv, FullTable, CompleteJwt, num_rr_recs
<1>2. LInv /\ TableInv /\ [Next]_vars => TableInv'
  BY TableInvStep
<1>3. TableInv => CompleteJwt
  BY DEF TableInv
<1> QED BY <1>1, <1>2, <1>3, LInvInit, LInvStep, PTL DEF Spec
-----------------------------------------------------------------------------
\* The TXT records among the first n of the answer.
TxtUpTo(n) == {k \in 1..n : answer[k].txt}

\* The table after the records below i of any answer: the TXT records are in the slots
\* of their numbers, nothing else is, and their number is counted.
SlotInv ==
    pc = "scan" =>
        /\ num_txt_recs = Cardinality(TxtUpTo(i - 1))
        /\ \A k \in TxtUpTo(i - 1) : Num(k) \in 0..Len(answer) /\ seq_table[Num(k)] = k
        /\ \A s \in 0..MAX_RR_RECS :
             seq_table[s] # 0 => seq_table[s] \in TxtUpTo(i - 1) /\ Num(seq_table[s]) = s

\* Records with different numbers in 1..m are not more than m.
LEMMA NotMoreThanNumbers ==
  ASSUME NEW S, NEW m \in Nat, NEW f \in [S -> 1..m], \A k, l \in S : f[k] = f[l] => k = l
  PROVE  Cardinality(S) <= m
<1>1. f \in Injection(S, 1..m)
  BY Zenon DEF Injection, IsInjective
<1>2. IsFiniteSet(1..m) /\ Cardinality(1..m) = m
  BY FS_Interval
<1>3. Cardinality(S) <= Cardinality(1..m)
  BY <1>1, <1>2, FS_Injection, Zenon
<1> QED BY <1>2, <1>3

LEMMA FewTxt ==
  ASSUME NEW n \in Nat
  PROVE  IsFiniteSet(TxtUpTo(n)) /\ Cardinality(TxtUpTo(n)) \in Nat
<1>1. IsFiniteSet(1..n)
  BY FS_Interval
<1>2. TxtUpTo(n) \in SUBSET (1..n)
  BY DEF TxtUpTo
<1>3. IsFiniteSet(TxtUpTo(n))
  BY <1>1, <1>2, FS_Subset, Zenon
<1> QED BY <1>3, FS_CardinalityType, Zenon

\* What an answer with numbers from 1 up without a gap has.
LEMMA PublishedLabels ==
  ASSUME Published
  PROVE  /\ \A k \in TxtRecs : answer[k].label \in 1..Len(answer)
         /\ \A s \in 1..Len(answer) :
              (\E k \in TxtRecs : answer[k].label >= s) => \E k \in TxtRecs : answer[k].label = s
         /\ \A k, l \in TxtRecs : answer[k].label = answer[l].label => k = l
<1> DEFINE L == {answer[k].label : k \in TxtRecs}
           U == {s \in 1..Len(answer) : \E k \in TxtRecs : answer[k].label >= s}
<1>1. L = U /\ \A k, l \in TxtRecs : answer[k].label = answer[l].label => k = l
  BY DEF Published, num_rr_recs
<1>2. \A k \in TxtRecs : answer[k].label \in L
  OBVIOUS
<1>3. \A s \in U : s \in 1..Len(answer)
  OBVIOUS
<1>4. \A s \in 1..Len(answer) : (\E k \in TxtRecs : answer[k].label >= s) => s \in U
  OBVIOUS
<1>5. \A s \in L : \E k \in TxtRecs : answer[k].label = s
  OBVIOUS
<1> HIDE DEF L, U
<1> QED BY <1>1, <1>2, <1>3, <1>4, <1>5

\* The scan of such an answer refuses no record, and finds all of them.
LEMMA NothingRefused ==
  ASSUME LInv, SlotInv, Published, pc = "scan"
  PROVE  IF i <= num_rr_recs THEN answer[i].txt => ~BadRecord ELSE ~Incomplete
<1> DEFINE n == Len(answer)
<1>1. /\ n \in Nat /\ i \in 1..(n + 1) /\ n <= MAX_RR_RECS
      /\ seq_table \in [0..MAX_RR_RECS -> 0..(i - 1)]
  BY DEF LInv, TypeOK, num_rr_recs
<1>2. /\ num_txt_recs = Cardinality(TxtUpTo(i - 1))
      /\ \A k \in TxtUpTo(i - 1) : Num(k) \in 0..n /\ seq_table[Num(k)] = k
      /\ \A s \in 0..MAX_RR_RECS :
           seq_table[s] # 0 => seq_table[s] \in TxtUpTo(i - 1) /\ Num(seq_table[s]) = s
  BY DEF SlotInv
<1>3. \A k \in 1..n : answer[k].txt => k \in TxtRecs
  BY DEF TxtRecs, num_rr_recs
<1>4. \A k \in TxtUpTo(i - 1) : k \in TxtRecs /\ k < i
  BY <1>1 DEF TxtRecs, TxtUpTo, num_rr_recs
<1>5. /\ \A k \in TxtRecs : answer[k].label \in 1..n /\ Num(k) = answer[k].label
      /\ \A s \in 1..n :
           (\E k \in TxtRecs : answer[k].label >= s) => \E k \in TxtRecs : answer[k].label = s
      /\ \A k, l \in TxtRecs : answer[k].label = answer[l].label => k = l
  <2>1. \A k \in TxtRecs : answer[k].label \in 1..n
    BY PublishedLabels
  <2>2. \A k \in TxtRecs : Num(k) = answer[k].label
    BY <1>1, <2>1 DEF Num, NO_LABEL
  <2> QED BY <2>1, <2>2, PublishedLabels
<1>6. CASE i <= num_rr_recs
  <2>1. i \in 1..n
    BY <1>1, <1>6 DEF num_rr_recs
  <2>2. ASSUME answer[i].txt PROVE ~BadRecord
    <3>1. i \in TxtRecs /\ seq_num = Num(i) /\ Num(i) \in 1..n /\ Num(i) = answer[i].label
      BY <1>3, <1>5, <2>1, <2>2 DEF seq_num, Num
    <3>2. Num(i) \in 0..n /\ Num(i) \in 0..MAX_RR_RECS
      BY <1>1, <3>1
    <3>3. ASSUME seq_table[Num(i)] # 0 PROVE FALSE
      <4> DEFINE k == seq_table[Num(i)]
      <4>1. k \in TxtUpTo(i - 1) /\ Num(k) = Num(i)
        BY <1>2, <3>2, <3>3
      <4>2. k \in TxtRecs /\ k < i /\ answer[k].label = answer[i].label
        BY <1>4, <1>5, <3>1, <4>1
      <4>3. k = i
        BY <1>5, <3>1, <4>2
      <4> QED BY <1>1, <4>2, <4>3
    <3> QED BY <3>1, <3>2, <3>3 DEF BadRecord, num_rr_recs
  <2> QED BY <1>6, <2>2
<1>7. CASE ~(i <= num_rr_recs)
  <2>1. i = n + 1
    BY <1>1, <1>7 DEF num_rr_recs
  <2>2. TxtUpTo(i - 1) = TxtRecs
    BY <1>1, <2>1 DEF TxtUpTo, TxtRecs, num_rr_recs
  <2>3. seq_table[0] = 0
    <3>1. ASSUME seq_table[0] # 0 PROVE FALSE
      <4>1. seq_table[0] \in TxtRecs /\ Num(seq_table[0]) = 0
        BY <1>1, <1>2, <2>2, <3>1
      <4> QED BY <1>5, <4>1
    <3> QED BY <3>1
  <2>4. ASSUME NEW s \in 1..(num_txt_recs - 1) PROVE seq_table[s] # 0
    <3>1. num_txt_recs = Cardinality(TxtRecs) /\ num_txt_recs \in Nat /\ num_txt_recs <= n
      BY <1>1, <1>2, <2>1, <2>2 DEF LInv, TypeOK, num_rr_recs
    <3>2. s \in 1..n /\ s - 1 \in Nat /\ s < num_txt_recs
      BY <1>1, <3>1
    <3>3. CASE \E k \in TxtRecs : answer[k].label >= s
      <4>1. PICK k \in TxtRecs : answer[k].label = s
        BY <1>5, <3>2, <3>3
      <4>2. seq_table[s] = k /\ k \in 1..n
        BY <1>2, <1>5, <2>2, <4>1 DEF TxtRecs, num_rr_recs
      <4> QED BY <1>1, <4>2
    <3>4. CASE ~\E k \in TxtRecs : answer[k].label >= s
      <4> DEFINE f == [k \in TxtRecs |-> answer[k].label]
      <4>1. \A k \in TxtRecs : answer[k].label \in 1..(s - 1)
        BY <1>1, <1>5, <3>2, <3>4
      <4>2. f \in [TxtRecs -> 1..(s - 1)] /\ \A k, l \in TxtRecs : f[k] = f[l] => k = l
        BY <1>5, <4>1
      <4> HIDE DEF f
      <4>3. Cardinality(TxtRecs) <= s - 1
        BY <3>2, <4>2, NotMoreThanNumbers
      <4> QED BY <3>1, <3>2, <4>3
    <3> QED BY <3>3, <3>4
  <2>5. ~Incomplete
    BY <2>3, <2>4 DEF Incomplete
  <2> QED BY <1>7, <2>5
<1> QED BY <1>6, <1>7

\* Every step of a lookup keeps the slots right.
LEMMA SlotInvStep ==
  ASSUME LInv, SlotInv, [Next]_vars
  PROVE  SlotInv'
<1>1. ASSUME NEW a \in Answers, query_dns(a) PROVE SlotInv'
  <2>1. /\ i = 1 /\ i' = 1 /\ num_txt_recs \in 0..(i - 1) /\ num_txt_recs' = num_txt_recs
        /\ seq_table \in [0..MAX_RR_RECS -> 0..(i - 1)] /\ seq_table' = seq_table
    BY <1>1 DEF query_dns, LInv, TypeOK
  <2>2. num_txt_recs' = 0 /\ \A s \in 0..MAX_RR_RECS : seq_table'[s] = 0
    BY <2>1
  <2>3. TxtUpTo(i - 1)' = {}
    BY <2>1 DEF TxtUpTo
  <2>4. Cardinality(TxtUpTo(i - 1)') = 0
    BY <2>3, FS_EmptySet
  <2> QED BY <2>2, <2>3, <2>4 DEF SlotInv
<1>2. CASE SkipOtherType
  <2>1. /\ pc = "scan" /\ ~answer[i].txt /\ i' = i + 1
        /\ UNCHANGED <<answer, num_txt_recs, seq_table>> /\ i \in Nat /\ i >= 1
    BY <1>2 DEF SkipOtherType, Scanning, LInv, TypeOK, num_rr_recs
  <2>2. TxtUpTo(i - 1)' = TxtUpTo(i - 1)
    BY <2>1 DEF TxtUpTo
  <2>3. \A k : Num(k)' = Num(k)
    BY <2>1 DEF Num
  <2> QED BY <2>1, <2>2, <2>3 DEF SlotInv
<1>3. CASE ScanRecord
  <2>1. /\ pc = "scan" /\ answer[i].txt /\ i' = i + 1 /\ i \in 1..Len(answer)
        /\ UNCHANGED answer /\ num_txt_recs' = num_txt_recs + 1
        /\ seq_table' = [seq_table EXCEPT ![Num(i)] = i]
        /\ Num(i) \in 0..Len(answer) /\ seq_table[Num(i)] = 0
    BY <1>3 DEF ScanRecord, Scanning, BadRecord, seq_num, Num, LInv, TypeOK, num_rr_recs
  <2>2. /\ i \in Nat /\ i - 1 \in Nat /\ Len(answer) \in Nat /\ Len(answer) <= MAX_RR_RECS
        /\ seq_table \in [0..MAX_RR_RECS -> 0..(i - 1)]
    BY <2>1 DEF LInv, TypeOK, num_rr_recs
  <2> DEFINE T == TxtUpTo(i - 1)
             V == TxtUpTo(i - 1)'
  <2>3. V = T \cup {i} /\ i \notin T /\ \A k \in T : k \in 1..(i - 1)
    BY <2>1, <2>2 DEF TxtUpTo
  <2>4. IsFiniteSet(T) /\ Cardinality(T) \in Nat
    BY <2>2, FewTxt
  <2>5. \A k : Num(k)' = Num(k)
    BY <2>1 DEF Num
  <2>6. /\ num_txt_recs = Cardinality(T)
        /\ \A k \in T : Num(k) \in 0..Len(answer) /\ seq_table[Num(k)] = k
        /\ \A s \in 0..MAX_RR_RECS :
             seq_table[s] # 0 => seq_table[s] \in T /\ Num(seq_table[s]) = s
    BY <2>1 DEF SlotInv
  <2> HIDE DEF T, V
  <2>7. Cardinality(V) = Cardinality(T) + 1
    BY <2>3, <2>4, FS_AddElement
  <2>8. ASSUME NEW k \in V PROVE Num(k) \in 0..Len(answer) /\ seq_table'[Num(k)] = k
    <3>1. CASE k = i
      BY <2>1, <2>2, <3>1
    <3>2. CASE k \in T
      <4>1. Num(k) \in 0..Len(answer) /\ seq_table[Num(k)] = k /\ k # 0
        BY <2>2, <2>3, <2>6, <3>2
      <4>2. Num(k) # Num(i)
        BY <2>1, <4>1
      <4> QED BY <2>1, <2>2, <4>1, <4>2
    <3> QED BY <2>3, <3>1, <3>2
  <2>9. ASSUME NEW s \in 0..MAX_RR_RECS, seq_table'[s] # 0
        PROVE  seq_table'[s] \in V /\ Num(seq_table'[s]) = s
    <3>1. CASE s = Num(i)
      BY <2>1, <2>2, <2>3, <3>1
    <3>2. CASE s # Num(i)
      <4>1. seq_table'[s] = seq_table[s]
        BY <2>1, <2>2, <3>2
      <4> QED BY <2>3, <2>6, <2>9, <4>1
    <3> QED BY <3>1, <3>2
  <2>10. num_txt_recs' = Cardinality(V)
    BY <2>1, <2>4, <2>6, <2>7
  <2> QED BY <2>1, <2>5, <2>8, <2>9, <2>10 DEF SlotInv, V
<1>4. CASE UNCHANGED vars
  BY <1>4 DEF vars, SlotInv, TxtUpTo, Num
<1>5. ASSUME pc' # "scan" PROVE SlotInv'
  BY <1>5 DEF SlotInv
<1>6. CASE \/ query_dns_fails \/ ns_parserr_fails \/ RejectRecord \/ RejectAnswer
           \/ assemble_jwt_from_dns \/ cjwt_fails \/ cjwt_decode \/ allow_insecure_conn
           \/ LookupAgain
  <2>1. pc' # "scan"
    BY <1>6 DEF query_dns_fails, ns_parserr_fails, RejectRecord, RejectAnswer, Fail, LibraryFails, Refuse,
                assemble_jwt_from_dns, cjwt_fails, cjwt_decode, allow_insecure_conn, LookupAgain
  <2> QED BY <1>5, <2>1
<1> QED BY <1>1, <1>2, <1>3, <1>4, <1>6 DEF Next

\* An answer whose TXT records are numbered from 1 up without a gap is refused only if
\* it has more than MAX_RR_RECS records (query_dns); up to that number the scan refuses
\* none of them and finds them all, in any order and with any other records among them
\* (get_rr_seq_table).
THEOREM LookupUsesWholeAnswer == Spec => []WholeAnswerUsed
<1> DEFINE RInv == WholeAnswerUsed /\ (pc # "done" => ~refused)
<1>1. Init => SlotInv /\ RInv
  BY DEF Init, SlotInv, WholeAnswerUsed
<1>2. LInv /\ SlotInv /\ [Next]_vars => SlotInv'
  BY SlotInvStep
<1>3. LInv /\ SlotInv /\ RInv /\ [Next]_vars => RInv'
  <2> SUFFICES ASSUME LInv, SlotInv, RInv, [Next]_vars PROVE RInv'
    OBVIOUS
  <2>1. ASSUME ~refused' PROVE RInv'
    BY <2>1 DEF WholeAnswerUsed
  <2>2. ASSUME NEW a \in Answers, query_dns(a) PROVE RInv'
    <3>1. CASE Len(a) > MAX_RR_RECS
      <4>1. pc' = "done" /\ num_rr_recs' > MAX_RR_RECS
        BY <2>2, <3>1 DEF query_dns, num_rr_recs
      <4> QED BY <4>1 DEF WholeAnswerUsed
    <3>2. CASE ~(Len(a) > MAX_RR_RECS)
      <4>1. ~refused'
        BY <2>2, <3>2 DEF query_dns
      <4> QED BY <2>1, <4>1
    <3> QED BY <3>1, <3>2
  <2>3. CASE RejectRecord \/ RejectAnswer
    <3>1. /\ pc = "scan" /\ pc' = "done" /\ answer' = answer
          /\ ~(IF i <= num_rr_recs THEN answer[i].txt => ~BadRecord ELSE ~Incomplete)
      BY <2>3 DEF RejectRecord, RejectAnswer, Scanning, Scanned, Refuse, Fail, LInv, TypeOK,
                  num_rr_recs
    <3>2. ~Published
      BY <3>1, NothingRefused, Zenon
    <3>3. ~Published'
      BY <3>1, <3>2 DEF Published, TxtRecs, num_rr_recs
    <3> QED BY <3>1, <3>3, Zenon DEF WholeAnswerUsed
  <2>4. CASE \/ query_dns_fails \/ ns_parserr_fails \/ SkipOtherType \/ ScanRecord
             \/ assemble_jwt_from_dns \/ cjwt_fails \/ cjwt_decode \/ allow_insecure_conn
             \/ LookupAgain
    <3>1. ~refused'
      BY <2>4 DEF query_dns_fails, ns_parserr_fails, SkipOtherType, ScanRecord, Scanning, Scanned,
           assemble_jwt_from_dns, cjwt_fails, cjwt_decode, allow_insecure_conn, LookupAgain,
           LibraryFails
    <3> QED BY <2>1, <3>1
  <2>5. CASE UNCHANGED vars
    <3>1. UNCHANGED <<pc, answer, refused>>
      BY <2>5 DEF vars
    <3>2. Published' = Published /\ num_rr_recs' = num_rr_recs
      BY <3>1 DEF Published, TxtRecs, num_rr_recs
    <3> QED BY <3>1, <3>2, Zenon DEF WholeAnswerUsed
  <2> QED BY <2>2, <2>3, <2>4, <2>5 DEF Next
<1>4. RInv => WholeAnswerUsed
  OBVIOUS
<1> QED BY <1>1, <1>2, <1>3, <1>4, LInvInit, LInvStep, PTL DEF Spec
-----------------------------------------------------------------------------
(* The command line (Config)                                                *)

AllOptions == Options \cup Alone

-----------------------------------------------------------------------------
(* Numbers: what a text of digits is read as                                *)

\* A set of natural numbers that is not empty has a least one.
LEMMA Least ==
  ASSUME NEW T, T \subseteq Nat, T # {}
  PROVE  \E x \in T : \A y \in T : x <= y
  <1> DEFINE R == OpToRel(<, Nat)
  <1>1. IsWellFoundedOn(R, Nat) BY NatLessThanWellFounded
  <1>2. \A x, y \in Nat : <<y, x>> \in R <=> y < x BY DEF OpToRel
  <1> HIDE DEF R
  <1>3. PICK x \in T : \A y \in T : ~(<<y, x>> \in R) BY <1>1, WFMin
  <1>4. \A y \in T : x \in Nat /\ y \in Nat /\ ~(y < x) BY <1>2, <1>3
  <1> QED BY <1>4

\* What holds of 0 and, with a number, of the next one, holds of all.
LEMMA NoLeastLeft ==
  ASSUME NEW T, T \subseteq Nat, 0 \in T, \A n \in T : n + 1 \in T
  PROVE  T = Nat
  <1> SUFFICES ASSUME Nat \ T # {} PROVE FALSE OBVIOUS
  <1>1. PICK x \in Nat \ T : \A y \in Nat \ T : x <= y BY Least
  <1>2. x # 0 /\ x - 1 \in Nat BY <1>1
  <1>3. x - 1 \in T BY <1>1, <1>2
  <1>4. (x - 1) + 1 = x BY <1>1
  <1> QED BY <1>1, <1>3, <1>4

\* A digit has a value from 0 to 9, and only "0" the value 0.
LEMMA DigitValue ==
  ASSUME NEW c \in Cfg!Range(Cfg!Digits)
  PROVE  Cfg!Value(c) \in 0..9 /\ (c # "0" => Cfg!Value(c) # 0)
  <1>1. \E k \in 1..10 : Cfg!Digits[k] = c BY DEF Cfg!Range, Cfg!Digits
  <1>2. PICK v : v = CHOOSE k \in 1..10 : Cfg!Digits[k] = c OBVIOUS
  <1>3. v \in 1..10 /\ Cfg!Digits[v] = c BY <1>1, <1>2
  <1>4. Cfg!Value(c) = v - 1 BY <1>2 DEF Cfg!Value
  <1>5. c # "0" => v # 1 BY <1>3 DEF Cfg!Digits
  <1> QED BY <1>3, <1>4, <1>5

\* f holds the numbers that the beginnings of t are written as.
Sums(t, f) ==
    f = [k \in 0..Len(t) |-> IF k = 0 THEN 0 ELSE f[k - 1] * 10 + Cfg!Value(t[k])]

\* g holds what is left of them in an unsigned int.
Rests(t, g) ==
    g = [k \in 0..Len(t) |->
           IF k = 0 THEN 0 ELSE (g[k - 1] * 10 + Cfg!Value(t[k])) % 2 ^ UIntBits]

\* There are such sums, however long the text is.
LEMMA SumsExist == ASSUME NEW t, Len(t) \in Nat PROVE \E f : Sums(t, f)
  <1> DEFINE Upto(n, f) ==
        f = [k \in 0..n |-> IF k = 0 THEN 0 ELSE f[k - 1] * 10 + Cfg!Value(t[k])]
      T == {n \in Nat : \E f : Upto(n, f)}
  <1>1. 0 \in T
    <2> DEFINE f == [k \in 0..0 |-> 0]
    <2>1. Upto(0, f) OBVIOUS
    <2> HIDE DEF Upto
    <2> QED BY <2>1
  <1>2. ASSUME NEW n \in T PROVE n + 1 \in T
    <2>1. PICK f : Upto(n, f) OBVIOUS
    <2>2. PICK h : h = [k \in 0..(n + 1) |-> IF k = 0 THEN 0 ELSE f[k - 1] * 10 + Cfg!Value(t[k])]
      OBVIOUS
    <2>3. \A k \in 0..n : f[k] = h[k]
      <3> SUFFICES ASSUME NEW k \in 0..n PROVE f[k] = h[k] OBVIOUS
      <3>1. f[k] = IF k = 0 THEN 0 ELSE f[k - 1] * 10 + Cfg!Value(t[k]) BY <2>1
      <3>2. k \in 0..(n + 1) OBVIOUS
      <3> QED BY <2>2, <3>1, <3>2
    <2>4. \A k \in 0..(n + 1) : k # 0 => f[k - 1] = h[k - 1] BY <2>3
    <2>5. Upto(n + 1, h) BY <2>2, <2>4
    <2> HIDE DEF Upto
    <2> QED BY <2>5
  <1> HIDE DEF Upto
  <1>3. T = Nat BY <1>1, <1>2, NoLeastLeft
  <1>4. PICK f : Upto(Len(t), f) BY <1>3
  <1> QED BY <1>4 DEF Sums, Upto

\* The same for what is left of them.
LEMMA RestsExist == ASSUME NEW t, Len(t) \in Nat PROVE \E g : Rests(t, g)
  <1> DEFINE Upto(n, g) ==
        g = [k \in 0..n |->
               IF k = 0 THEN 0 ELSE (g[k - 1] * 10 + Cfg!Value(t[k])) % 2 ^ UIntBits]
      T == {n \in Nat : \E g : Upto(n, g)}
  <1>1. 0 \in T
    <2> DEFINE g == [k \in 0..0 |-> 0]
    <2>1. Upto(0, g) OBVIOUS
    <2> HIDE DEF Upto
    <2> QED BY <2>1
  <1>2. ASSUME NEW n \in T PROVE n + 1 \in T
    <2>1. PICK g : Upto(n, g) OBVIOUS
    <2>2. PICK h : h = [k \in 0..(n + 1) |->
                          IF k = 0 THEN 0 ELSE (g[k - 1] * 10 + Cfg!Value(t[k])) % 2 ^ UIntBits]
      OBVIOUS
    <2>3. \A k \in 0..n : g[k] = h[k]
      <3> SUFFICES ASSUME NEW k \in 0..n PROVE g[k] = h[k] OBVIOUS
      <3>1. g[k] = IF k = 0 THEN 0 ELSE (g[k - 1] * 10 + Cfg!Value(t[k])) % 2 ^ UIntBits BY <2>1
      <3>2. k \in 0..(n + 1) OBVIOUS
      <3> QED BY <2>2, <3>1, <3>2
    <2>4. \A k \in 0..(n + 1) : k # 0 => g[k - 1] = h[k - 1] BY <2>3
    <2>5. Upto(n + 1, h) BY <2>2, <2>4
    <2> HIDE DEF Upto
    <2> QED BY <2>5
  <1> HIDE DEF Upto
  <1>3. T = Nat BY <1>1, <1>2, NoLeastLeft
  <1>4. PICK g : Upto(Len(t), g) BY <1>3
  <1> QED BY <1>4 DEF Rests, Upto

\* Both readings of a number are the last of such sums.
LEMMA LastSum ==
  ASSUME NEW t \in Seq(Chars), Cfg!IsNumber(t)
  PROVE  /\ \E f : Sums(t, f) /\ Cfg!Written(t) = f[Len(t)]
         /\ \E g : Rests(t, g) /\ Cfg!parse_num_arg(t) = g[Len(t)]
  <1>0. Len(t) \in Nat OBVIOUS
  <1>1. PICK f : f = CHOOSE x : Sums(t, x) OBVIOUS
  <1>2. Sums(t, f) BY <1>0, <1>1, SumsExist, Zenon
  <1>3. Cfg!Written(t) = f[Len(t)] BY <1>1, Zenon DEF Sums, Cfg!Written
  <1>4. PICK g : g = CHOOSE x : Rests(t, x) OBVIOUS
  <1>5. Rests(t, g) BY <1>0, <1>4, RestsExist, Zenon
  <1>6. t # <<>> /\ \A k \in 1..Len(t) : t[k] \in Cfg!Range(Cfg!Digits)
    BY DEF Cfg!IsNumber, Cfg!Range
  <1>7. Cfg!parse_num_arg(t) = g[Len(t)] BY <1>4, <1>6, Zenon DEF Rests, Cfg!parse_num_arg
  <1> QED BY <1>2, <1>3, <1>5, <1>7, Zenon

\* The sums one by one.
LEMMA SumSteps ==
  ASSUME NEW t \in Seq(Chars), Cfg!IsNumber(t), NEW f, Sums(t, f)
  PROVE  /\ f[0] = 0 /\ \A k \in 0..Len(t) : f[k] \in Nat
         /\ \A k \in 1..Len(t) : /\ f[k] = f[k - 1] * 10 + Cfg!Value(t[k])
                                 /\ Cfg!Value(t[k]) \in 0..9
                                 /\ t[k] # "0" => Cfg!Value(t[k]) # 0
  <1>0. PICK L \in Nat : L = Len(t) OBVIOUS
  <1>1. f[0] = 0 BY <1>0 DEF Sums
  <1>2. \A k \in 1..L : f[k] = f[k - 1] * 10 + Cfg!Value(t[k]) BY <1>0 DEF Sums
  <1>3. \A k \in 1..L : t[k] \in Cfg!Range(Cfg!Digits)
    <2> SUFFICES ASSUME NEW k \in 1..L PROVE t[k] \in Cfg!Range(Cfg!Digits) OBVIOUS
    <2>1. t[k] \in Cfg!Range(t) BY <1>0 DEF Cfg!Range
    <2> QED BY <2>1, Zenon DEF Cfg!IsNumber
  <1>4. \A k \in 1..L : Cfg!Value(t[k]) \in 0..9 /\ (t[k] # "0" => Cfg!Value(t[k]) # 0)
    BY <1>3, DigitValue
  <1> DEFINE T == {n \in Nat : n \in 0..L => f[n] \in Nat}
  <1>5. 0 \in T BY <1>1
  <1>6. ASSUME NEW n \in T PROVE n + 1 \in T
    <2> SUFFICES ASSUME n + 1 \in 0..L PROVE f[n + 1] \in Nat OBVIOUS
    <2>1. n + 1 \in 1..L /\ (n + 1) - 1 = n /\ f[n] \in Nat BY <1>0
    <2>2. PICK j : j = n + 1 OBVIOUS
    <2>3. f[j] = f[n] * 10 + Cfg!Value(t[j]) BY <1>2, <2>1, <2>2
    <2>4. Cfg!Value(t[j]) \in 0..9 BY <1>4, <2>1, <2>2
    <2> QED BY <2>1, <2>2, <2>3, <2>4
  <1> HIDE DEF T
  <1>7. T = Nat BY <1>5, <1>6, NoLeastLeft DEF T
  <1>8. \A k \in 0..L : f[k] \in Nat BY <1>0, <1>7 DEF T
  <1> QED BY <1>0, <1>1, <1>2, <1>4, <1>8

\* A digit more, before or after the remainder is taken.
LEMMA ModStep ==
  ASSUME NEW M \in Nat, M > 0, NEW a \in Nat, NEW v \in Nat
  PROVE  ((a % M) * 10 + v) % M = (a * 10 + v) % M
  <1>0. \A n \in Nat : \E q, r \in Nat : n = q * M + r /\ r = n % M /\ r < M
    <2> SUFFICES ASSUME NEW n \in Nat PROVE \E q, r \in Nat : n = q * M + r /\ r = n % M /\ r < M
      OBVIOUS
    <2>1. PICK q, r \in Nat : q = n \div M /\ r = n % M OBVIOUS
    <2>2. r < M BY <2>1
    <2>3. n = M * q + r BY <2>1
    <2>4. M * q = q * M OBVIOUS
    <2>5. n = q * M + r BY <2>3, <2>4
    <2> QED BY <2>1, <2>2, <2>5
  <1>1. PICK q, r \in Nat : a = q * M + r /\ r = a % M /\ r < M BY <1>0
  <1>2. PICK b \in Nat : b = r * 10 + v OBVIOUS
  <1>3. PICK p, s \in Nat : b = p * M + s /\ s = b % M /\ s < M BY <1>0
  <1>4. PICK x \in Nat : x = a * 10 + v OBVIOUS
  <1>5. x = (q * 10 + p) * M + s
    <2>1. (q * 10 + p) * M = (q * M) * 10 + p * M OBVIOUS
    <2>2. PICK y, z \in Nat : y = q * M /\ z = p * M OBVIOUS
    <2>3. a = y + r /\ b = z + s BY <1>1, <1>3, <2>2
    <2>4. x = (y * 10 + z) + s BY ONLY <1>2, <1>4, <2>3, a \in Nat, r \in Nat, y \in Nat, z \in Nat, s \in Nat, b \in Nat, v \in Nat
    <2> QED BY <2>1, <2>2, <2>4
  <1>6. PICK w \in Nat : w = q * 10 + p OBVIOUS
  <1>7. x = w * M + s BY <1>5, <1>6
  <1>8. x % M = s BY <1>3, <1>7
  <1> QED BY <1>1, <1>2, <1>3, <1>4, <1>8

\* A text is read digit by digit into an unsigned int (parse_num_arg), which keeps what
\* it can of the number the text is.
LEMMA NumberRead ==
  ASSUME Cfg!WideEnough, NEW t \in Seq(Chars)
  PROVE  Cfg!parse_num_arg(t) = IF Cfg!IsNumber(t) THEN Cfg!Kept(t) ELSE Cfg!NoNumber
  <1>0. PICK L \in Nat : L = Len(t) OBVIOUS
  <1>1. CASE ~Cfg!IsNumber(t)
    <2>1. t = <<>> \/ \E k \in 1..Len(t) : t[k] \notin Cfg!Range(Cfg!Digits)
      BY <1>1 DEF Cfg!IsNumber, Cfg!Range
    <2> QED BY <1>1, <2>1, Zenon DEF Cfg!parse_num_arg
  <1>2. CASE Cfg!IsNumber(t)
    <2>1. PICK f : Sums(t, f) /\ Cfg!Written(t) = f[L] BY <1>0, <1>2, LastSum, Zenon
    <2>2. PICK g : Rests(t, g) /\ Cfg!parse_num_arg(t) = g[L] BY <1>0, <1>2, LastSum, Zenon
    <2>3. PICK M \in Nat : M = 2 ^ UIntBits BY DEF Cfg!WideEnough
    <2>4. M > 0 BY <2>3 DEF Cfg!WideEnough
    <2>5. f[0] = 0 /\ \A k \in 0..L : f[k] \in Nat BY <1>0, <1>2, <2>1, SumSteps
    <2>6. \A k \in 1..L : f[k] = f[k - 1] * 10 + Cfg!Value(t[k]) /\ Cfg!Value(t[k]) \in Nat
      <3>1. \A k \in 1..L : f[k] = f[k - 1] * 10 + Cfg!Value(t[k]) /\ Cfg!Value(t[k]) \in 0..9
        BY <1>0, <1>2, <2>1, SumSteps, Zenon
      <3>2. \A v : v \in 0..9 => v \in Nat BY ONLY SMT
      <3> QED BY <3>1, <3>2, Zenon
    <2>7. g[0] = 0 BY <1>0, <2>2 DEF Rests
    <2>8. \A k \in 1..L : g[k] = (g[k - 1] * 10 + Cfg!Value(t[k])) % M
      BY <1>0, <2>2, <2>3 DEF Rests
    <2> DEFINE T == {n \in Nat : n \in 0..L => g[n] = f[n] % M}
    <2>9. 0 \in T BY <2>4, <2>5, <2>7
    <2>10. ASSUME NEW n \in T PROVE n + 1 \in T
      <3> SUFFICES ASSUME n + 1 \in 0..L PROVE g[n + 1] = f[n + 1] % M OBVIOUS
      <3>1. n + 1 \in 1..L /\ (n + 1) - 1 = n /\ n \in 0..L BY <1>0
      <3>2. g[n] = f[n] % M /\ f[n] \in Nat BY <2>5, <3>1
      <3>3. PICK j : j = n + 1 OBVIOUS
      <3>4. PICK v \in Nat : v = Cfg!Value(t[j]) BY <2>6, <3>1, <3>3
      <3>5. f[j] = f[n] * 10 + v /\ g[j] = (g[n] * 10 + v) % M BY <2>6, <2>8, <3>1, <3>3, <3>4
      <3>6. ((f[n] % M) * 10 + v) % M = (f[n] * 10 + v) % M BY <2>4, <3>2, ModStep
      <3> QED BY <3>2, <3>3, <3>5, <3>6
    <2> HIDE DEF T
    <2>11. T = Nat BY <2>9, <2>10, NoLeastLeft DEF T
    <2>12. g[L] = f[L] % M BY <1>0, <2>11 DEF T
    <2> QED BY <1>2, <2>1, <2>2, <2>3, <2>12 DEF Cfg!Kept
  <1> QED BY <1>1, <1>2

\* A number of up to seven digits is less than 10000000, and one of seven or more whose
\* first two are not both "0" is too large for a port.
TenMillion == 10000000

LEMMA NumberSize ==
  ASSUME NEW t \in Seq(Chars), Cfg!IsNumber(t)
  PROVE  /\ Cfg!Written(t) \in Nat
         /\ Len(t) <= 7 => Cfg!Written(t) < TenMillion
         /\ Len(t) >= 7 /\ (t[1] # "0" \/ t[2] # "0") => Cfg!Written(t) > Cfg!MaxPort
  <1>0. PICK L \in Nat : L = Len(t) OBVIOUS
  <1>1. PICK f : Sums(t, f) /\ Cfg!Written(t) = f[L] BY <1>0, LastSum, Zenon
  <1>2. f[0] = 0 /\ \A k \in 0..L : f[k] \in Nat BY <1>0, <1>1, SumSteps
  <1>3. \A k \in 1..L : /\ f[k] = f[k - 1] * 10 + Cfg!Value(t[k])
                       /\ Cfg!Value(t[k]) \in 0..9 /\ (t[k] # "0" => Cfg!Value(t[k]) # 0)
    BY <1>0, <1>1, SumSteps, Zenon
  <1>4. \A j, k \in 0..L : k = j + 1 => f[k] <= f[j] * 10 + 9 /\ f[k] >= f[j] * 10
    <2> SUFFICES ASSUME NEW j \in 0..L, NEW k \in 0..L, k = j + 1
                 PROVE  f[k] <= f[j] * 10 + 9 /\ f[k] >= f[j] * 10
      OBVIOUS
    <2>1. k \in 1..L /\ k - 1 = j BY <1>0
    <2>2. PICK a \in Nat : a = f[j] BY <1>2
    <2>3. PICK v \in 0..9 : v = Cfg!Value(t[k]) BY <1>3, <2>1
    <2>4. PICK b \in Nat : b = f[k] BY <1>2
    <2>5. b = a * 10 + v BY <1>3, <2>1, <2>2, <2>3, <2>4
    <2>6. b <= a * 10 + 9 /\ b >= a * 10 BY <2>5
    <2> QED BY <2>2, <2>4, <2>6
  <1>5. 1 = 0 + 1 /\ 2 = 1 + 1 /\ 3 = 2 + 1 /\ 4 = 3 + 1 /\ 5 = 4 + 1 /\ 6 = 5 + 1 /\ 7 = 6 + 1
    OBVIOUS
  <1>6. ASSUME L >= 1
        PROVE  f[0] \in Nat /\ f[1] \in Nat
               /\ f[1] <= f[0] * 10 + 9 /\ f[1] >= f[0] * 10
    <2>1. 0 \in 0..L /\ 1 \in 0..L BY <1>6, SMT
    <2> QED BY <1>2, <1>4, <1>5, <2>1, Zenon
  <1>7. ASSUME L >= 2
        PROVE  f[1] \in Nat /\ f[2] \in Nat
               /\ f[2] <= f[1] * 10 + 9 /\ f[2] >= f[1] * 10
    <2>1. 1 \in 0..L /\ 2 \in 0..L BY <1>7, SMT
    <2> QED BY <1>2, <1>4, <1>5, <2>1, Zenon
  <1>8. ASSUME L >= 3
        PROVE  f[2] \in Nat /\ f[3] \in Nat
               /\ f[3] <= f[2] * 10 + 9 /\ f[3] >= f[2] * 10
    <2>1. 2 \in 0..L /\ 3 \in 0..L BY <1>8, SMT
    <2> QED BY <1>2, <1>4, <1>5, <2>1, Zenon
  <1>9. ASSUME L >= 4
        PROVE  f[3] \in Nat /\ f[4] \in Nat
               /\ f[4] <= f[3] * 10 + 9 /\ f[4] >= f[3] * 10
    <2>1. 3 \in 0..L /\ 4 \in 0..L BY <1>9, SMT
    <2> QED BY <1>2, <1>4, <1>5, <2>1, Zenon
  <1>10. ASSUME L >= 5
        PROVE  f[4] \in Nat /\ f[5] \in Nat
               /\ f[5] <= f[4] * 10 + 9 /\ f[5] >= f[4] * 10
    <2>1. 4 \in 0..L /\ 5 \in 0..L BY <1>10, SMT
    <2> QED BY <1>2, <1>4, <1>5, <2>1, Zenon
  <1>11. ASSUME L >= 6
        PROVE  f[5] \in Nat /\ f[6] \in Nat
               /\ f[6] <= f[5] * 10 + 9 /\ f[6] >= f[5] * 10
    <2>1. 5 \in 0..L /\ 6 \in 0..L BY <1>11, SMT
    <2> QED BY <1>2, <1>4, <1>5, <2>1, Zenon
  <1>12. ASSUME L >= 7
        PROVE  f[6] \in Nat /\ f[7] \in Nat
               /\ f[7] <= f[6] * 10 + 9 /\ f[7] >= f[6] * 10
    <2>1. 6 \in 0..L /\ 7 \in 0..L BY <1>12, SMT
    <2> QED BY <1>2, <1>4, <1>5, <2>1, Zenon
  <1>13. ASSUME L <= 7 PROVE f[L] < 10000000
    <2>1. L >= 1 => f[1] <= 9 BY <1>2, <1>6, SMT
    <2>2. L >= 2 => f[2] <= 99 BY <1>2, <1>6, <1>7, <2>1, SMT
    <2>3. L >= 3 => f[3] <= 999 BY <1>2, <1>7, <1>8, <2>2, SMT
    <2>4. L >= 4 => f[4] <= 9999 BY <1>2, <1>8, <1>9, <2>3, SMT
    <2>5. L >= 5 => f[5] <= 99999 BY <1>2, <1>9, <1>10, <2>4, SMT
    <2>6. L >= 6 => f[6] <= 999999 BY <1>2, <1>10, <1>11, <2>5, SMT
    <2>7. L >= 7 => f[7] <= 9999999 BY <1>2, <1>11, <1>12, <2>6, SMT
    <2>8. L \in 0..7 BY <1>13, SMT
    <2>9. f[L] \in Nat BY <1>0, <1>2, SMT
    <2>10. f[L] <= 9999999
      <3>1. L = 0 => f[L] <= 9999999 BY <1>2, SMT
      <3>2. L = 1 => f[L] <= 9999999 BY <1>2, <2>1, SMT
      <3>3. L = 2 => f[L] <= 9999999 BY <1>2, <2>2, SMT
      <3>4. L = 3 => f[L] <= 9999999 BY <1>2, <2>3, SMT
      <3>5. L = 4 => f[L] <= 9999999 BY <1>2, <2>4, SMT
      <3>6. L = 5 => f[L] <= 9999999 BY <1>2, <2>5, SMT
      <3>7. L = 6 => f[L] <= 9999999 BY <1>2, <2>6, SMT
      <3>8. L = 7 => f[L] <= 9999999 BY <1>2, <2>7, SMT
      <3> QED BY <2>8, <3>1, <3>2, <3>3, <3>4, <3>5, <3>6, <3>7, <3>8, SMT
    <2> QED BY <2>9, <2>10, SMT
  <1>14. ASSUME L >= 7, t[1] # "0" \/ t[2] # "0" PROVE f[L] > 65535
    <2>1. f[2] >= 1
      <3>1. 1 \in 1..L /\ 2 \in 1..L /\ 1 - 1 = 0 /\ 2 - 1 = 1 BY <1>14
      <3>2. PICK v \in 0..9 : v = Cfg!Value(t[1]) BY <1>3, <3>1
      <3>3. PICK w \in 0..9 : w = Cfg!Value(t[2]) BY <1>3, <3>1
      <3>4. v # 0 \/ w # 0 BY <1>3, <1>14, <3>1, <3>2, <3>3
      <3>5. f[1] = f[0] * 10 + v BY <1>3, <3>1, <3>2, Zenon
      <3>6. f[2] = f[1] * 10 + w BY <1>3, <3>1, <3>3, Zenon
      <3> QED BY <1>2, <3>4, <3>5, <3>6
    <2>2. f[3] >= 10 BY <1>14, <1>8, <2>1, SMT
    <2>3. f[4] >= 100 BY <1>14, <1>9, <2>2, SMT
    <2>4. f[5] >= 1000 BY <1>14, <1>10, <2>3, SMT
    <2>5. f[6] >= 10000 BY <1>14, <1>11, <2>4, SMT
    <2>6. f[7] >= 100000 BY <1>14, <1>12, <2>5, SMT
    <2> DEFINE T == {n \in Nat : n + 7 \in 0..L => f[n + 7] >= 100000}
    <2>7. 0 \in T BY <2>6
    <2>8. ASSUME NEW n \in T PROVE n + 1 \in T
      <3> SUFFICES ASSUME (n + 1) + 7 \in 0..L PROVE f[(n + 1) + 7] >= 100000 OBVIOUS
      <3>1. PICK j \in 1..L : j = (n + 1) + 7 BY <1>0
      <3>2. j - 1 = n + 7 /\ n + 7 \in 0..L BY <1>0, <3>1
      <3>3. PICK a \in Nat : a = f[n + 7] BY <1>2, <3>2
      <3>4. a >= 100000 BY <3>2, <3>3
      <3>5. PICK b \in Nat : b = f[j] BY <1>2, <3>1
      <3>6. b >= a * 10 BY <1>4, <3>1, <3>2, <3>3, <3>5
      <3> QED BY <3>1, <3>4, <3>5, <3>6
    <2> HIDE DEF T
    <2>9. T = Nat
      <3>1. T \subseteq Nat BY DEF T
      <3> QED BY <2>7, <2>8, <3>1, NoLeastLeft
    <2>10. PICK m \in Nat : m + 7 = L
      <3>1. L - 7 \in Nat /\ (L - 7) + 7 = L BY <1>0, <1>14
      <3> QED BY <3>1
    <2>11. m \in T BY <2>9, <2>10
    <2>12. f[L] >= 100000 BY <1>0, <2>10, <2>11 DEF T
    <2> QED BY <1>0, <1>2, <2>12
  <1> QED BY <1>0, <1>1, <1>2, <1>13, <1>14, SMT DEF TenMillion, Cfg!MaxPort
-----------------------------------------------------------------------------
(* Texts: what is found in what is put together                             *)

\* There is no c in t.
Lacks(t, c) == \A k \in 1..Len(t) : t[k] # c

\* The characters of a text are its range.
LEMMA LacksRange ==
  ASSUME NEW S, NEW t \in Seq(S), NEW c
  PROVE  Lacks(t, c) <=> c \notin Cfg!Range(t)
  BY DEF Lacks, Cfg!Range

\* The characters of a text that is put together.
LEMMA Joined ==
  ASSUME NEW S, NEW s \in Seq(S), NEW t \in Seq(S), NEW m \in Nat, NEW n \in Nat,
         m = Len(s), n = Len(t), NEW r, r = s \o t
  PROVE  /\ r \in Seq(S) /\ Len(r) = m + n
         /\ \A k \in 1..m : r[k] = s[k]
         /\ \A k \in 1..n : r[m + k] = t[k]
  <1>1. /\ r \in Seq(S) /\ Len(r) = m + n
        /\ \A k \in 1..(m + n) : r[k] = IF k <= m THEN s[k] ELSE t[k - m]
    BY ConcatProperties
  <1>2. \A k \in 1..m : r[k] = s[k]
    <2> SUFFICES ASSUME NEW k \in 1..m PROVE r[k] = s[k] OBVIOUS
    <2>1. k \in 1..(m + n) /\ k <= m OBVIOUS
    <2> QED BY <1>1, <2>1
  <1>3. \A k \in 1..n : r[m + k] = t[k]
    <2> SUFFICES ASSUME NEW k \in 1..n PROVE r[m + k] = t[k] OBVIOUS
    <2>1. PICK j \in 1..(m + n) : j = m + k OBVIOUS
    <2>2. ~(j <= m) /\ j - m = k BY <2>1
    <2> QED BY <1>1, <2>1, <2>2
  <1> QED BY <1>1, <1>2, <1>3

\* What is put together has the characters of its parts.
LEMMA LacksConcat ==
  ASSUME NEW S, NEW s \in Seq(S), NEW t \in Seq(S), NEW c
  PROVE  Lacks(s \o t, c) <=> Lacks(s, c) /\ Lacks(t, c)
  <1>0. PICK m, n \in Nat : m = Len(s) /\ n = Len(t) OBVIOUS
  <1>1. PICK r : r = s \o t OBVIOUS
  <1>2. Len(r) = m + n BY <1>0, <1>1
  <1>3. \A k \in 1..(m + n) : r[k] = IF k <= m THEN s[k] ELSE t[k - m]
    BY <1>0, <1>1, ConcatProperties
  <1>4. ASSUME Lacks(r, c) PROVE Lacks(s, c) /\ Lacks(t, c)
    <2>1. ASSUME NEW k \in 1..m PROVE s[k] # c
      <3>1. k \in 1..(m + n) /\ k <= m BY <1>0
      <3> QED BY <1>2, <1>3, <1>4, <3>1 DEF Lacks
    <2>2. ASSUME NEW k \in 1..n PROVE t[k] # c
      <3>1. PICK j \in 1..(m + n) : j = k + m BY <1>0
      <3>2. ~(j <= m) /\ j - m = k BY <1>0, <3>1
      <3> QED BY <1>2, <1>3, <1>4, <3>1, <3>2 DEF Lacks
    <2> QED BY <1>0, <2>1, <2>2 DEF Lacks
  <1>5. ASSUME Lacks(s, c), Lacks(t, c) PROVE Lacks(r, c)
    <2> SUFFICES ASSUME NEW k \in 1..(m + n) PROVE r[k] # c BY <1>2 DEF Lacks
    <2>1. CASE k <= m
      <3>1. k \in 1..m BY <1>0, <2>1
      <3> QED BY <1>0, <1>3, <1>5, <2>1, <3>1 DEF Lacks
    <2>2. CASE ~(k <= m)
      <3>1. k - m \in 1..n BY <1>0, <2>2
      <3> QED BY <1>0, <1>3, <1>5, <2>2, <3>1 DEF Lacks
    <2> QED BY <2>1, <2>2
  <1> QED BY <1>1, <1>4, <1>5

\* strchr finds nothing exactly where there is nothing.
LEMMA StrchrNone ==
  ASSUME NEW S, NEW t \in Seq(S), NEW c
  PROVE  Cfg!strchr(t, c) = 0 <=> Lacks(t, c)
  <1> DEFINE at == {k \in 1..Len(t) : t[k] = c}
  <1>1. CASE at = {}
    <2>1. Lacks(t, c) BY <1>1 DEF Lacks
    <2>2. Cfg!strchr(t, c) = 0 BY <1>1, Zenon DEF Cfg!strchr
    <2> QED BY <2>1, <2>2
  <1>2. CASE at # {}
    <2>1. ~Lacks(t, c) BY <1>2 DEF Lacks
    <2>2. at \subseteq Nat /\ 0 \notin at OBVIOUS
    <2>3. \E k \in at : \A j \in at : k <= j
      <3> HIDE DEF at
      <3> QED BY <1>2, <2>2, Least
    <2>4. PICK p : p = CHOOSE k \in at : \A j \in at : k <= j OBVIOUS
    <2>5. p \in at BY <2>3, <2>4, Zenon
    <2>6. Cfg!strchr(t, c) = p BY <1>2, <2>4, Zenon DEF Cfg!strchr
    <2> QED BY <2>1, <2>2, <2>5, <2>6
  <1> QED BY <1>1, <1>2

\* A text that is put together around a c is taken apart there if it is the first one.
LEMMA Split ==
  ASSUME NEW S, NEW s \in Seq(S), NEW t \in Seq(S), NEW c \in S, Lacks(s, c)
  PROVE  /\ Cfg!strchr(s \o (<<c>> \o t), c) = Len(s) + 1
         /\ Cfg!Before(s \o (<<c>> \o t), Len(s) + 1) = s
         /\ Cfg!After(s \o (<<c>> \o t), Len(s) + 1) = t
  <1>1. PICK w : w = <<c>> \o t OBVIOUS
  <1>3. PICK r : r = s \o w OBVIOUS
  <1>0. PICK m, n \in Nat : m = Len(s) /\ n = Len(t) OBVIOUS
  <1>2. w \in Seq(S) /\ Len(w) = n + 1 /\ w[1] = c /\ \A k \in 1..n : w[1 + k] = t[k]
    <2>1. PICK e : e = <<c>> OBVIOUS
    <2>2. Len(e) = 1 /\ e[1] = c BY <2>1
    <2>6. PICK g \in Nat : g = 1 OBVIOUS
    <2>7. g = Len(e) BY <2>2, <2>6
    <2>3. e \in Seq(S) BY <2>1
    <2>5. w = e \o t BY <1>1, <2>1
    <2>4. /\ w \in Seq(S) /\ Len(w) = g + n
          /\ \A k \in 1..g : w[k] = e[k]
          /\ \A k \in 1..n : w[g + k] = t[k]
      BY <1>0, <2>3, <2>5, <2>7, Joined
    <2> QED BY <2>2, <2>4, <2>6
  <1>4. /\ r \in Seq(S) /\ Len(r) = m + (n + 1)
        /\ \A k \in 1..m : r[k] = s[k]
        /\ \A k \in 1..(n + 1) : r[m + k] = w[k]
    <2>1. PICK h \in Nat : h = n + 1 OBVIOUS
    <2>2. h = Len(w) BY <1>2, <2>1
    <2>3. /\ r \in Seq(S) /\ Len(r) = m + h
          /\ \A k \in 1..m : r[k] = s[k]
          /\ \A k \in 1..h : r[m + k] = w[k]
      <3>1. w \in Seq(S) /\ m = Len(s) BY <1>0, <1>2
      <3> QED BY <1>3, <2>2, <3>1, Joined
    <2> QED BY <2>1, <2>3
  <1>5. r[m + 1] = c
    <2>1. 1 \in 1..(n + 1) OBVIOUS
    <2> QED BY <1>2, <1>4, <2>1, Zenon
  <1>6. \A k \in 1..n : r[(m + 1) + k] = t[k]
    <2> SUFFICES ASSUME NEW k \in 1..n PROVE r[(m + 1) + k] = t[k] OBVIOUS
    <2>1. 1 + k \in 1..(n + 1) /\ m + (1 + k) = (m + 1) + k OBVIOUS
    <2> QED BY <1>2, <1>4, <2>1, Zenon
  <1>7. Cfg!strchr(r, c) = m + 1
    <2> DEFINE at == {k \in 1..Len(r) : r[k] = c}
    <2>0. 1..Len(r) = 1..(m + (n + 1)) BY <1>4
    <2>1. m + 1 \in at
      <3>1. m + 1 \in 1..(m + (n + 1)) OBVIOUS
      <3> QED BY <1>5, <2>0, <3>1, Zenon
    <2>2. \A j \in at : m + 1 <= j
      <3> SUFFICES ASSUME NEW j \in at PROVE m + 1 <= j OBVIOUS
      <3>1. j \in 1..(m + (n + 1)) /\ r[j] = c BY <2>0, Zenon
      <3>2. j \notin 1..m BY <1>0, <1>4, <3>1, Zenon DEF Lacks
      <3> QED BY <3>1, <3>2
    <2>3. \A j \in at : j \in Int BY <2>0
    <2>4. PICK p : p = CHOOSE k \in at : \A j \in at : k <= j OBVIOUS
    <2>5. Cfg!strchr(r, c) = p BY <2>1, <2>4, Zenon DEF Cfg!strchr
    <2> HIDE DEF at
    <2>6. p \in at /\ \A j \in at : p <= j BY <2>1, <2>2, <2>4, Zenon
    <2>7. p <= m + 1 /\ m + 1 <= p /\ p \in Int BY <2>1, <2>2, <2>3, <2>6
    <2> QED BY <2>5, <2>7
  <1>8. Cfg!Before(r, m + 1) = s
    <2>1. PICK b : b = SubSeq(r, 1, m) OBVIOUS
    <2>2. b \in Seq(S) /\ Len(b) = m /\ \A k \in 1..m : b[k] = r[k] BY <1>0, <1>4, <2>1
    <2>3. b = s BY <1>0, <1>4, <2>2, SeqEqual
    <2>4. (m + 1) - 1 = m OBVIOUS
    <2> QED BY <2>1, <2>3, <2>4 DEF Cfg!Before
  <1>9. Cfg!After(r, m + 1) = t
    <2>1. PICK b : b = SubSeq(r, (m + 1) + 1, (m + 1) + n) OBVIOUS
    <2>2. /\ b \in Seq(S) /\ Len(b) = n
          /\ \A k \in 1..n : b[k] = r[(m + 1) + k]
      BY <1>0, <1>4, <2>1
    <2>3. b = t BY <1>0, <1>6, <2>2, SeqEqual
    <2>4. Len(r) = (m + 1) + n BY <1>4
    <2> QED BY <2>1, <2>3, <2>4, Zenon DEF Cfg!After
  <1> QED BY <1>0, <1>1, <1>3, <1>7, <1>8, <1>9

\* The text up to the "/" that comes behind it, if one does.
LEMMA UpToSlash ==
  ASSUME NEW S, NEW s \in Seq(S), Lacks(s, "/"), "/" \in S, NEW r,
         \/ r = <<>> \/ \E y \in Seq(S) : r = <<"/">> \o y
  PROVE  Cfg!UpTo(s \o r, "/") = s
  <1>1. CASE r = <<>>
    <2>1. s \o r = s BY <1>1, ConcatEmptySeq
    <2>2. Cfg!strchr(s, "/") = 0 BY StrchrNone, Zenon
    <2> QED BY <2>1, <2>2 DEF Cfg!UpTo
  <1>2. CASE \E y \in Seq(S) : r = <<"/">> \o y
    <2>1. PICK y \in Seq(S) : r = <<"/">> \o y BY <1>2
    <2>2. /\ Cfg!strchr(s \o (<<"/">> \o y), "/") = Len(s) + 1
          /\ Cfg!Before(s \o (<<"/">> \o y), Len(s) + 1) = s
      BY Split
    <2>3. Len(s) + 1 # 0 OBVIOUS
    <2> QED BY <2>1, <2>2, <2>3, Zenon DEF Cfg!UpTo
  <1> QED BY <1>1, <1>2

\* A text that does not end in a "/" is left as it is.
LEMMA DropSlashNone ==
  ASSUME NEW t, t = <<>> \/ t[Len(t)] # "/" PROVE Cfg!DropSlash(t) = t
  BY Zenon DEF Cfg!DropSlash, Cfg!Last

\* What a "/" at the end of a text leaves of it.
LEMMA DropSlashSome ==
  ASSUME NEW S, NEW t \in Seq(S), t # <<>>, t[Len(t)] = "/"
  PROVE  /\ Cfg!DropSlash(t) \in Seq(S) /\ Len(Cfg!DropSlash(t)) = Len(t) - 1
         /\ \A k \in 1..(Len(t) - 1) : Cfg!DropSlash(t)[k] = t[k]
  <1>1. t # <<>> /\ Cfg!Last(t) = "/" BY DEF Cfg!Last
  <1>2. Cfg!DropSlash(t) = SubSeq(t, 1, Len(t) - 1) BY <1>1 DEF Cfg!DropSlash, Cfg!Front
  <1>3. PICK n \in Nat : n = Len(t) - 1 OBVIOUS
  <1>4. PICK d : d = SubSeq(t, 1, n) OBVIOUS
  <1>5. d \in Seq(S) /\ Len(d) = n /\ \A k \in 1..n : d[k] = t[k] BY <1>3, <1>4
  <1> QED BY <1>2, <1>3, <1>4, <1>5, Zenon

\* The end of a text is the end of its last part.
LEMMA DropSlashEnd ==
  ASSUME NEW S, NEW s \in Seq(S), NEW x \in Seq(S), x # <<>>
  PROVE  Cfg!DropSlash(s \o x) = s \o Cfg!DropSlash(x)
  <1>0. PICK m \in Nat, n \in Nat : m = Len(s) /\ n + 1 = Len(x)
    <2>1. Len(x) - 1 \in Nat OBVIOUS
    <2> QED BY <2>1
  <1>1. PICK h \in Nat : h = n + 1 OBVIOUS
  <1>2. h = Len(x) BY <1>0, <1>1
  <1>3. PICK r : r = s \o x OBVIOUS
  <1>4. /\ r \in Seq(S) /\ Len(r) = m + h
        /\ \A k \in 1..m : r[k] = s[k]
        /\ \A k \in 1..h : r[m + k] = x[k]
    BY <1>0, <1>2, <1>3, Joined
  <1>5. r[m + h] = x[h]
    <2>1. h \in 1..h BY <1>1
    <2> QED BY <1>4, <2>1
  <1>6. CASE x[h] # "/"
    <2>1. Cfg!DropSlash(x) = x BY <1>2, <1>6, DropSlashNone
    <2>2. Cfg!DropSlash(r) = r BY <1>4, <1>5, <1>6, DropSlashNone
    <2> QED BY <1>3, <2>1, <2>2
  <1>7. CASE x[h] = "/"
    <2>1. PICK d : d = Cfg!DropSlash(x) OBVIOUS
    <2>3. d \in Seq(S) /\ Len(d) = n /\ \A k \in 1..n : d[k] = x[k]
      <3>1. x[Len(x)] = "/" /\ Len(x) - 1 = n BY <1>1, <1>2, <1>7
      <3>2. /\ Cfg!DropSlash(x) \in Seq(S) /\ Len(Cfg!DropSlash(x)) = Len(x) - 1
            /\ \A k \in 1..(Len(x) - 1) : Cfg!DropSlash(x)[k] = x[k]
        BY <3>1, DropSlashSome, Zenon
      <3> QED BY <2>1, <3>1, <3>2, Zenon
    <2>4. PICK j \in Nat : j = m + n OBVIOUS
    <2>5. PICK e : e = Cfg!DropSlash(r) OBVIOUS
    <2>2. PICK g \in Nat : g = m + h OBVIOUS
    <2>6. r \in Seq(S) /\ g = j + 1 /\ g = Len(r) /\ r[g] = "/" BY <1>1, <1>4, <1>5, <1>7, <2>2, <2>4
    <2>7. e \in Seq(S) /\ Len(e) = j /\ \A k \in 1..j : e[k] = r[k]
      <3>1. r \in Seq(S) /\ r # <<>> /\ r[Len(r)] = "/" /\ Len(r) - 1 = j BY <2>4, <2>6
      <3>2. /\ Cfg!DropSlash(r) \in Seq(S) /\ Len(Cfg!DropSlash(r)) = Len(r) - 1
            /\ \A k \in 1..(Len(r) - 1) : Cfg!DropSlash(r)[k] = r[k]
        BY <3>1, DropSlashSome, Zenon
      <3> QED BY <2>5, <3>1, <3>2, Zenon
    <2>8. PICK b : b = s \o d OBVIOUS
    <2>9. n = Len(d) /\ d \in Seq(S) BY <2>3
    <2>10. /\ b \in Seq(S) /\ Len(b) = m + n
           /\ \A k \in 1..m : b[k] = s[k]
           /\ \A k \in 1..n : b[m + k] = d[k]
      BY <1>0, <2>8, <2>9, Joined
    <2>11. ASSUME NEW k \in 1..j PROVE e[k] = b[k]
      <3>1. CASE k <= m
        <4>1. k \in 1..m BY <3>1
        <4> QED BY <1>4, <2>7, <2>10, <4>1
      <3>2. CASE ~(k <= m)
        <4>1. PICK i_ \in 1..n : m + i_ = k
          <5>1. k - m \in 1..n /\ m + (k - m) = k BY <2>4, <3>2
          <5> QED BY <5>1
        <4>2. i_ \in 1..h BY <1>1
        <4> QED BY <1>4, <2>3, <2>7, <2>10, <4>1, <4>2
      <3> QED BY <3>1, <3>2
    <2>12. e = b
      <3>1. Len(e) = Len(b) /\ Len(e) = j BY <2>4, <2>7, <2>10
      <3> QED BY <2>7, <2>10, <2>11, <3>1, SeqEqual
    <2> QED BY <1>3, <2>1, <2>5, <2>8, <2>12
  <1> QED BY <1>6, <1>7

\* Only a "/" is dropped.
LEMMA DropSlashLacks ==
  ASSUME NEW S, NEW t \in Seq(S), NEW c, c # "/"
  PROVE  Cfg!DropSlash(t) \in Seq(S) /\ (Lacks(Cfg!DropSlash(t), c) <=> Lacks(t, c))
  <1>1. CASE t = <<>> \/ t[Len(t)] # "/" BY <1>1, DropSlashNone
  <1>2. CASE t # <<>> /\ t[Len(t)] = "/"
    <2>1. PICK n \in Nat : n + 1 = Len(t)
      <3>1. Len(t) - 1 \in Nat BY <1>2
      <3> QED BY <3>1
    <2>2. PICK d : d = Cfg!DropSlash(t) OBVIOUS
    <2>3. t[n + 1] = "/" /\ Len(t) - 1 = n BY <1>2, <2>1
    <2>4. d \in Seq(S) /\ Len(d) = n /\ \A k \in 1..n : d[k] = t[k]
      <3>1. /\ Cfg!DropSlash(t) \in Seq(S) /\ Len(Cfg!DropSlash(t)) = Len(t) - 1
            /\ \A k \in 1..(Len(t) - 1) : Cfg!DropSlash(t)[k] = t[k]
        BY <1>2, DropSlashSome, Zenon
      <3> QED BY <2>2, <2>3, <3>1, Zenon
    <2>5. \A k : k \in 1..(n + 1) <=> k \in 1..n \/ k = n + 1 OBVIOUS
    <2>6. Lacks(d, c) <=> Lacks(t, c)
      <3>1. Lacks(d, c) <=> \A k \in 1..n : d[k] # c BY <2>4, Zenon DEF Lacks
      <3>2. Lacks(t, c) <=> \A k \in 1..(n + 1) : t[k] # c BY <2>1, Zenon DEF Lacks
      <3> QED BY <2>3, <2>4, <2>5, <3>1, <3>2, Zenon
    <2> QED BY <2>2, <2>4, <2>6
  <1> QED BY <1>1, <1>2

\* A "/" may come behind a text without becoming its end.
Ended(t) == t = <<>> \/ t[Len(t)] # "/"

\* A text without "/" does not end in one.
LEMMA LacksEnds == ASSUME NEW S, NEW t \in Seq(S), Lacks(t, "/") PROVE Ended(t)
  <1> SUFFICES ASSUME t # <<>> PROVE t[Len(t)] # "/" BY DEF Ended
  <1>1. Len(t) \in 1..Len(t) OBVIOUS
  <1> QED BY <1>1, Zenon DEF Lacks

\* The last part that is not empty decides the end.
LEMMA EndsConcat ==
  ASSUME NEW S, NEW s \in Seq(S), NEW t \in Seq(S), t # <<>> \/ Ended(s), Ended(t)
  PROVE  Ended(s \o t)
  <1>1. CASE t = <<>>
    <2>1. s \o t = s BY <1>1, ConcatEmptySeq
    <2> QED BY <2>1
  <1>2. CASE t # <<>>
    <2>1. PICK m \in Nat, n \in Nat : m = Len(s) /\ n = Len(t) OBVIOUS
    <2>2. PICK r : r = s \o t OBVIOUS
    <2>3. /\ r \in Seq(S) /\ Len(r) = m + n
          /\ \A k \in 1..m : r[k] = s[k]
          /\ \A k \in 1..n : r[m + k] = t[k]
      BY <2>1, <2>2, Joined
    <2>4. n \in 1..n BY <1>2, <2>1
    <2>5. r[Len(r)] = t[n] BY <2>3, <2>4
    <2>6. t[n] # "/" BY <1>2, <2>1 DEF Ended
    <2> QED BY <2>2, <2>5, <2>6 DEF Ended
  <1> QED BY <1>1, <1>2

\* Nothing, or a "/" and what follows it.
FromSlash(S, r) == r = <<>> \/ \E y \in Seq(S) : r = <<"/">> \o y

\* What a "/" at the end leaves of a path.
LEMMA PathKept ==
  ASSUME NEW S, "/" \in S, NEW x, FromSlash(S, x)
  PROVE  /\ Cfg!DropSlash(x) \in Seq(S) /\ FromSlash(S, Cfg!DropSlash(x))
         /\ \A c : c # "/" /\ Lacks(x, c) => Lacks(Cfg!DropSlash(x), c)
  <1>1. CASE x = <<>>
    <2>1. Cfg!DropSlash(x) = x BY <1>1, DropSlashNone
    <2>2. x \in Seq(S) BY <1>1
    <2> QED BY <1>1, <2>1, <2>2 DEF FromSlash
  <1>2. CASE \E y \in Seq(S) : x = <<"/">> \o y
    <2>1. PICK y \in Seq(S) : x = <<"/">> \o y BY <1>2
    <2>2. PICK e : e = <<"/">> OBVIOUS
    <2>3. e \in Seq(S) /\ Len(e) = 1 /\ e[1] = "/" BY <2>2
    <2>4. x = e \o y BY <2>1, <2>2
    <2>5. x \in Seq(S) BY <2>3, <2>4
    <2>6. /\ Cfg!DropSlash(x) \in Seq(S)
          /\ \A c : c # "/" => (Lacks(Cfg!DropSlash(x), c) <=> Lacks(x, c))
      <3>1. \A c : c # "/" => /\ Cfg!DropSlash(x) \in Seq(S)
                              /\ Lacks(Cfg!DropSlash(x), c) <=> Lacks(x, c)
        BY <2>5, DropSlashLacks, Zenon
      <3>2. "a" # "/" OBVIOUS
      <3> QED BY <3>1, <3>2, Zenon
    <2>7. FromSlash(S, Cfg!DropSlash(x))
      <3>1. CASE y = <<>>
        <4>1. x = e BY <2>3, <2>4, <3>1, ConcatEmptySeq
        <4>2. x # <<>> /\ x[Len(x)] = "/" /\ Len(x) = 1
          <5>1. Len(x) = 1 /\ x[1] = "/" BY <2>3, <4>1, Zenon
          <5>2. x # <<>> BY <2>5, <5>1, SMT
          <5> QED BY <5>1, <5>2, Zenon
        <4>3. Len(Cfg!DropSlash(x)) = Len(x) - 1 BY <2>5, <4>2, DropSlashSome, Zenon
        <4>4. Len(Cfg!DropSlash(x)) = 0 BY <4>2, <4>3
        <4>5. Cfg!DropSlash(x) = <<>> BY <2>6, <4>4
        <4> QED BY <4>5 DEF FromSlash
      <3>2. CASE y # <<>>
        <4>1. Cfg!DropSlash(e \o y) = e \o Cfg!DropSlash(y) BY <2>3, <3>2, DropSlashEnd
        <4>2. Cfg!DropSlash(y) \in Seq(S)
          <5>1. PICK c : c # "/" BY "a" # "/"
          <5> QED BY <5>1, DropSlashLacks
        <4> QED BY <2>2, <2>4, <4>1, <4>2, Zenon DEF FromSlash
      <3> QED BY <3>1, <3>2
    <2> QED BY <2>6, <2>7, Zenon
  <1> QED BY <1>1, <1>2 DEF FromSlash

\* A path and a "/" behind it.
LEMMA PathEnd ==
  ASSUME NEW S, "/" \in S, NEW q, FromSlash(S, q), NEW e, e = <<>> \/ e = <<"/">>
  PROVE  /\ q \in Seq(S) /\ e \in Seq(S) /\ FromSlash(S, q \o e)
         /\ \A c : c # "/" /\ Lacks(q, c) => Lacks(q \o e, c)
  <1>1. PICK f : f = <<"/">> OBVIOUS
  <1>2. f \in Seq(S) /\ Len(f) = 1 /\ f[1] = "/" BY <1>1
  <1>3. e \in Seq(S)
    <2>1. <<>> \in Seq(S) OBVIOUS
    <2> QED BY <1>1, <1>2, <2>1, Zenon
  <1>4. q \in Seq(S)
    <2>1. CASE q = <<>> BY <2>1
    <2>2. CASE \E y \in Seq(S) : q = <<"/">> \o y
      <3>1. PICK y \in Seq(S) : q = f \o y BY <1>1, <2>2
      <3> QED BY <1>2, <3>1
    <2> QED BY <2>1, <2>2 DEF FromSlash
  <1>5. \A c : c # "/" => Lacks(e, c)
    <2> SUFFICES ASSUME NEW c, c # "/" PROVE Lacks(e, c) OBVIOUS
    <2>1. CASE e = <<>> BY <2>1 DEF Lacks
    <2>2. CASE e = f
      <3>1. \A k \in 1..1 : f[k] = "/" BY <1>2
      <3> QED BY <1>2, <2>2, <3>1, Zenon DEF Lacks
    <2> QED BY <1>1, <2>1, <2>2
  <1>6. \A c : c # "/" /\ Lacks(q, c) => Lacks(q \o e, c) BY <1>3, <1>4, <1>5, LacksConcat
  <1>7. FromSlash(S, q \o e)
    <2>1. CASE q = <<>>
      <3>1. q \o e = e BY <1>3, <2>1, ConcatEmptySeq
      <3>2. CASE e = <<>> BY <3>1, <3>2 DEF FromSlash
      <3>3. CASE e = f
        <4>1. f \o <<>> = f BY <1>2, ConcatEmptySeq
        <4>2. <<>> \in Seq(S) OBVIOUS
        <4> QED BY <1>1, <3>1, <3>3, <4>1, <4>2, Zenon DEF FromSlash
      <3> QED BY <1>1, <3>2, <3>3
    <2>2. CASE \E y \in Seq(S) : q = <<"/">> \o y
      <3>1. PICK y \in Seq(S) : q = f \o y BY <1>1, <2>2
      <3>2. (f \o y) \o e = f \o (y \o e) BY <1>2, <1>3, ConcatAssociative
      <3>3. y \o e \in Seq(S) BY <1>3
      <3> QED BY <1>1, <3>1, <3>2, <3>3, Zenon DEF FromSlash
    <2> QED BY <2>1, <2>2 DEF FromSlash
  <1> QED BY <1>3, <1>4, <1>6, <1>7
-----------------------------------------------------------------------------
(* A URL                                                                    *)

\* What parse_webpa_url takes for a port, and what is one.
PortTaken(n) == ~(n = Cfg!NoNumber \/ n = 0 \/ n > Cfg!MaxPort)
PortMeant(p) == Cfg!IsNumber(p) /\ Cfg!Written(p) \in 1..Cfg!MaxPort

Cut(port) == Cfg!parStrncpy(port, Cfg!PORT_BUFLEN)

\* What of a port fits in its buffer is the number the port is, or neither is a port.
LEMMA PortRead ==
  ASSUME Cfg!WideEnough, NEW p \in Seq(Chars),
         Len(p) < 8 \/ p[1] # "0" \/ p[2] # "0"
  PROVE  /\ PortTaken(Cfg!parse_num_arg(Cut(p))) <=> PortMeant(p)
         /\ PortMeant(p) => Cfg!parse_num_arg(Cut(p)) = Cfg!Written(p)
  <1>0. PICK M \in Nat : M = 2 ^ UIntBits /\ M > TenMillion BY SMT DEF Cfg!WideEnough, TenMillion
  <1>1. PICK no \in Nat : no = Cfg!NoNumber /\ no = M - 1 /\ no > Cfg!MaxPort
    <2>1. Cfg!NoNumber = M - 1 BY <1>0, SMT DEF Cfg!NoNumber
    <2> QED BY <1>0, <2>1, SMT DEF TenMillion, Cfg!MaxPort
  <1>2. \A a \in Nat : a < TenMillion => a % M = a /\ a # no BY <1>0, <1>1, SMT DEF TenMillion
  <1>3. \A t \in Seq(Chars) : ~Cfg!IsNumber(t) => Cfg!parse_num_arg(t) = no
    BY <1>1, NumberRead, Zenon
  <1>4. ASSUME NEW t \in Seq(Chars), Cfg!IsNumber(t), Len(t) <= 7
        PROVE  /\ Cfg!Written(t) \in Nat /\ Cfg!parse_num_arg(t) = Cfg!Written(t)
               /\ Cfg!parse_num_arg(t) # no
    <2>1. PICK w \in Nat : w = Cfg!Written(t) BY <1>4, NumberSize, Zenon
    <2>2. w < TenMillion BY <1>4, <2>1, NumberSize, SMT
    <2>3. Cfg!parse_num_arg(t) = w % M BY <1>0, <1>4, <2>1, NumberRead, SMT DEF Cfg!Kept
    <2> QED BY <1>2, <2>1, <2>2, <2>3, Zenon
  <1>5. PICK L \in Nat : L = Len(p) OBVIOUS
  <1>6. CASE L < 8
    <2>1. Cut(p) = p
      <3>1. SubSeq(p, 1, Len(p)) = p BY SubSeqFull
      <3> QED BY <1>5, <1>6, <3>1 DEF Cut, Cfg!parStrncpy, Cfg!PORT_BUFLEN
    <2>2. CASE ~Cfg!IsNumber(p) BY <1>1, <1>3, <2>1, <2>2, Zenon DEF PortTaken, PortMeant
    <2>3. CASE Cfg!IsNumber(p)
      <3>1. PICK w \in Nat : w = Cfg!Written(p) /\ Cfg!parse_num_arg(p) = w /\ w # no
        <4>1. Len(p) <= 7 BY <1>5, <1>6, SMT
        <4> QED BY <1>4, <2>3, <4>1, Zenon
      <3>2. ~(w = no \/ w = 0 \/ w > Cfg!MaxPort) <=> w \in 1..Cfg!MaxPort
        <4>1. Cfg!MaxPort \in Nat BY SMT DEF Cfg!MaxPort
        <4>2. w # no BY <3>1, Zenon
        <4> QED BY <4>1, <4>2, SMT
      <3> QED BY <1>1, <2>1, <2>3, <3>1, <3>2, Zenon DEF PortTaken, PortMeant
    <2> QED BY <2>2, <2>3
  <1>7. CASE ~(L < 8)
    <2>1. PICK t : t = SubSeq(p, 1, 7) OBVIOUS
    <2>2. Cut(p) = t
      <3>1. Cfg!PORT_BUFLEN = 8 /\ ~(Len(p) < 8) /\ 8 - 1 = 7 BY <1>5, <1>7, SMT DEF Cfg!PORT_BUFLEN
      <3> QED BY <2>1, <3>1, Zenon DEF Cut, Cfg!parStrncpy
    <2>3. t \in Seq(Chars) /\ Len(t) = 7 /\ \A k \in 1..7 : t[k] = p[k]
      BY <1>5, <1>7, <2>1, SMT
    <2>4. t[1] # "0" \/ t[2] # "0" 
      <3>1. t[1] = p[1] /\ t[2] = p[2] BY <2>3, SMT
      <3>2. ~(Len(p) < 8) BY <1>5, <1>7, SMT
      <3> QED BY <3>1, <3>2, Zenon
    <2>5. ~PortMeant(p)
      <3> SUFFICES ASSUME Cfg!IsNumber(p) PROVE Cfg!Written(p) \notin 1..Cfg!MaxPort BY DEF PortMeant
      <3>1. PICK w \in Nat : w = Cfg!Written(p) BY NumberSize, Zenon
      <3>2. Len(p) >= 7 /\ (p[1] # "0" \/ p[2] # "0")
        <4>1. Len(p) >= 7 /\ ~(Len(p) < 8) BY <1>5, <1>7, SMT
        <4> QED BY <4>1, Zenon
      <3>3. w > Cfg!MaxPort BY <3>1, <3>2, NumberSize, Zenon
      <3>4. Cfg!MaxPort \in Nat BY SMT DEF Cfg!MaxPort
      <3>5. w \notin 1..Cfg!MaxPort BY <3>3, <3>4, SMT
      <3> QED BY <3>1, <3>5, Zenon
    <2>6. CASE ~Cfg!IsNumber(t) BY <1>1, <1>3, <2>2, <2>3, <2>5, <2>6, Zenon DEF PortTaken
    <2>7. CASE Cfg!IsNumber(t)
      <3>1. Len(t) <= 7 /\ Len(t) >= 7 BY <2>3, SMT
      <3>2. PICK w \in Nat : w = Cfg!Written(t) /\ Cfg!parse_num_arg(t) = w
        BY <1>4, <2>3, <2>7, <3>1, Zenon
      <3>3. w > Cfg!MaxPort BY <2>3, <2>4, <2>7, <3>1, <3>2, NumberSize, Zenon
      <3> QED BY <2>2, <2>5, <3>2, <3>3, Zenon DEF PortTaken
    <2> QED BY <2>6, <2>7
  <1> QED BY <1>6, <1>7

\* The ":" and the port, if a URL has one.
PortPart(p) == IF p = None THEN <<>> ELSE <<":">> \o p

\* The port of a URL and what follows it.
PortAnd(S, p, r) ==
    /\ r \in Seq(S) /\ FromSlash(S, r)
    /\ p = None => Lacks(r, ":")
    /\ p # None => p \in Seq(S) /\ Lacks(p, "/")

PortOr(p, insecure) == IF p = None THEN Cfg!DefaultPort(insecure) ELSE Cut(p)

\* A text before the ":" of a port.
LEMMA ColonFirst ==
  ASSUME NEW S, ":" \in S, NEW s \in Seq(S), Lacks(s, ":"), NEW p \in Seq(S), NEW r \in Seq(S)
  PROVE  /\ Cfg!strchr(s \o ((<<":">> \o p) \o r), ":") = Len(s) + 1
         /\ Cfg!Before(s \o ((<<":">> \o p) \o r), Len(s) + 1) = s
         /\ Cfg!After(s \o ((<<":">> \o p) \o r), Len(s) + 1) = p \o r
  <1>1. PICK e : e = <<":">> OBVIOUS
  <1>2. e \in Seq(S) BY <1>1
  <1>3. (e \o p) \o r = e \o (p \o r) BY <1>2, ConcatAssociative
  <1>4. PICK y : y = p \o r OBVIOUS
  <1>5. y \in Seq(S) BY <1>4
  <1>6. /\ Cfg!strchr(s \o (<<":">> \o y), ":") = Len(s) + 1
        /\ Cfg!Before(s \o (<<":">> \o y), Len(s) + 1) = s
        /\ Cfg!After(s \o (<<":">> \o y), Len(s) + 1) = y
    BY <1>5, Split
  <1> QED BY <1>1, <1>3, <1>4, <1>6, Zenon

\* Behind an address in brackets.
LEMMA PortBehind ==
  ASSUME NEW S, "/" \in S, ":" \in S, NEW p, NEW r, PortAnd(S, p, r), NEW insecure
  PROVE  LET rest == PortPart(p) \o r IN
         (IF Cfg!strchr(rest, ":") = 0 THEN Cfg!DefaultPort(insecure)
          ELSE Cfg!PortText(Cfg!After(rest, Cfg!strchr(rest, ":")))) = PortOr(p, insecure)
  <1> DEFINE rest == PortPart(p) \o r
  <1>1. CASE p = None
    <2>1. rest = <<>> \o r BY <1>1, Zenon DEF PortPart
    <2>2. r \in Seq(S) /\ Lacks(r, ":") BY <1>1, Zenon DEF PortAnd
    <2>3. rest = r BY <2>1, <2>2, ConcatEmptySeq
    <2>4. Cfg!strchr(rest, ":") = 0 BY <2>2, <2>3, StrchrNone, Zenon
    <2> QED BY <1>1, <2>4, Zenon DEF PortOr
  <1>2. CASE p # None
    <2>1. p \in Seq(S) /\ Lacks(p, "/") /\ r \in Seq(S) /\ FromSlash(S, r) BY <1>2, Zenon DEF PortAnd
    <2>2. PICK w : w = (<<":">> \o p) \o r OBVIOUS
    <2>3. w \in Seq(S)
      <3>1. PICK e : e = <<":">> OBVIOUS
      <3>2. e \in Seq(S) BY <3>1
      <3>3. e \o p \in Seq(S) BY <2>1, <3>2
      <3> QED BY <2>1, <2>2, <3>1, <3>3
    <2>4. rest = w BY <1>2, <2>2, Zenon DEF PortPart
    <2>5. <<>> \o w = w BY <2>3, ConcatEmptySeq
    <2>6. <<>> \in Seq(S) /\ Lacks(<<>>, ":") /\ Len(<<>>) + 1 = 1 BY DEF Lacks
    <2>7. /\ Cfg!strchr(<<>> \o w, ":") = Len(<<>>) + 1
          /\ Cfg!After(<<>> \o w, Len(<<>>) + 1) = p \o r
      <3>1. PICK s : s = <<>> OBVIOUS
      <3>2. s \in Seq(S) /\ Lacks(s, ":") BY <2>6, <3>1
      <3>3. /\ Cfg!strchr(s \o ((<<":">> \o p) \o r), ":") = Len(s) + 1
            /\ Cfg!After(s \o ((<<":">> \o p) \o r), Len(s) + 1) = p \o r
        BY <2>1, <3>2, ColonFirst
      <3> QED BY <2>2, <3>1, <3>3, Zenon
    <2>8. Cfg!strchr(rest, ":") = 1 /\ Cfg!After(rest, 1) = p \o r BY <2>4, <2>5, <2>6, <2>7, Zenon
    <2>9. Cfg!UpTo(p \o r, "/") = p BY <2>1, UpToSlash, Zenon DEF FromSlash
    <2>10. Cfg!PortText(p \o r) = Cut(p) BY <2>9, Zenon DEF Cfg!PortText, Cut
    <2>11. 1 # 0 OBVIOUS
    <2> QED BY <1>2, <2>8, <2>10, <2>11, Zenon DEF PortOr
  <1> QED BY <1>1, <1>2

\* An address in brackets.
LEMMA V6Read ==
  ASSUME NEW S, {"/", ":", "[", "]"} \subseteq S, NEW h \in Seq(S), Lacks(h, "]"),
         NEW p, NEW r, PortAnd(S, p, r), NEW insecure
  PROVE  Cfg!InBrackets(insecure, ((<<"[">> \o h) \o <<"]">>) \o (PortPart(p) \o r))
           = [insecure |-> insecure, addr |-> h, port |-> PortOr(p, insecure)]
  <1>0. "/" \in S /\ ":" \in S /\ "[" \in S /\ "]" \in S OBVIOUS
  <1>1. PICK rest : rest = PortPart(p) \o r OBVIOUS
  <1>2. rest \in Seq(S)
    <2>1. r \in Seq(S) BY Zenon DEF PortAnd
    <2>2. PortPart(p) \in Seq(S)
      <3>1. CASE p = None BY <3>1 DEF PortPart
      <3>2. CASE p # None
        <4>1. p \in Seq(S) BY <3>2, Zenon DEF PortAnd
        <4>2. PICK e : e = <<":">> OBVIOUS
        <4>3. e \in Seq(S) BY <1>0, <4>2
        <4>4. e \o p \in Seq(S) BY <4>1, <4>3
        <4> QED BY <3>2, <4>2, <4>4, Zenon DEF PortPart
      <3> QED BY <3>1, <3>2
    <2> QED BY <1>1, <2>1, <2>2
  <1>3. PICK open : open = <<"[">> OBVIOUS
  <1>4. PICK close : close = <<"]">> OBVIOUS
  <1>5. open \in Seq(S) /\ Len(open) = 1 BY <1>0, <1>3
  <1>6. close \in Seq(S) BY <1>0, <1>4
  <1>7. PICK inner : inner = h \o (close \o rest) OBVIOUS
  <1>8. inner \in Seq(S)
    <2>1. close \o rest \in Seq(S) BY <1>2, <1>6
    <2> QED BY <1>7, <2>1
  <1>9. ((open \o h) \o close) \o rest = open \o inner
    <2>1. (open \o h) \o close = open \o (h \o close) BY <1>5, <1>6, ConcatAssociative
    <2>2. PICK g : g = h \o close OBVIOUS
    <2>3. g \in Seq(S) BY <1>6, <2>2
    <2>6. open \in Seq(S) BY <1>5
    <2>4. (open \o g) \o rest = open \o (g \o rest) BY ONLY <1>2, <2>3, <2>6, ConcatAssociative
    <2>5. (h \o close) \o rest = h \o (close \o rest) BY <1>2, <1>6, ConcatAssociative
    <2> QED BY <1>7, <2>1, <2>2, <2>4, <2>5, Zenon
  <1>10. Tail(open \o inner) = inner
    <2>1. PICK m \in Nat, n \in Nat : m = Len(open) /\ n = Len(inner) BY <1>5, <1>8
    <2>2. PICK t : t = open \o inner OBVIOUS
    <2>3. /\ t \in Seq(S) /\ Len(t) = m + n
          /\ \A k \in 1..m : t[k] = open[k]
          /\ \A k \in 1..n : t[m + k] = inner[k]
      <3>1. open \in Seq(S) BY <1>5
      <3> QED BY <1>8, <2>1, <2>2, <3>1, Joined
    <2>4. m = 1 BY <1>5, <2>1
    <2>5. PICK v : v = Tail(t) OBVIOUS
    <2>6. t # <<>> BY <2>3, <2>4
    <2>7. v \in Seq(S) /\ Len(v) = n /\ \A k \in 1..n : v[k] = t[k + 1] BY <2>3, <2>4, <2>5, <2>6
    <2>8. \A k \in 1..n : v[k] = inner[k]
      <3> SUFFICES ASSUME NEW k \in 1..n PROVE v[k] = inner[k] OBVIOUS
      <3>1. k + 1 = m + k BY <2>4
      <3> QED BY <2>3, <2>7, <3>1, Zenon
    <2>9. v = inner
      <3>1. Len(v) = Len(inner) BY <2>1, <2>7
      <3>2. \A k \in 1..Len(v) : v[k] = inner[k] BY <2>7, <2>8, Zenon
      <3> QED BY <1>8, <2>7, <3>1, <3>2, SeqEqual
    <2> QED BY <2>2, <2>5, <2>9
  <1>11. /\ Cfg!strchr(inner, "]") = Len(h) + 1 /\ Cfg!Before(inner, Len(h) + 1) = h
         /\ Cfg!After(inner, Len(h) + 1) = rest
    <2>1. /\ Cfg!strchr(h \o (<<"]">> \o rest), "]") = Len(h) + 1
          /\ Cfg!Before(h \o (<<"]">> \o rest), Len(h) + 1) = h
          /\ Cfg!After(h \o (<<"]">> \o rest), Len(h) + 1) = rest
      BY <1>0, <1>2, Split
    <2> QED BY <1>4, <1>7, <2>1, Zenon
  <1>12. Len(h) + 1 # 0 OBVIOUS
  <1>13. (IF Cfg!strchr(rest, ":") = 0 THEN Cfg!DefaultPort(insecure)
          ELSE Cfg!PortText(Cfg!After(rest, Cfg!strchr(rest, ":")))) = PortOr(p, insecure)
    BY <1>0, <1>1, PortBehind, Zenon
  <1>14. PICK text_ : text_ = ((<<"[">> \o h) \o <<"]">>) \o (PortPart(p) \o r) OBVIOUS
  <1>15. Tail(text_) = inner BY <1>1, <1>3, <1>4, <1>9, <1>10, <1>14, Zenon
  <1>16. Cfg!InBrackets(insecure, text_)
           = [insecure |-> insecure, addr |-> h, port |-> PortOr(p, insecure)]
    BY <1>11, <1>12, <1>13, <1>15, Zenon DEF Cfg!InBrackets
  <1> QED BY <1>14, <1>16, Zenon

\* An address that ends at the port's ":" or at the path's "/".
LEMMA NameRead ==
  ASSUME NEW S, {"/", ":", "[", "]"} \subseteq S, NEW h \in Seq(S), Lacks(h, ":"), Lacks(h, "/"),
         NEW p, NEW r, PortAnd(S, p, r), NEW insecure
  PROVE  Cfg!NoBrackets(insecure, h \o (PortPart(p) \o r))
           = [insecure |-> insecure, addr |-> h, port |-> PortOr(p, insecure)]
  <1>0. "/" \in S /\ ":" \in S OBVIOUS
  <1>1. PICK t : t = h \o (PortPart(p) \o r) OBVIOUS
  <1>2. CASE p = None
    <2>1. PortPart(p) = <<>> BY <1>2, Zenon DEF PortPart
    <2>2. r \in Seq(S) /\ Lacks(r, ":") /\ FromSlash(S, r) BY <1>2, Zenon DEF PortAnd
    <2>3. <<>> \o r = r BY <2>2, ConcatEmptySeq
    <2>4. t = h \o r BY <1>1, <2>1, <2>3, Zenon
    <2>5. Lacks(h \o r, ":") BY <2>2, LacksConcat
    <2>6. h \o r \in Seq(S) BY <2>2
    <2>7. Cfg!strchr(t, ":") = 0 BY <2>4, <2>5, <2>6, StrchrNone, Zenon
    <2>8. Cfg!UpTo(t, "/") = h BY <1>0, <2>2, <2>4, UpToSlash, Zenon DEF FromSlash
    <2>9. Cfg!NoBrackets(insecure, t)
            = [insecure |-> insecure, addr |-> h, port |-> PortOr(p, insecure)]
      BY <1>2, <2>7, <2>8, Zenon DEF Cfg!NoBrackets, PortOr
    <2> QED BY <1>1, <2>9, Zenon
  <1>3. CASE p # None
    <2>1. p \in Seq(S) /\ Lacks(p, "/") /\ r \in Seq(S) /\ FromSlash(S, r) BY <1>3, Zenon DEF PortAnd
    <2>2. t = h \o ((<<":">> \o p) \o r) BY <1>1, <1>3, Zenon DEF PortPart
    <2>3. /\ Cfg!strchr(t, ":") = Len(h) + 1 /\ Cfg!Before(t, Len(h) + 1) = h
          /\ Cfg!After(t, Len(h) + 1) = p \o r
      BY <1>0, <2>1, <2>2, ColonFirst
    <2>4. Len(h) + 1 # 0 OBVIOUS
    <2>5. Cfg!UpTo(p \o r, "/") = p BY <1>0, <2>1, UpToSlash, Zenon DEF FromSlash
    <2>6. Cfg!PortText(p \o r) = Cut(p) BY <2>5, Zenon DEF Cfg!PortText, Cut
    <2>7. Cfg!NoBrackets(insecure, t)
            = [insecure |-> insecure, addr |-> h, port |-> PortOr(p, insecure)]
      BY <1>3, <2>3, <2>4, <2>6, Zenon DEF Cfg!NoBrackets, PortOr
    <2> QED BY <1>1, <2>7, Zenon
  <1> QED BY <1>2, <1>3

HostPart(u) == IF u.v6 THEN (<<"[">> \o u.host) \o <<"]">> ELSE u.host
PathPart(u) == IF u.path = None THEN <<>> ELSE <<"/">> \o u.path
SlashPart(u) == IF u.slash THEN <<"/">> ELSE <<>>

\* The parts are texts of the characters in S.
PartsIn(S, u) ==
    /\ {"/", ":", "[", "]"} \subseteq S
    /\ u.host \in Seq(S)
    /\ u.port # None => u.port \in Seq(S)
    /\ u.path # None => u.path \in Seq(S)

\* The parts of a URL and the characters they add to its text.
LEMMA PartsText ==
  ASSUME NEW S, NEW u, PartsIn(S, u)
  PROVE  /\ HostPart(u) \in Seq(S) /\ PortPart(u.port) \in Seq(S) /\ PathPart(u) \in Seq(S)
         /\ SlashPart(u) \in Seq(S)
         /\ FromSlash(S, PathPart(u)) /\ (SlashPart(u) = <<>> \/ SlashPart(u) = <<"/">>)
         /\ Cfg!Text(u) = ((HostPart(u) \o PortPart(u.port)) \o PathPart(u)) \o SlashPart(u)
         /\ \A c : /\ c \notin {"[", "]"} \/ ~u.v6 => (Lacks(HostPart(u), c) <=> Lacks(u.host, c))
                   /\ c # ":" => (Lacks(PortPart(u.port), c) <=> u.port = None \/ Lacks(u.port, c))
                   /\ c # "/" => (Lacks(PathPart(u), c) <=> u.path = None \/ Lacks(u.path, c))
                   /\ c # "/" => Lacks(SlashPart(u), c)
  <1>0. /\ "/" \in S /\ ":" \in S /\ "[" \in S /\ "]" \in S
        /\ u.host \in Seq(S)
        /\ u.port # None => u.port \in Seq(S)
        /\ u.path # None => u.path \in Seq(S)
    BY DEF PartsIn
  <1>1. <<>> \in Seq(S) /\ \A c : Lacks(<<>>, c) BY DEF Lacks
  <1>2. ASSUME NEW d \in S
        PROVE  <<d>> \in Seq(S) /\ \A c : c # d => Lacks(<<d>>, c)
    <2>1. PICK e : e = <<d>> OBVIOUS
    <2>2. e \in Seq(S) /\ Len(e) = 1 /\ e[1] = d BY <2>1
    <2>3. \A k \in 1..1 : k = 1 OBVIOUS
    <2>4. \A c : c # d => Lacks(e, c) BY <2>2, <2>3, Zenon DEF Lacks
    <2> QED BY <2>1, <2>2, <2>4, Zenon
  <1>3. PICK slash : slash = <<"/">> OBVIOUS
  <1>4. slash \in Seq(S) /\ \A c : c # "/" => Lacks(slash, c) BY <1>0, <1>2, <1>3, Zenon
  <1>5. PICK colon : colon = <<":">> OBVIOUS
  <1>6. colon \in Seq(S) /\ \A c : c # ":" => Lacks(colon, c) BY <1>0, <1>2, <1>5, Zenon
  <1>7. PICK open : open = <<"[">> OBVIOUS
  <1>8. open \in Seq(S) /\ \A c : c # "[" => Lacks(open, c) BY <1>0, <1>2, <1>7, Zenon
  <1>9. PICK close : close = <<"]">> OBVIOUS
  <1>10. close \in Seq(S) /\ \A c : c # "]" => Lacks(close, c) BY <1>0, <1>2, <1>9, Zenon
  <1>11. /\ SlashPart(u) \in Seq(S) /\ (SlashPart(u) = <<>> \/ SlashPart(u) = <<"/">>)
         /\ \A c : c # "/" => Lacks(SlashPart(u), c)
    BY <1>1, <1>3, <1>4, Zenon DEF SlashPart
  <1>12. /\ PathPart(u) \in Seq(S) /\ FromSlash(S, PathPart(u))
         /\ \A c : c # "/" => (Lacks(PathPart(u), c) <=> u.path = None \/ Lacks(u.path, c))
    <2>1. CASE u.path = None
      <3>1. PathPart(u) = <<>> BY <2>1, Zenon DEF PathPart
      <3> QED BY <1>1, <2>1, <3>1, Zenon DEF FromSlash
    <2>2. CASE u.path # None
      <3>1. PathPart(u) = slash \o u.path BY <1>3, <2>2, Zenon DEF PathPart
      <3>2. PICK q \in Seq(S) : q = u.path BY <1>0, <2>2, Zenon
      <3>3. slash \o q \in Seq(S) /\ \A c : Lacks(slash \o q, c) <=> Lacks(slash, c) /\ Lacks(q, c)
        <4>1. slash \in Seq(S) BY <1>4
        <4>2. slash \o q \in Seq(S) BY <4>1
        <4>3. \A c : Lacks(slash \o q, c) <=> Lacks(slash, c) /\ Lacks(q, c)
          BY <4>1, LacksConcat, Zenon
        <4> QED BY <4>2, <4>3, Zenon
      <3>4. FromSlash(S, slash \o q) BY <1>3, Zenon DEF FromSlash
      <3>5. \A c : c # "/" => (Lacks(slash \o q, c) <=> Lacks(q, c)) BY <1>4, <3>3
      <3>6. PathPart(u) = slash \o q BY <3>1, <3>2, Zenon
      <3> QED BY <2>2, <3>2, <3>3, <3>4, <3>5, <3>6, Zenon
    <2> QED BY <2>1, <2>2
  <1>13. /\ PortPart(u.port) \in Seq(S)
         /\ \A c : c # ":" => (Lacks(PortPart(u.port), c) <=> u.port = None \/ Lacks(u.port, c))
    <2>1. CASE u.port = None
      <3>1. PortPart(u.port) = <<>> BY <2>1, Zenon DEF PortPart
      <3> QED BY <1>1, <2>1, <3>1, Zenon
    <2>2. CASE u.port # None
      <3>1. PortPart(u.port) = colon \o u.port BY <1>5, <2>2, Zenon DEF PortPart
      <3>2. PICK q \in Seq(S) : q = u.port BY <1>0, <2>2, Zenon
      <3>3. colon \o q \in Seq(S) /\ \A c : Lacks(colon \o q, c) <=> Lacks(colon, c) /\ Lacks(q, c)
        <4>1. colon \in Seq(S) BY <1>6
        <4>2. colon \o q \in Seq(S) BY <4>1
        <4>3. \A c : Lacks(colon \o q, c) <=> Lacks(colon, c) /\ Lacks(q, c)
          BY <4>1, LacksConcat, Zenon
        <4> QED BY <4>2, <4>3, Zenon
      <3>4. \A c : c # ":" => (Lacks(colon \o q, c) <=> Lacks(q, c)) BY <1>6, <3>3
      <3>5. PortPart(u.port) = colon \o q BY <3>1, <3>2, Zenon
      <3> QED BY <2>2, <3>2, <3>3, <3>4, <3>5, Zenon
    <2> QED BY <2>1, <2>2
  <1>14. /\ HostPart(u) \in Seq(S)
         /\ \A c : c \notin {"[", "]"} \/ ~u.v6 => (Lacks(HostPart(u), c) <=> Lacks(u.host, c))
    <2>1. CASE ~u.v6
      <3>1. HostPart(u) = u.host BY <2>1, Zenon DEF HostPart
      <3> QED BY <1>0, <3>1, Zenon
    <2>2. CASE u.v6
      <3>1. HostPart(u) = (open \o u.host) \o close BY <1>7, <1>9, <2>2, Zenon DEF HostPart
      <3>2. PICK q \in Seq(S) : q = u.host BY <1>0, Zenon
      <3>3. open \in Seq(S) /\ close \in Seq(S) BY <1>8, <1>10
      <3>4. PICK g : g = open \o q OBVIOUS
      <3>5. g \in Seq(S) BY <3>3, <3>4
      <3>6. g \o close \in Seq(S) BY <3>3, <3>5
      <3>7. \A c : Lacks(g, c) <=> Lacks(open, c) /\ Lacks(q, c)
        BY <3>3, <3>4, LacksConcat, Zenon
      <3>8. \A c : Lacks(g \o close, c) <=> Lacks(g, c) /\ Lacks(close, c)
        BY <3>3, <3>5, LacksConcat, Zenon
      <3>9. HostPart(u) = g \o close BY <3>1, <3>2, <3>4, Zenon
      <3>10. \A c : c \notin {"[", "]"} => (Lacks(g \o close, c) <=> Lacks(q, c))
        BY <1>8, <1>10, <3>7, <3>8, Zenon
      <3> QED BY <2>2, <3>2, <3>6, <3>9, <3>10, Zenon
    <2> QED BY <2>1, <2>2
  <1>15. Cfg!Text(u) = ((HostPart(u) \o PortPart(u.port)) \o PathPart(u)) \o SlashPart(u)
    BY Zenon DEF Cfg!Text, HostPart, PortPart, PathPart, SlashPart
  <1> QED BY <1>11, <1>12, <1>13, <1>14, <1>15, Zenon

\* Without the "/" at the end a text is its host, its port and what is left of its path.
LEMMA Layout ==
  ASSUME NEW S, NEW u, PartsIn(S, u), u.v6 \/ Lacks(u.host, "/"),
         u.port # None => Lacks(u.port, "/"),
         u.port = None => u.path = None \/ Lacks(u.path, ":")
  PROVE  \E r : /\ PortAnd(S, u.port, r)
                /\ Cfg!DropSlash(Cfg!Text(u)) = HostPart(u) \o (PortPart(u.port) \o r)
                /\ \A c : c # "/" => (u.path = None \/ Lacks(u.path, c) => Lacks(r, c))
  <1>0. "/" \in S /\ "]" \in S BY DEF PartsIn
  <1>1. PICK h : h = HostPart(u) OBVIOUS
  <1>2. PICK p : p = PortPart(u.port) OBVIOUS
  <1>3. PICK q : q = PathPart(u) OBVIOUS
  <1>4. PICK e : e = SlashPart(u) OBVIOUS
  <1>5. /\ h \in Seq(S) /\ p \in Seq(S) /\ q \in Seq(S) /\ e \in Seq(S)
        /\ FromSlash(S, q) /\ (e = <<>> \/ e = <<"/">>)
        /\ Cfg!Text(u) = ((h \o p) \o q) \o e
    BY <1>1, <1>2, <1>3, <1>4, PartsText, Zenon
  <1>6. \A c : c # "/" => (Lacks(q, c) <=> u.path = None \/ Lacks(u.path, c))
    BY <1>3, PartsText, Zenon
  <1>7. Ended(p)
    <2>1. "/" # ":" OBVIOUS
    <2>2. Lacks(p, "/") BY <1>2, <2>1, PartsText, Zenon
    <2> QED BY <1>5, <2>2, LacksEnds
  <1>8. Ended(h)
    <2>1. CASE ~u.v6
      <3>1. h = u.host /\ Lacks(h, "/") BY <1>1, <2>1, Zenon DEF HostPart
      <3> QED BY <1>5, <3>1, LacksEnds
    <2>2. CASE u.v6
      <3>1. PICK f : f = <<"]">> OBVIOUS
      <3>2. f \in Seq(S) /\ f # <<>> /\ Len(f) = 1 /\ f[1] = "]" BY <1>0, <3>1
      <3>3. Ended(f)
        <4>1. "]" # "/" OBVIOUS
        <4> QED BY <3>2, <4>1, Zenon DEF Ended
      <3>4. PICK g : g = <<"[">> \o u.host OBVIOUS
      <3>5. g \in Seq(S)
        <4>1. PICK d : d = <<"[">> OBVIOUS
        <4>2. d \in Seq(S) /\ u.host \in Seq(S) BY <4>1 DEF PartsIn
        <4> QED BY <3>4, <4>1, <4>2
      <3>6. h = g \o f BY <1>1, <2>2, <3>1, <3>4, Zenon DEF HostPart
      <3> QED BY <3>2, <3>3, <3>5, <3>6, EndsConcat
    <2> QED BY <2>1, <2>2
  <1>9. PICK a : a = h \o p OBVIOUS
  <1>10. a \in Seq(S) /\ Ended(a)
    <2>1. a \in Seq(S) BY <1>5, <1>9
    <2> QED BY <1>5, <1>7, <1>8, <1>9, <2>1, EndsConcat
  <1>11. PICK x : x = q \o e OBVIOUS
  <1>12. FromSlash(S, x) /\ \A c : c # "/" /\ Lacks(q, c) => Lacks(x, c)
    BY <1>0, <1>5, <1>11, PathEnd, Zenon
  <1>13. x \in Seq(S) BY <1>5, <1>11
  <1>14. Cfg!Text(u) = a \o x
    <2>1. (a \o q) \o e = a \o (q \o e)
      <3>1. a \in Seq(S) /\ q \in Seq(S) /\ e \in Seq(S) BY <1>5, <1>10
      <3> QED BY ONLY <3>1, ConcatAssociative
    <2> QED BY <1>5, <1>9, <1>11, <2>1, Zenon
  <1>15. PICK r : r = Cfg!DropSlash(x) OBVIOUS
  <1>16. /\ r \in Seq(S) /\ FromSlash(S, r)
         /\ \A c : c # "/" /\ Lacks(x, c) => Lacks(r, c)
    BY <1>0, <1>12, <1>15, PathKept, Zenon
  <1>17. Cfg!DropSlash(a \o x) = a \o r
    <2>1. CASE x = <<>>
      <3>1. r = <<>> BY <1>15, <2>1, DropSlashNone
      <3>2. a \o <<>> = a BY <1>10, ConcatEmptySeq
      <3>3. Cfg!DropSlash(a) = a BY <1>10, DropSlashNone, Zenon DEF Ended
      <3> QED BY <2>1, <3>1, <3>2, <3>3, Zenon
    <2>2. CASE x # <<>>
      <3>1. a \in Seq(S) BY <1>10
      <3> QED BY <1>13, <1>15, <2>2, <3>1, DropSlashEnd, Zenon
    <2> QED BY <2>1, <2>2
  <1>18. a \o r = h \o (p \o r)
    <2>1. r \in Seq(S) BY <1>16
    <2>2. h \in Seq(S) /\ p \in Seq(S) BY <1>5
    <2> QED BY ONLY <1>9, <2>1, <2>2, ConcatAssociative
  <1>19. \A c : c # "/" => (u.path = None \/ Lacks(u.path, c) => Lacks(r, c))
    BY <1>6, <1>12, <1>16, Zenon
  <1>20. PortAnd(S, u.port, r)
    <2>1. ":" # "/" OBVIOUS
    <2>2. u.port = None => Lacks(r, ":") BY <1>19, <2>1, Zenon
    <2>3. u.port # None => u.port \in Seq(S) BY DEF PartsIn
    <2> QED BY <1>16, <2>2, <2>3, Zenon DEF PortAnd
  <1>21. Cfg!DropSlash(Cfg!Text(u)) = HostPart(u) \o (PortPart(u.port) \o r)
    BY <1>1, <1>2, <1>14, <1>17, <1>18, Zenon
  <1> QED BY <1>19, <1>20, <1>21, Zenon

\* The address and the port are those of the URL.
LEMMA PartsRead ==
  ASSUME NEW S, NEW u, PartsIn(S, u), NEW insecure, insecure = Cfg!server_is_http(u.scheme),
         insecure >= 0, ~(insecure < 0),
         Lacks(u.host, "["), Lacks(u.host, "]"),
         u.v6 \/ (Lacks(u.host, "/") /\ Lacks(u.host, ":")),
         u.port # None => Lacks(u.port, "/"),
         u.v6 \/ u.port = None \/ (Lacks(u.port, "[") /\ Lacks(u.port, "]")),
         u.port = None => u.path = None \/ Lacks(u.path, ":"),
         u.v6 \/ u.path = None \/ (Lacks(u.path, "[") /\ Lacks(u.path, "]"))
  PROVE  Cfg!parse_webpa_url__(u.scheme, Cfg!Text(u))
           = [insecure |-> insecure, addr |-> u.host, port |-> PortOr(u.port, insecure)]
  <1>0. {"/", ":", "[", "]"} \subseteq S /\ u.host \in Seq(S) BY Zenon DEF PartsIn
  <1>1. PICK r : /\ PortAnd(S, u.port, r)
                 /\ Cfg!DropSlash(Cfg!Text(u)) = HostPart(u) \o (PortPart(u.port) \o r)
                 /\ \A c : c # "/" => (u.path = None \/ Lacks(u.path, c) => Lacks(r, c))
    BY Layout, Zenon
  <1>2. PICK h : h = HostPart(u) OBVIOUS
  <1>3. PICK rest : rest = PortPart(u.port) \o r OBVIOUS
  <1>4. PICK d : d = h \o rest OBVIOUS
  <1>5. d = Cfg!DropSlash(Cfg!Text(u)) BY <1>1, <1>2, <1>3, <1>4, Zenon
  <1>6. h \in Seq(S) /\ PortPart(u.port) \in Seq(S) BY <1>2, PartsText, Zenon
  <1>7. r \in Seq(S) BY <1>1, Zenon DEF PortAnd
  <1>8. rest \in Seq(S) BY <1>3, <1>6, <1>7
  <1>9. d \in Seq(S) BY <1>4, <1>6, <1>8
  <1>10. \A c : Lacks(d, c) <=> Lacks(h, c) /\ Lacks(rest, c)
    <2>1. h \in Seq(S) BY <1>6
    <2> QED BY <1>4, <1>8, <2>1, LacksConcat, Zenon
  <1>11. \A c : Lacks(rest, c) <=> Lacks(PortPart(u.port), c) /\ Lacks(r, c)
    <2>1. PICK p \in Seq(S) : p = PortPart(u.port) BY <1>6
    <2>2. \A c : Lacks(p \o r, c) <=> Lacks(p, c) /\ Lacks(r, c) BY <1>7, LacksConcat, Zenon
    <2> QED BY <1>3, <2>1, <2>2, Zenon
  <1>12. CASE u.v6
    <2>1. h = (<<"[">> \o u.host) \o <<"]">> BY <1>2, <1>12, Zenon DEF HostPart
    <2>2. ~Lacks(h, "[")
      <3>1. PICK e : e = <<"[">> OBVIOUS
      <3>2. e \in Seq(S) /\ Len(e) = 1 /\ e[1] = "[" BY <1>0, <3>1
      <3>3. ~Lacks(e, "[")
        <4>1. 1 \in 1..1 OBVIOUS
        <4> QED BY <3>2, <4>1, Zenon DEF Lacks
      <3>4. PICK f : f = <<"]">> OBVIOUS
      <3>5. f \in Seq(S) BY <1>0, <3>4
      <3>6. PICK g : g = e \o u.host OBVIOUS
      <3>7. g \in Seq(S) BY <1>0, <3>2, <3>6
      <3>8. ~Lacks(g, "[")
        <4>1. e \in Seq(S) /\ u.host \in Seq(S) BY <1>0, <3>2
        <4> QED BY <3>3, <3>6, <4>1, LacksConcat, Zenon
      <3>9. h = g \o f BY <2>1, <3>1, <3>4, <3>6, Zenon
      <3> QED BY <3>5, <3>7, <3>8, <3>9, LacksConcat, Zenon
    <2>3. Cfg!strchr(d, "[") # 0 BY <1>9, <1>10, <2>2, StrchrNone, Zenon
    <2>4. Cfg!InBrackets(insecure, ((<<"[">> \o u.host) \o <<"]">>) \o (PortPart(u.port) \o r))
            = [insecure |-> insecure, addr |-> u.host, port |-> PortOr(u.port, insecure)]
      <3>1. PICK g \in Seq(S) : g = u.host BY <1>0
      <3>2. Lacks(g, "]") BY <3>1
      <3>3. Cfg!InBrackets(insecure, ((<<"[">> \o g) \o <<"]">>) \o (PortPart(u.port) \o r))
              = [insecure |-> insecure, addr |-> g, port |-> PortOr(u.port, insecure)]
        BY <1>0, <1>1, <3>2, V6Read
      <3> QED BY <3>1, <3>3, Zenon
    <2>5. Cfg!InBrackets(insecure, d)
            = [insecure |-> insecure, addr |-> u.host, port |-> PortOr(u.port, insecure)]
      BY <1>3, <1>4, <2>1, <2>4, Zenon
    <2>6. Cfg!parse_webpa_url__(u.scheme, Cfg!Text(u)) = Cfg!InBrackets(insecure, d)
      BY <1>5, <2>3, SMT DEF Cfg!parse_webpa_url__
    <2> QED BY <2>5, <2>6
  <1>13. CASE ~u.v6
    <2>1. h = u.host BY <1>2, <1>13, Zenon DEF HostPart
    <2>2. "[" # "/" /\ "]" # "/" /\ "[" # ":" /\ "]" # ":" OBVIOUS
    <2>3. Lacks(r, "[") /\ Lacks(r, "]") BY <1>1, <1>13, <2>2, Zenon
    <2>4. Lacks(PortPart(u.port), "[") /\ Lacks(PortPart(u.port), "]")
      BY <1>13, <2>2, PartsText, Zenon
    <2>5. Lacks(d, "[") /\ Lacks(d, "]") BY <1>10, <1>11, <2>1, <2>3, <2>4, Zenon
    <2>6. Cfg!strchr(d, "[") = 0 /\ Cfg!strchr(d, "]") = 0 BY <1>9, <2>5, StrchrNone, Zenon
    <2>7. Cfg!NoBrackets(insecure, h \o (PortPart(u.port) \o r))
            = [insecure |-> insecure, addr |-> h, port |-> PortOr(u.port, insecure)]
      <3>1. h \in Seq(S) /\ Lacks(h, ":") /\ Lacks(h, "/") BY <1>13, <1>6, <2>1, Zenon
      <3> QED BY <1>0, <1>1, <3>1, NameRead
    <2>8. Cfg!parse_webpa_url__(u.scheme, Cfg!Text(u)) = Cfg!NoBrackets(insecure, d)
      BY <1>5, <2>6, SMT DEF Cfg!parse_webpa_url__
    <2> QED BY <1>3, <1>4, <2>1, <2>7, <2>8, Zenon
  <1> QED BY <1>12, <1>13

\* The host and the port of a URL are without c.
NamedWithout(u, c) == Lacks(u.host, c) /\ (u.port = None \/ Lacks(u.port, c))

\* One bracket in the host and the port, or several of one kind: refused.
LEMMA OneBracket ==
  ASSUME NEW S, NEW u, PartsIn(S, u), NEW insecure, insecure = Cfg!server_is_http(u.scheme),
         insecure >= 0, ~(insecure < 0), ~u.v6,
         \/ ~NamedWithout(u, "[") /\ NamedWithout(u, "]")
         \/ NamedWithout(u, "[") /\ ~NamedWithout(u, "]"),
         u.path = None \/ (Lacks(u.path, "[") /\ Lacks(u.path, "]"))
  PROVE  Cfg!parse_webpa_url__(u.scheme, Cfg!Text(u)) = Cfg!Refused
  <1>1. PICK h : h = HostPart(u) OBVIOUS
  <1>2. PICK p : p = PortPart(u.port) OBVIOUS
  <1>3. PICK q : q = PathPart(u) OBVIOUS
  <1>4. PICK e : e = SlashPart(u) OBVIOUS
  <1>5. /\ h \in Seq(S) /\ p \in Seq(S) /\ q \in Seq(S) /\ e \in Seq(S)
        /\ Cfg!Text(u) = ((h \o p) \o q) \o e
    BY <1>1, <1>2, <1>3, <1>4, PartsText, Zenon
  <1>6. "[" # "/" /\ "]" # "/" /\ "[" # ":" /\ "]" # ":" OBVIOUS
  <1>7. ASSUME NEW c, c = "[" \/ c = "]"
        PROVE  /\ Lacks(h, c) <=> Lacks(u.host, c)
               /\ Lacks(p, c) <=> u.port = None \/ Lacks(u.port, c)
               /\ Lacks(q, c) /\ Lacks(e, c)
    <2>1. c # "/" /\ c # ":" BY <1>6, <1>7
    <2>2. Lacks(h, c) <=> Lacks(u.host, c) BY <1>1, PartsText, Zenon
    <2>3. Lacks(p, c) <=> u.port = None \/ Lacks(u.port, c) BY <1>2, <2>1, PartsText, Zenon
    <2>4. Lacks(q, c) BY <1>3, <1>7, <2>1, PartsText, Zenon
    <2>5. Lacks(e, c) BY <1>4, <2>1, PartsText, Zenon
    <2> QED BY <2>2, <2>3, <2>4, <2>5
  <1>8. PICK d : d = Cfg!DropSlash(Cfg!Text(u)) OBVIOUS
  <1>9. ASSUME NEW c, c = "[" \/ c = "]"
        PROVE  d \in Seq(S) /\ (Lacks(d, c) <=> NamedWithout(u, c))
    <2>0. h \in Seq(S) /\ p \in Seq(S) /\ q \in Seq(S) /\ e \in Seq(S) BY <1>5
    <2>1. PICK x : x = h \o p OBVIOUS
    <2>2. x \in Seq(S) BY <2>0, <2>1
    <2>3. PICK y : y = x \o q OBVIOUS
    <2>4. y \in Seq(S) BY <2>0, <2>2, <2>3
    <2>5. PICK z : z = y \o e OBVIOUS
    <2>6. z \in Seq(S) BY <2>0, <2>4, <2>5
    <2>7. Lacks(x, c) <=> Lacks(h, c) /\ Lacks(p, c) BY <2>0, <2>1, LacksConcat, Zenon
    <2>8. Lacks(y, c) <=> Lacks(x, c) /\ Lacks(q, c) BY <2>0, <2>2, <2>3, LacksConcat, Zenon
    <2>9. Lacks(z, c) <=> Lacks(y, c) /\ Lacks(e, c) BY <2>0, <2>4, <2>5, LacksConcat, Zenon
    <2>10. z = Cfg!Text(u) BY <1>5, <2>1, <2>3, <2>5, Zenon
    <2>11. c # "/" BY <1>6, <1>9
    <2>12. d \in Seq(S) /\ (Lacks(d, c) <=> Lacks(z, c))
      BY <1>8, <2>6, <2>10, <2>11, DropSlashLacks, Zenon
    <2> QED BY <1>7, <1>9, <2>7, <2>8, <2>9, <2>12, Zenon DEF NamedWithout
  <1>10. d \in Seq(S) BY <1>9
  <1>11. CASE ~NamedWithout(u, "[") /\ NamedWithout(u, "]")
    <2>1. ~Lacks(d, "[") /\ Lacks(d, "]") BY <1>9, <1>11
    <2>2. Cfg!strchr(d, "[") # 0 BY <1>10, <2>1, StrchrNone, Zenon
    <2>3. d # <<>> BY <2>1 DEF Lacks
    <2>4. PICK v : v = Tail(d) OBVIOUS
    <2>5. v \in Seq(S) /\ Len(v) = Len(d) - 1 /\ \A k \in 1..Len(v) : v[k] = d[k + 1]
      BY <1>10, <2>3, <2>4
    <2>6. Lacks(v, "]")
      <3> SUFFICES ASSUME NEW k \in 1..Len(v) PROVE v[k] # "]" BY DEF Lacks
      <3>1. k + 1 \in 1..Len(d) BY <1>10, <2>5
      <3>2. d[k + 1] # "]" BY <2>1, <3>1, Zenon DEF Lacks
      <3> QED BY <2>5, <3>2
    <2>7. Cfg!strchr(v, "]") = 0 BY <2>5, <2>6, StrchrNone, Zenon
    <2>8. Cfg!InBrackets(insecure, d) = Cfg!Refused BY <2>4, <2>7, Zenon DEF Cfg!InBrackets
    <2>9. Cfg!parse_webpa_url__(u.scheme, Cfg!Text(u)) = Cfg!InBrackets(insecure, d)
      BY <1>8, <2>2, SMT DEF Cfg!parse_webpa_url__
    <2> QED BY <2>8, <2>9
  <1>12. CASE NamedWithout(u, "[") /\ ~NamedWithout(u, "]")
    <2>1. Lacks(d, "[") /\ ~Lacks(d, "]") BY <1>9, <1>12
    <2>2. Cfg!strchr(d, "[") = 0 /\ Cfg!strchr(d, "]") # 0 BY <1>10, <2>1, StrchrNone, Zenon
    <2> QED BY <1>8, <2>2, SMT DEF Cfg!parse_webpa_url__
  <1> QED BY <1>11, <1>12

Parsed(u) == Cfg!parse_webpa_url(u.scheme, Cfg!Text(u))

\* The port that a URL has or stands for.
PortFor(u, insecure) == IF u.port = None THEN Cfg!DefaultPort(insecure) ELSE u.port

\* No bracket is a digit.
LEMMA BracketNoDigit == \A c \in {"[", "]"} : c \notin Cfg!Range(Cfg!Digits)
  <1>1. \A k \in DOMAIN Cfg!Digits : Cfg!Digits[k] # "[" /\ Cfg!Digits[k] # "]"
    BY DEF Cfg!Digits
  <1> QED BY <1>1 DEF Cfg!Range

\* A URL is read as it is written, but for those known to be misread (parse_webpa_url).
LEMMA UrlRead ==
  ASSUME Cfg!WideEnough, Cfg!CharsSuffice, NEW u, Cfg!WellWritten(u), ~Cfg!Misread(u)
  PROVE  Parsed(u) = Cfg!Meaning(u)
  <1>0. PICK insecure : insecure = Cfg!server_is_http(u.scheme) OBVIOUS
  <1>1. insecure = -1 \/ insecure = 0 \/ insecure = 1 BY <1>0 DEF Cfg!server_is_http
  <1>3. u.host \in Seq(Chars) BY DEF Cfg!WellWritten
  <1>4. /\ u.port # None => u.port \in Seq(Chars)
        /\ u.path # None => u.path \in Seq(Chars)
    BY DEF Cfg!WellWritten
  <1>5. PartsIn(Chars, u)
    <2>1. {"/", ":", "[", "]"} \subseteq Chars BY Zenon DEF Cfg!CharsSuffice
    <2> QED BY <1>3, <1>4, <2>1, Zenon DEF PartsIn
  <1>6. \A c : Lacks(u.host, c) <=> c \notin Cfg!Range(u.host) BY <1>3, LacksRange, Zenon
  <1>7. u.port # None => \A c : Lacks(u.port, c) <=> c \notin Cfg!Range(u.port)
    BY <1>4, LacksRange, Zenon
  <1>8. u.path # None => \A c : Lacks(u.path, c) <=> c \notin Cfg!Range(u.path)
    BY <1>4, LacksRange, Zenon
  <1>9. u.port # None => Lacks(u.port, "/") BY <1>7, Zenon DEF Cfg!WellWritten
  <1>10. u.port = None => u.path = None \/ Lacks(u.path, ":")
    BY <1>8, Zenon DEF Cfg!Misread, Cfg!ColonInPath
  <1>11. u.v6 \/ u.path = None \/ (Lacks(u.path, "[") /\ Lacks(u.path, "]"))
    <2> SUFFICES ASSUME ~u.v6, u.path # None PROVE Lacks(u.path, "[") /\ Lacks(u.path, "]")
      OBVIOUS
    <2>1. {"[", "]"} \cap Cfg!Range(u.path) = {} BY Zenon DEF Cfg!Misread, Cfg!BracketInPath
    <2>2. "[" \notin Cfg!Range(u.path) /\ "]" \notin Cfg!Range(u.path) BY <2>1
    <2> QED BY <1>8, <2>2, Zenon
  <1>13. CASE insecure = -1
    <2>1. insecure < 0 /\ ~(insecure >= 0) BY <1>13
    <2>2. Cfg!parse_webpa_url__(u.scheme, Cfg!Text(u)) = Cfg!Refused
      BY <1>0, <2>1, SMT DEF Cfg!parse_webpa_url__
    <2>3. Cfg!Refused.insecure < 0 BY DEF Cfg!Refused
    <2>4. Parsed(u) = Cfg!Refused BY <2>2, <2>3, SMT DEF Parsed, Cfg!parse_webpa_url
    <2>5. Cfg!Meaning(u) = Cfg!Refused BY <1>0, <2>1, SMT DEF Cfg!Meaning
    <2> QED BY <2>4, <2>5
  <1>14. CASE insecure # -1 /\ ~u.v6 /\ ~(NamedWithout(u, "[") /\ NamedWithout(u, "]"))
    <2>1. insecure >= 0 /\ ~(insecure < 0) BY <1>1, <1>14
    <2>2. NamedWithout(u, "[") \/ NamedWithout(u, "]")
      <3>1. ~({"[", "]"} \subseteq
                 Cfg!Range(u.host) \cup (IF u.port = None THEN {} ELSE Cfg!Range(u.port)))
        BY <1>14, Zenon DEF Cfg!Misread, Cfg!StrayBrackets
      <3>2. PICK c \in {"[", "]"} :
               /\ c \notin Cfg!Range(u.host)
               /\ u.port = None \/ c \notin Cfg!Range(u.port)
        BY <3>1
      <3>3. NamedWithout(u, c) BY <1>6, <1>7, <3>2, Zenon DEF NamedWithout
      <3> QED BY <3>2, <3>3
    <2>3. \/ ~NamedWithout(u, "[") /\ NamedWithout(u, "]")
          \/ NamedWithout(u, "[") /\ ~NamedWithout(u, "]")
      BY <1>14, <2>2, Zenon
    <2>4. Cfg!parse_webpa_url__(u.scheme, Cfg!Text(u)) = Cfg!Refused
      BY <1>0, <1>5, <1>11, <1>14, <2>1, <2>3, OneBracket, Zenon
    <2>5. Cfg!Refused.insecure < 0 BY DEF Cfg!Refused
    <2>6. Parsed(u) = Cfg!Refused BY <2>4, <2>5, SMT DEF Parsed, Cfg!parse_webpa_url
    <2>7. PICK c \in {"[", "]"} : ~NamedWithout(u, c) BY <1>14, Zenon
    <2>8. Cfg!Meaning(u) = Cfg!Refused
      <3>1. CASE ~Lacks(u.host, c)
        <4>1. c \in Cfg!Range(u.host) BY <1>6, <3>1, Zenon
        <4>2. {"[", "]"} \cap Cfg!Range(u.host) # {} BY <2>7, <4>1
        <4> QED BY <4>2, Zenon DEF Cfg!Meaning
      <3>2. CASE u.port # None /\ ~Lacks(u.port, c)
        <4>1. c \in Cfg!Range(u.port) BY <1>7, <3>2, Zenon
        <4>2. c \notin Cfg!Range(Cfg!Digits) BY <2>7, BracketNoDigit, Zenon
        <4>3. ~Cfg!IsNumber(u.port) BY <4>1, <4>2, Zenon DEF Cfg!IsNumber
        <4> QED BY <3>2, <4>3, Zenon DEF Cfg!Meaning
      <3> QED BY <2>7, <3>1, <3>2, Zenon DEF NamedWithout
    <2> QED BY <2>6, <2>8
  <1>15. CASE insecure # -1 /\ (u.v6 \/ (NamedWithout(u, "[") /\ NamedWithout(u, "]")))
    <2>1. insecure >= 0 /\ ~(insecure < 0) BY <1>1, <1>15
    <2>2. Lacks(u.host, "[") /\ Lacks(u.host, "]")
      <3>1. CASE u.v6
        <4>1. {"[", "]"} \cap Cfg!Range(u.host) = {}
          BY <3>1, Zenon DEF Cfg!Misread, Cfg!StrayBrackets
        <4>2. "[" \notin Cfg!Range(u.host) /\ "]" \notin Cfg!Range(u.host) BY <4>1
        <4> QED BY <1>6, <4>2, Zenon
      <3>2. CASE ~u.v6 BY <1>15, <3>2, Zenon DEF NamedWithout
      <3> QED BY <3>1, <3>2
    <2>3. u.v6 \/ (Lacks(u.host, "/") /\ Lacks(u.host, ":"))
      <3> SUFFICES ASSUME ~u.v6 PROVE Lacks(u.host, "/") /\ Lacks(u.host, ":") OBVIOUS
      <3>1. "[" \notin Cfg!Range(u.host) /\ "]" \notin Cfg!Range(u.host)
        BY <1>6, <2>2, Zenon
      <3>2. {"[", "]"} \cap Cfg!Range(u.host) = {} BY <3>1
      <3>3. {":", "/"} \cap Cfg!Range(u.host) = {} BY <3>2, Zenon DEF Cfg!WellWritten
      <3>4. ":" \notin Cfg!Range(u.host) /\ "/" \notin Cfg!Range(u.host) BY <3>3
      <3> QED BY <1>6, <3>4, Zenon
    <2>4. u.v6 \/ u.port = None \/ (Lacks(u.port, "[") /\ Lacks(u.port, "]"))
      BY <1>15, Zenon DEF NamedWithout
    <2>5. Cfg!parse_webpa_url__(u.scheme, Cfg!Text(u))
            = [insecure |-> insecure, addr |-> u.host, port |-> PortOr(u.port, insecure)]
      BY <1>0, <1>5, <1>9, <1>10, <1>11, <2>1, <2>2, <2>3, <2>4, PartsRead, Zenon
    <2>6. PICK p : p = PortFor(u, insecure) OBVIOUS
    <2>7. /\ p \in Seq(Chars) /\ (Len(p) < 8 \/ p[1] # "0" \/ p[2] # "0")
          /\ PortOr(u.port, insecure) = Cut(p)
      <3>1. CASE u.port = None
        <4>1. p = Cfg!DefaultPort(insecure) BY <2>6, <3>1, Zenon DEF PortFor
        <4>2. p = <<"8", "0">> \/ p = <<"4", "4", "3">> BY <4>1, Zenon DEF Cfg!DefaultPort
        <4>3. p \in Seq(Chars)
          <5>1. "8" \in Chars /\ "0" \in Chars /\ "4" \in Chars /\ "3" \in Chars
            <6>1. Cfg!Digits[9] = "8" /\ Cfg!Digits[1] = "0" /\ Cfg!Digits[5] = "4"
                  /\ Cfg!Digits[4] = "3" /\ 1..10 \subseteq DOMAIN Cfg!Digits
              BY DEF Cfg!Digits
            <6>2. 9 \in 1..10 /\ 1 \in 1..10 /\ 5 \in 1..10 /\ 4 \in 1..10 OBVIOUS
            <6> QED BY <6>1, <6>2, Zenon DEF Cfg!CharsSuffice, Cfg!Range
          <5>2. <<"8", "0">> \in Seq(Chars) BY <5>1
          <5>3. <<"4", "4", "3">> \in Seq(Chars) BY <5>1
          <5> QED BY <4>2, <5>2, <5>3, Zenon
        <4>4. Len(p) < 8
          <5>1. Len(<<"8", "0">>) < 8 /\ Len(<<"4", "4", "3">>) < 8 OBVIOUS
          <5> QED BY <4>2, <5>1, Zenon
        <4>5. Cut(p) = p
          <5>1. SubSeq(p, 1, Len(p)) = p BY <4>3, SubSeqFull
          <5> QED BY <4>4, <5>1, SMT DEF Cut, Cfg!parStrncpy, Cfg!PORT_BUFLEN
        <4>6. PortOr(u.port, insecure) = p BY <3>1, <4>1, Zenon DEF PortOr
        <4> QED BY <4>3, <4>4, <4>5, <4>6, Zenon
      <3>2. CASE u.port # None
        <4>1. p = u.port BY <2>6, <3>2, Zenon DEF PortFor
        <4>2. PortOr(u.port, insecure) = Cut(p) BY <3>2, <4>1, Zenon DEF PortOr
        <4>3. ~(Len(p) >= 8) \/ p[1] # "0" \/ p[2] # "0"
          BY <3>2, <4>1, Zenon DEF Cfg!Misread, Cfg!CutPort, Cfg!PORT_BUFLEN
        <4>4. p \in Seq(Chars) BY <1>4, <3>2, <4>1, Zenon
        <4>5. Len(p) \in Nat BY <4>4
        <4>6. Len(p) >= 8 \/ Len(p) < 8 BY <4>5
        <4> QED BY <4>2, <4>3, <4>4, <4>6, Zenon
      <3> QED BY <3>1, <3>2
    <2>8. PICK n : n = Cfg!parse_num_arg(Cut(p)) OBVIOUS
    <2>9. /\ PortTaken(n) <=> PortMeant(p)
          /\ PortMeant(p) => n = Cfg!Written(p)
      BY <2>7, <2>8, PortRead, Zenon
    <2>10. Parsed(u) = IF PortTaken(n) THEN [insecure |-> insecure, addr |-> u.host, port |-> n]
                      ELSE Cfg!Refused
      <3>1. Cfg!parse_webpa_url__(u.scheme, Cfg!Text(u))
              = [insecure |-> insecure, addr |-> u.host, port |-> Cut(p)]
        BY <2>5, <2>7, Zenon
      <3> QED BY <2>1, <2>8, <3>1, SMT DEF Parsed, Cfg!parse_webpa_url, PortTaken
    <2>11. Cfg!Meaning(u) = IF PortMeant(p)
                            THEN [insecure |-> insecure, addr |-> u.host, port |-> Cfg!Written(p)]
                            ELSE Cfg!Refused
      <3>1. PICK brackets : brackets = {"[", "]"} \cap Cfg!Range(u.host) OBVIOUS
      <3>2. brackets = {}
        <4>1. "[" \notin Cfg!Range(u.host) /\ "]" \notin Cfg!Range(u.host)
          BY <1>6, <2>2, Zenon
        <4> QED BY <3>1, <4>1
      <3>3. Cfg!Meaning(u)
              = IF insecure < 0 \/ brackets # {} \/ ~PortMeant(p) THEN Cfg!Refused
                ELSE [insecure |-> insecure, addr |-> u.host, port |-> Cfg!Written(p)]
        BY <1>0, <2>6, <3>1, Zenon DEF Cfg!Meaning, PortFor, PortMeant
      <3> QED BY <2>1, <3>2, <3>3, Zenon
    <2> QED BY <2>9, <2>10, <2>11, Zenon
  <1> QED BY <1>13, <1>14, <1>15
-----------------------------------------------------------------------------
(* The options that were given                                              *)

Places(g, n) == {j \in 1..Len(g) : g[j].opt = n}
ArgsIn(g, n) == {g[k].arg : k \in Places(g, n)}
Latest(g, n, k) == k \in Places(g, n) /\ \A j \in Places(g, n) : j <= k
LastIn(g, n) == g[CHOOSE k \in Places(g, n) : \A j \in Places(g, n) : j <= k].arg
HasLast(g, n) == Places(g, n) # {} => \E k : Latest(g, n, k)

\* The last one of some places is one of them.
LEMMA LastIsOne ==
  ASSUME NEW g, NEW n, HasLast(g, n), Places(g, n) # {}
  PROVE  \E k : Latest(g, n, k) /\ LastIn(g, n) = g[k].arg
  <1>1. PICK k \in Places(g, n) : \A j \in Places(g, n) : j <= k BY Zenon DEF HasLast, Latest
  <1>2. PICK c : c = CHOOSE i_ \in Places(g, n) : \A j \in Places(g, n) : j <= i_ OBVIOUS
  <1>3. c \in Places(g, n) /\ \A j \in Places(g, n) : j <= c BY <1>1, <1>2, Zenon
  <1> QED BY <1>2, <1>3, Zenon DEF Latest, LastIn

\* There is one last place only.
LEMMA LastIsThat ==
  ASSUME NEW S, NEW g \in Seq(S), NEW n, NEW k, Latest(g, n, k)
  PROVE  HasLast(g, n) /\ Places(g, n) # {} /\ LastIn(g, n) = g[k].arg
  <1>1. HasLast(g, n) /\ Places(g, n) # {} BY Zenon DEF HasLast, Latest
  <1>2. PICK c : Latest(g, n, c) /\ LastIn(g, n) = g[c].arg BY <1>1, LastIsOne, Zenon
  <1>3. c <= k /\ k <= c BY <1>2, Zenon DEF Latest
  <1>4. c \in Int /\ k \in Int
    <2>1. Len(g) \in Nat OBVIOUS
    <2> QED BY <1>2, <2>1 DEF Latest, Places
  <1>5. c = k BY <1>3, <1>4
  <1> QED BY <1>1, <1>2, <1>5

\* What a further option adds to what was given.
LEMMA OptionAdded ==
  ASSUME NEW S, NEW g \in Seq(S), NEW o \in S, NEW n, HasLast(g, n)
  PROVE  /\ HasLast(Append(g, o), n)
         /\ o.opt = n => /\ ArgsIn(Append(g, o), n) = ArgsIn(g, n) \cup {o.arg}
                         /\ LastIn(Append(g, o), n) = o.arg
         /\ o.opt # n => /\ ArgsIn(Append(g, o), n) = ArgsIn(g, n)
                         /\ ArgsIn(g, n) # {} => LastIn(Append(g, o), n) = LastIn(g, n)
  <1>1. PICK L \in Nat : L = Len(g) OBVIOUS
  <1>2. PICK h : h = Append(g, o) OBVIOUS
  <1>0. h \in Seq(S) BY <1>2
  <1>3. Len(h) = L + 1 /\ h[L + 1] = o /\ \A k \in 1..L : h[k] = g[k] BY <1>1, <1>2
  <1>4. \A k : k \in 1..(L + 1) <=> (k \in 1..L \/ k = L + 1) BY <1>1
  <1>5. L + 1 \notin 1..L BY <1>1
  <1>6. Places(g, n) \subseteq 1..L BY <1>1 DEF Places
  <1>7. CASE o.opt = n
    <2>1. Places(h, n) = Places(g, n) \cup {L + 1}
      BY <1>1, <1>3, <1>4, <1>7, Zenon DEF Places
    <2>2. \A k \in Places(g, n) : h[k] = g[k] BY <1>3, <1>6
    <2>3. ArgsIn(h, n) = ArgsIn(g, n) \cup {o.arg}
      <3>1. h[L + 1].arg = o.arg BY <1>3
      <3>2. ASSUME NEW a \in ArgsIn(h, n) PROVE a \in ArgsIn(g, n) \cup {o.arg}
        <4>1. PICK k \in Places(h, n) : a = h[k].arg BY <3>2 DEF ArgsIn
        <4>2. k \in Places(g, n) \/ k = L + 1 BY <2>1, <4>1
        <4> QED BY <2>2, <3>1, <4>1, <4>2 DEF ArgsIn
      <3>3. ASSUME NEW a \in ArgsIn(g, n) PROVE a \in ArgsIn(h, n)
        <4>1. PICK k \in Places(g, n) : a = g[k].arg BY <3>3 DEF ArgsIn
        <4>2. k \in Places(h, n) /\ h[k] = g[k] BY <2>1, <2>2, <4>1
        <4> QED BY <4>1, <4>2 DEF ArgsIn
      <3>4. o.arg \in ArgsIn(h, n) BY <2>1, <3>1 DEF ArgsIn
      <3> QED BY <3>2, <3>3, <3>4
    <2>4. \A j \in Places(g, n) : j <= L + 1 BY <1>1, <1>6
    <2>5. Latest(h, n, L + 1)
      <3>1. L + 1 <= L + 1 BY <1>1
      <3> QED BY <2>1, <2>4, <3>1 DEF Latest
    <2>6. HasLast(h, n) /\ LastIn(h, n) = h[L + 1].arg BY <1>0, <2>5, LastIsThat, Zenon
    <2> QED BY <1>2, <1>3, <1>7, <2>3, <2>6
  <1>8. CASE o.opt # n
    <2>1. Places(h, n) = Places(g, n)
      BY <1>1, <1>3, <1>4, <1>8, Zenon DEF Places
    <2>2. \A k \in Places(g, n) : h[k] = g[k] BY <1>3, <1>6
    <2>3. ArgsIn(h, n) = ArgsIn(g, n) BY <2>1, <2>2, Zenon DEF ArgsIn
    <2>4. HasLast(h, n) BY <2>1 DEF HasLast, Latest
    <2>5. ASSUME ArgsIn(g, n) # {} PROVE LastIn(h, n) = LastIn(g, n)
      <3>1. Places(g, n) # {} BY <2>5 DEF ArgsIn
      <3>2. PICK k : Latest(g, n, k) /\ LastIn(g, n) = g[k].arg BY <3>1, LastIsOne, Zenon
      <3>3. Latest(h, n, k) /\ k \in Places(g, n) BY <2>1, <3>2 DEF Latest
      <3>4. LastIn(h, n) = h[k].arg BY <1>0, <3>3, LastIsThat, Zenon
      <3> QED BY <2>2, <3>2, <3>3, <3>4
    <2> QED BY <1>2, <1>8, <2>3, <2>4, <2>5
  <1> QED BY <1>7, <1>8
-----------------------------------------------------------------------------
(* One option                                                               *)

\* What the code tells of an argument by itself.
RightArg(n, a) ==
    /\ n \in Cfg!Numbers => Cfg!parse_num_arg(a) # Cfg!NoNumber
    /\ n = "webpa-url" => a.scheme \in {"https", "http"}
    /\ n = "hw-mac" => a = 12
    /\ n = "jwt-algo" => Cfg!Range(a) \subseteq Cfg!rsa_algorithms
    /\ n = "jwt-public-key-file" => a # "missing"

\* What is stored of an argument, for the options the properties are about.
Reading(n, a, v) ==
    /\ n \in Cfg!Texts \cup {"webpa-url", "jwt-public-key-file"} => v = a
    /\ n \in Cfg!Numbers \cup Cfg!Unchecked => v = Cfg!parse_num_arg(a)
    /\ n = "jwt-algo" => v = Cfg!Range(a)

\* The options whose last value counts.
LastCounting == Cfg!Texts \cup Cfg!Numbers \cup Cfg!Unchecked \cup {"webpa-url", "jwt-algo"}

Skipped(o) == o.opt \notin Cfg!Known \/ (o.opt = "jwt-public-key-file" /\ o.arg = "empty")

\* The options by their names.
LEMMA Names ==
    /\ Cfg!Known = Cfg!Numbers \cup Cfg!Unchecked \cup Cfg!Checked \cup Cfg!Texts
    /\ \A n \in Cfg!Numbers : n \notin Cfg!Unchecked /\ n \notin Cfg!Checked /\ n \notin Cfg!Texts
    /\ \A n \in Cfg!Unchecked : n \notin Cfg!Checked /\ n \notin Cfg!Texts
    /\ \A n \in Cfg!Checked : n \notin Cfg!Texts
    /\ {"webpa-url", "hw-mac", "jwt-algo", "jwt-public-key-file", "force-ipv4", "force-ipv6"}
          = Cfg!Checked
    /\ "acquire-jwt" \in Cfg!Numbers
  BY DEF Cfg!Known, Cfg!Numbers, Cfg!Unchecked, Cfg!Checked, Cfg!Texts

\* A scheme is https, http or refused.
LEMMA Scheme == \A x : Cfg!server_is_http(x) < 0 <=> x \notin {"https", "http"}
  <1> SUFFICES ASSUME NEW x PROVE Cfg!server_is_http(x) < 0 <=> x \notin {"https", "http"}
    OBVIOUS
  <1>1. CASE x = "https" BY <1>1 DEF Cfg!server_is_http
  <1>2. CASE x = "http" BY <1>2 DEF Cfg!server_is_http
  <1>3. CASE x \notin {"https", "http"} BY <1>3 DEF Cfg!server_is_http
  <1> QED BY <1>1, <1>2, <1>3

\* An option that is wrong aborts; another is stored.
LEMMA OptionStep ==
  ASSUME Cfg!OptionsTyped, NEW o \in AllOptions, Cfg!ParseOption(o)
  PROVE  /\ cpc = "options" /\ given' = Append(given, o) /\ cserver' = cserver
         /\ ~RightArg(o.opt, o.arg) => cpc' = "aborted"
         /\ RightArg(o.opt, o.arg) =>
               /\ cpc' = "options"
               /\ IF Skipped(o) THEN cfg' = cfg
                  ELSE \E v : cfg' = [cfg EXCEPT ![o.opt] = v] /\ Reading(o.opt, o.arg, v)
  <1> USE Names
  <1>1. CASE Cfg!NumberOption(o)
    <2>1. o.opt \in Cfg!Numbers BY <1>1 DEF Cfg!NumberOption
    <2>2. ~Skipped(o) BY <2>1, Zenon DEF Skipped
    <2>3. RightArg(o.opt, o.arg) <=> Cfg!parse_num_arg(o.arg) # Cfg!NoNumber
      BY <2>1, Zenon DEF RightArg
    <2>4. Reading(o.opt, o.arg, Cfg!parse_num_arg(o.arg)) BY <2>1, Zenon DEF Reading
    <2> QED BY <1>1, <2>2, <2>3, <2>4, Zenon DEF Cfg!NumberOption, Cfg!Read, Cfg!Abort, Cfg!Stores
  <1>2. CASE Cfg!UncheckedOption(o)
    <2>1. o.opt \in Cfg!Unchecked BY <1>2 DEF Cfg!UncheckedOption
    <2>2. ~Skipped(o) BY <2>1, Zenon DEF Skipped
    <2>3. RightArg(o.opt, o.arg) BY <2>1, Zenon DEF RightArg
    <2>4. Reading(o.opt, o.arg, Cfg!parse_num_arg(o.arg)) BY <2>1, Zenon DEF Reading
    <2> QED BY <1>2, <2>2, <2>3, <2>4, Zenon DEF Cfg!UncheckedOption, Cfg!Read, Cfg!Stores
  <1>3. CASE Cfg!UrlOption(o)
    <2>1. o.opt = "webpa-url" BY <1>3 DEF Cfg!UrlOption
    <2>2. ~Skipped(o) BY <2>1 DEF Skipped
    <2>3. RightArg(o.opt, o.arg) <=> ~(Cfg!server_is_http(o.arg.scheme) < 0)
      BY <2>1, Scheme DEF RightArg
    <2>4. Reading(o.opt, o.arg, o.arg) BY <2>1 DEF Reading
    <2> QED BY <1>3, <2>2, <2>3, <2>4, Zenon DEF Cfg!UrlOption, Cfg!Read, Cfg!Abort, Cfg!Stores
  <1>4. CASE Cfg!MacOption(o)
    <2>1. o.opt = "hw-mac" BY <1>4 DEF Cfg!MacOption
    <2>2. ~Skipped(o) BY <2>1 DEF Skipped
    <2>3. RightArg(o.opt, o.arg) <=> o.arg = 12 BY <2>1 DEF RightArg
    <2>4. Reading(o.opt, o.arg, o.arg) BY <2>1 DEF Reading
    <2> QED BY <1>4, <2>2, <2>3, <2>4, Zenon DEF Cfg!MacOption, Cfg!Read, Cfg!Abort, Cfg!Stores
  <1>5. CASE Cfg!AlgoOption(o)
    <2>1. o.opt = "jwt-algo" BY <1>5 DEF Cfg!AlgoOption
    <2>2. ~Skipped(o) BY <2>1 DEF Skipped
    <2>3. RightArg(o.opt, o.arg) <=> Cfg!Range(o.arg) \subseteq Cfg!rsa_algorithms
      BY <2>1 DEF RightArg
    <2>4. Reading(o.opt, o.arg, Cfg!Range(o.arg)) BY <2>1 DEF Reading
    <2>5. Cfg!Range(o.arg) \subseteq Cfg!rsa_algorithms => Cfg!Range(o.arg) # None
      BY Zenon DEF Cfg!OptionsTyped, AllOptions
    <2>6. Cfg!get_algo_mask(o.arg)
            = IF Cfg!Range(o.arg) \subseteq Cfg!rsa_algorithms THEN Cfg!Range(o.arg) ELSE None
      BY Zenon DEF Cfg!get_algo_mask
    <2> QED BY <1>5, <2>2, <2>3, <2>4, <2>5, <2>6, Zenon
            DEF Cfg!AlgoOption, Cfg!Read, Cfg!Abort, Cfg!Stores
  <1>6. CASE Cfg!read_key_from_file(o)
    <2>1. o.opt = "jwt-public-key-file" BY <1>6 DEF Cfg!read_key_from_file
    <2>2. Skipped(o) <=> o.arg = "empty" BY <2>1 DEF Skipped
    <2>3. RightArg(o.opt, o.arg) <=> o.arg # "missing" BY <2>1 DEF RightArg
    <2>4. Reading(o.opt, o.arg, o.arg) BY <2>1 DEF Reading
    <2>5. Cfg!Read(o) BY <1>6 DEF Cfg!read_key_from_file
    <2>6. CASE o.arg = "missing"
      <3>1. Cfg!Abort BY <1>6, <2>6 DEF Cfg!read_key_from_file
      <3> QED BY <2>3, <2>5, <2>6, <3>1 DEF Cfg!Read, Cfg!Abort
    <2>7. CASE o.arg = "empty"
      <3>1. UNCHANGED <<cpc, cfg>> BY <1>6, <2>7 DEF Cfg!read_key_from_file
      <3> QED BY <2>2, <2>3, <2>5, <2>7, <3>1 DEF Cfg!Read
    <2>8. CASE o.arg # "missing" /\ o.arg # "empty"
      <3>1. Cfg!Stores(o, o.arg) BY <1>6, <2>8 DEF Cfg!read_key_from_file
      <3> QED BY <2>2, <2>3, <2>4, <2>5, <2>8, <3>1, Zenon DEF Cfg!Read, Cfg!Stores
    <2> QED BY <2>6, <2>7, <2>8
  <1>7. CASE Cfg!ForceOption(o)
    <2>1. o.opt \in {"force-ipv4", "force-ipv6"} BY <1>7 DEF Cfg!ForceOption
    <2>2. ~Skipped(o) BY <2>1 DEF Skipped
    <2>3. RightArg(o.opt, o.arg) BY <2>1 DEF RightArg
    <2>4. Reading(o.opt, o.arg, TRUE) BY <2>1 DEF Reading
    <2> QED BY <1>7, <2>2, <2>3, <2>4, Zenon DEF Cfg!ForceOption, Cfg!Read, Cfg!Stores
  <1>8. CASE Cfg!TextOption(o)
    <2>1. o.opt \in Cfg!Texts BY <1>8 DEF Cfg!TextOption
    <2>2. ~Skipped(o) BY <2>1 DEF Skipped
    <2>3. RightArg(o.opt, o.arg) BY <2>1 DEF RightArg
    <2>4. Reading(o.opt, o.arg, o.arg) BY <2>1 DEF Reading
    <2> QED BY <1>8, <2>2, <2>3, <2>4, Zenon DEF Cfg!TextOption, Cfg!Read, Cfg!Stores
  <1>9. CASE Cfg!UnknownOption(o)
    <2>1. o.opt \notin Cfg!Known BY <1>9 DEF Cfg!UnknownOption
    <2>2. Skipped(o) BY <2>1 DEF Skipped
    <2>3. RightArg(o.opt, o.arg) BY <2>1 DEF RightArg
    <2> QED BY <1>9, <2>2, <2>3, Zenon DEF Cfg!UnknownOption, Cfg!Read
  <1> QED BY <1>1, <1>2, <1>3, <1>4, <1>5, <1>6, <1>7, <1>8, <1>9, Zenon DEF Cfg!ParseOption
-----------------------------------------------------------------------------
(* The command line                                                         *)

Right(g) == \A n : \A a \in ArgsIn(g, n) : RightArg(n, a)

\* What a URL and a JWT need, as FinalCheck sees it.
Needs(g) ==
    /\ ArgsIn(g, "webpa-url") # {}
    /\ ArgsIn(g, "acquire-jwt") # {} /\ Cfg!parse_num_arg(LastIn(g, "acquire-jwt")) # 0 =>
          ArgsIn(g, "jwt-algo") # {} /\ ArgsIn(g, "jwt-public-key-file") \ {"empty"} # {}

\* Every option has the value it was given last.
Stored(g, c) ==
    /\ DOMAIN c = Cfg!Known
    /\ \A n \in LastCounting :
          ArgsIn(g, n) # {} => Reading(n, LastIn(g, n), c[n])
    /\ ArgsIn(g, "webpa-url") = {} => c["webpa-url"] = None
    /\ ArgsIn(g, "acquire-jwt") = {} => c["acquire-jwt"] = 0
    /\ ArgsIn(g, "jwt-algo") = {} => c["jwt-algo"] = {}
    /\ c["jwt-public-key-file"] = None <=> ArgsIn(g, "jwt-public-key-file") \ {"empty"} = {}

AllHaveLast(g) == \A n : HasLast(g, n)

CInv ==
    /\ cpc \in {"options", "connect", "running", "aborted"}
    /\ given \in Seq(AllOptions) /\ AllHaveLast(given)
    /\ cpc # "aborted" => Right(given) /\ Stored(given, cfg)
    /\ cpc \in {"connect", "running"} => Needs(given)
    /\ cpc \in {"options", "connect"} => cserver = None
    /\ cserver # None => /\ ArgsIn(given, "webpa-url") # {}
                         /\ cserver = Parsed(LastIn(given, "webpa-url"))
    /\ cpc = "running" => /\ cserver = Parsed(LastIn(given, "webpa-url"))
                          /\ cserver # Cfg!Refused
    /\ cpc = "aborted" => \/ ~Right(given) \/ ~Needs(given)
                          \/ Parsed(LastIn(given, "webpa-url")) = Cfg!Refused

\* An argument is one of an option.
LEMMA ArgOfOption ==
  ASSUME NEW g \in Seq(AllOptions), NEW n, NEW a \in ArgsIn(g, n)
  PROVE  \E o \in AllOptions : o.opt = n /\ o.arg = a
  <1>1. PICK k \in Places(g, n) : a = g[k].arg BY Zenon DEF ArgsIn
  <1>2. k \in 1..Len(g) /\ g[k].opt = n BY <1>1 DEF Places
  <1>3. g[k] \in AllOptions BY <1>2
  <1> QED BY <1>1, <1>2, <1>3

\* The last argument is one of the arguments.
LEMMA LastIsArg ==
  ASSUME NEW g, NEW n, HasLast(g, n), ArgsIn(g, n) # {}
  PROVE  LastIn(g, n) \in ArgsIn(g, n)
  <1>1. Places(g, n) # {} BY DEF ArgsIn
  <1>2. PICK k : Latest(g, n, k) /\ LastIn(g, n) = g[k].arg BY <1>1, LastIsOne, Zenon
  <1> QED BY <1>2, Zenon DEF Latest, ArgsIn

\* h has the options of g and o behind them.
AddedTo(g, o, h) ==
    \A n :
       /\ HasLast(h, n)
       /\ o.opt = n => ArgsIn(h, n) = ArgsIn(g, n) \cup {o.arg} /\ LastIn(h, n) = o.arg
       /\ o.opt # n => /\ ArgsIn(h, n) = ArgsIn(g, n)
                       /\ ArgsIn(g, n) = {} \/ LastIn(h, n) = LastIn(g, n)

\* OptionAdded for every option.
LEMMA Added ==
  ASSUME NEW g \in Seq(AllOptions), NEW o \in AllOptions, AllHaveLast(g)
  PROVE  AddedTo(g, o, Append(g, o))
  <1> SUFFICES ASSUME NEW n
               PROVE  /\ HasLast(Append(g, o), n)
                      /\ o.opt = n => /\ ArgsIn(Append(g, o), n) = ArgsIn(g, n) \cup {o.arg}
                                      /\ LastIn(Append(g, o), n) = o.arg
                      /\ o.opt # n => /\ ArgsIn(Append(g, o), n) = ArgsIn(g, n)
                                      /\ \/ ArgsIn(g, n) = {}
                                         \/ LastIn(Append(g, o), n) = LastIn(g, n)
    BY Zenon DEF AddedTo
  <1>1. HasLast(g, n) BY Zenon DEF AllHaveLast
  <1> QED BY <1>1, OptionAdded

\* A further option that is right keeps Right, and one that is wrong ends it.
LEMMA RightAdded ==
  ASSUME NEW g \in Seq(AllOptions), NEW o \in AllOptions, AllHaveLast(g), Right(g)
  PROVE  Right(Append(g, o)) <=> RightArg(o.opt, o.arg)
  <1>1. \A n : /\ o.opt = n => ArgsIn(Append(g, o), n) = ArgsIn(g, n) \cup {o.arg}
               /\ o.opt # n => ArgsIn(Append(g, o), n) = ArgsIn(g, n)
    <2>1. AddedTo(g, o, Append(g, o)) BY Added, Zenon
    <2> QED BY <2>1, Zenon DEF AddedTo
  <1>2. ASSUME Right(Append(g, o)) PROVE RightArg(o.opt, o.arg)
    <2>1. o.arg \in ArgsIn(Append(g, o), o.opt) BY <1>1, Zenon
    <2> QED BY <1>2, <2>1, Zenon DEF Right
  <1>3. ASSUME RightArg(o.opt, o.arg) PROVE Right(Append(g, o))
    <2> SUFFICES ASSUME NEW n, NEW a \in ArgsIn(Append(g, o), n) PROVE RightArg(n, a)
      BY Zenon DEF Right
    <2>1. a \in ArgsIn(g, n) \/ (o.opt = n /\ a = o.arg) BY <1>1, Zenon
    <2> QED BY <1>3, <2>1, Zenon DEF Right
  <1> QED BY <1>2, <1>3, Zenon

\* An option that is skipped is not one whose last value counts.
LEMMA StoredSkipped ==
  ASSUME NEW g \in Seq(AllOptions), NEW o \in AllOptions, NEW c, AllHaveLast(g),
         Stored(g, c), Skipped(o)
  PROVE  Stored(Append(g, o), c)
  <1> USE Names
  <1>1. \A n : /\ o.opt = n => /\ ArgsIn(Append(g, o), n) = ArgsIn(g, n) \cup {o.arg}
               /\ o.opt # n => /\ ArgsIn(Append(g, o), n) = ArgsIn(g, n)
                               /\ ArgsIn(g, n) = {} \/ LastIn(Append(g, o), n) = LastIn(g, n)
    <2>1. AddedTo(g, o, Append(g, o)) BY Added, Zenon
    <2> QED BY <2>1, Zenon DEF AddedTo
  <1>2. o.opt \notin LastCounting
    BY DEF Skipped, LastCounting
  <1>3. o.opt \notin {"webpa-url", "acquire-jwt", "jwt-algo"} BY <1>2 DEF LastCounting
  <1>4. \A n \in LastCounting :
          ArgsIn(Append(g, o), n) # {} => Reading(n, LastIn(Append(g, o), n), c[n])
    BY <1>1, <1>2, Zenon DEF Stored
  <1>5. ArgsIn(Append(g, o), "jwt-public-key-file") \ {"empty"}
          = ArgsIn(g, "jwt-public-key-file") \ {"empty"}
    <2>1. CASE o.opt = "jwt-public-key-file"
      <3>1. o.arg = "empty" BY <2>1 DEF Skipped
      <3> QED BY <1>1, <2>1, <3>1
    <2>2. CASE o.opt # "jwt-public-key-file" BY <1>1, <2>2, Zenon
    <2> QED BY <2>1, <2>2
  <1>6. /\ ArgsIn(Append(g, o), "webpa-url") = ArgsIn(g, "webpa-url")
        /\ ArgsIn(Append(g, o), "acquire-jwt") = ArgsIn(g, "acquire-jwt")
        /\ ArgsIn(Append(g, o), "jwt-algo") = ArgsIn(g, "jwt-algo")
    BY <1>1, <1>3, Zenon
  <1> QED BY <1>4, <1>5, <1>6, Zenon DEF Stored

\* An option that is stored.
LEMMA StoredAdded ==
  ASSUME Cfg!OptionsTyped, NEW g \in Seq(AllOptions), NEW o \in AllOptions, NEW c, NEW v,
         AllHaveLast(g), Stored(g, c), ~Skipped(o), Reading(o.opt, o.arg, v)
  PROVE  Stored(Append(g, o), [c EXCEPT ![o.opt] = v])
  <1> USE Names
  <1>1. \A n : /\ o.opt = n => /\ ArgsIn(Append(g, o), n) = ArgsIn(g, n) \cup {o.arg}
                               /\ LastIn(Append(g, o), n) = o.arg
               /\ o.opt # n => /\ ArgsIn(Append(g, o), n) = ArgsIn(g, n)
                               /\ ArgsIn(g, n) = {} \/ LastIn(Append(g, o), n) = LastIn(g, n)
    <2>1. AddedTo(g, o, Append(g, o)) BY Added, Zenon
    <2> QED BY <2>1, Zenon DEF AddedTo
  <1>2. PICK d : d = [c EXCEPT ![o.opt] = v] OBVIOUS
  <1>3. o.opt \in Cfg!Known BY DEF Skipped
  <1>4. DOMAIN c = Cfg!Known BY DEF Stored
  <1>5. /\ DOMAIN d = Cfg!Known /\ d[o.opt] = v
        /\ \A n \in Cfg!Known : n # o.opt => d[n] = c[n]
    BY <1>2, <1>3, <1>4
  <1>6. ASSUME NEW n \in LastCounting,
               ArgsIn(Append(g, o), n) # {}
        PROVE  Reading(n, LastIn(Append(g, o), n), d[n])
    <2>1. CASE o.opt = n BY <1>1, <1>5, <2>1, Zenon
    <2>2. CASE o.opt # n
      <3>1. n \in Cfg!Known BY DEF LastCounting
      <3>2. Reading(n, LastIn(g, n), c[n]) BY <1>1, <1>6, <2>2, Zenon DEF Stored
      <3>3. LastIn(Append(g, o), n) = LastIn(g, n) BY <1>1, <1>6, <2>2, Zenon
      <3> QED BY <1>5, <2>2, <3>1, <3>2, <3>3, Zenon
    <2> QED BY <2>1, <2>2
  <1>7. \A n \in Cfg!Known : ArgsIn(Append(g, o), n) = {} => ArgsIn(g, n) = {} /\ d[n] = c[n]
    <2> SUFFICES ASSUME NEW n \in Cfg!Known, ArgsIn(Append(g, o), n) = {}
                 PROVE  ArgsIn(g, n) = {} /\ d[n] = c[n]
      OBVIOUS
    <2>1. o.opt # n
      <3> SUFFICES ASSUME o.opt = n PROVE FALSE OBVIOUS
      <3>1. o.arg \in ArgsIn(Append(g, o), n) BY <1>1, Zenon
      <3> QED BY <3>1
    <2> QED BY <1>1, <1>5, <2>1, Zenon
  <1>8. "webpa-url" \in Cfg!Known /\ "acquire-jwt" \in Cfg!Known /\ "jwt-algo" \in Cfg!Known
        /\ "jwt-public-key-file" \in Cfg!Known
    OBVIOUS
  <1>9. d["jwt-public-key-file"] = None
          <=> ArgsIn(Append(g, o), "jwt-public-key-file") \ {"empty"} = {}
    <2>1. CASE o.opt = "jwt-public-key-file"
      <3>1. o.arg # "empty" BY <2>1 DEF Skipped
      <3>2. v = o.arg BY <2>1 DEF Reading
      <3>3. o.arg # None BY <2>1 DEF Cfg!OptionsTyped, AllOptions
      <3>4. o.arg \in ArgsIn(Append(g, o), "jwt-public-key-file") \ {"empty"}
        BY <1>1, <2>1, <3>1, Zenon
      <3> QED BY <1>5, <2>1, <3>2, <3>3, <3>4
    <2>2. CASE o.opt # "jwt-public-key-file"
      BY <1>1, <1>5, <1>8, <2>2, Zenon DEF Stored
    <2> QED BY <2>1, <2>2
  <1>10. Stored(Append(g, o), d)
    BY <1>5, <1>6, <1>7, <1>8, <1>9, Zenon DEF Stored
  <1> QED BY <1>2, <1>10

\* Before the first option.
LEMMA CInit == Cfg!Init => CInv
  <1> SUFFICES ASSUME Cfg!Init PROVE CInv OBVIOUS
  <1>1. cpc = "options" /\ cserver = None /\ given = <<>> BY Zenon DEF Cfg!Init
  <1>2. \A n : Places(given, n) = {} BY <1>1 DEF Places
  <1>3. \A n : ArgsIn(given, n) = {} BY <1>2 DEF ArgsIn
  <1>4. AllHaveLast(given) BY <1>2 DEF AllHaveLast, HasLast
  <1>5. given \in Seq(AllOptions) BY <1>1
  <1>6. Right(given) BY <1>3, Zenon DEF Right
  <1>7. DOMAIN cfg = Cfg!Known BY DEF Cfg!Init
  <1>8. /\ cfg["webpa-url"] = None /\ cfg["acquire-jwt"] = 0 /\ cfg["jwt-algo"] = {}
        /\ cfg["jwt-public-key-file"] = None
    BY DEF Cfg!Init, Cfg!Known, Cfg!Numbers, Cfg!Unchecked, Cfg!Checked, Cfg!Texts
  <1>9. Stored(given, cfg)
    <2>1. ArgsIn(given, "jwt-public-key-file") \ {"empty"} = {} BY <1>3
    <2> QED BY <1>3, <1>7, <1>8, <2>1, Zenon DEF Stored
  <1> QED BY <1>1, <1>4, <1>5, <1>6, <1>9 DEF CInv

\* An option, right or wrong.
LEMMA ParseStep ==
  ASSUME Cfg!OptionsTyped, CInv, NEW o \in AllOptions, Cfg!ParseOption(o)
  PROVE  CInv'
  <1>1. /\ cpc = "options" /\ given' = Append(given, o) /\ cserver' = cserver
        /\ ~RightArg(o.opt, o.arg) => cpc' = "aborted"
        /\ RightArg(o.opt, o.arg) =>
              /\ cpc' = "options"
              /\ IF Skipped(o) THEN cfg' = cfg
                 ELSE \E v : cfg' = [cfg EXCEPT ![o.opt] = v] /\ Reading(o.opt, o.arg, v)
    BY OptionStep, Zenon
  <1>2. /\ given \in Seq(AllOptions) /\ AllHaveLast(given) /\ cserver = None
        /\ Right(given) /\ Stored(given, cfg)
    BY <1>1 DEF CInv
  <1>3. given' \in Seq(AllOptions) BY <1>1, <1>2
  <1>4. AllHaveLast(given')
    <2>1. AddedTo(given, o, Append(given, o)) BY <1>2, Added, Zenon
    <2> QED BY <1>1, <2>1, Zenon DEF AddedTo, AllHaveLast
  <1>5. Right(Append(given, o)) <=> RightArg(o.opt, o.arg) BY <1>2, RightAdded, Zenon
  <1>6. CASE ~RightArg(o.opt, o.arg)
    <2>1. ~Right(given') /\ cpc' = "aborted" BY <1>1, <1>5, <1>6, Zenon
    <2> QED BY <1>1, <1>2, <1>3, <1>4, <2>1 DEF CInv
  <1>7. CASE RightArg(o.opt, o.arg)
    <2>1. Right(given') /\ cpc' = "options" BY <1>1, <1>5, <1>7, Zenon
    <2>2. Stored(given', cfg')
      <3>1. CASE Skipped(o)
        <4>1. Stored(Append(given, o), cfg) BY <1>2, <3>1, StoredSkipped, Zenon
        <4> QED BY <1>1, <1>7, <3>1, <4>1, Zenon
      <3>2. CASE ~Skipped(o)
        <4>1. PICK v : cfg' = [cfg EXCEPT ![o.opt] = v] /\ Reading(o.opt, o.arg, v)
          BY <1>1, <1>7, <3>2, Zenon
        <4>2. Stored(Append(given, o), [cfg EXCEPT ![o.opt] = v])
          BY <1>2, <3>2, <4>1, StoredAdded, Zenon
        <4> QED BY <1>1, <4>1, <4>2, Zenon
      <3> QED BY <3>1, <3>2, Zenon
    <2> QED BY <1>1, <1>2, <1>3, <1>4, <2>1, <2>2 DEF CInv
  <1> QED BY <1>6, <1>7, Zenon

\* The final check sees what the command line lacks.
LEMMA CheckSeesNeeds ==
  ASSUME Cfg!OptionsTyped, CInv, cpc = "options"
  PROVE  Needs(given) <=>
           ~ \/ cfg["webpa-url"] = None
             \/ cfg["acquire-jwt"] # 0 /\ cfg["jwt-algo"] = {}
             \/ /\ cfg["acquire-jwt"] # 0 /\ cfg["jwt-algo"] \cap Cfg!rsa_algorithms # {}
                /\ cfg["jwt-public-key-file"] = None
  <1> USE Names
  <1>1. /\ given \in Seq(AllOptions) /\ \A n : HasLast(given, n)
        /\ Right(given) /\ Stored(given, cfg)
    BY DEF CInv, AllHaveLast
  <1>2. \A n : ArgsIn(given, n) # {} => LastIn(given, n) \in ArgsIn(given, n)
    BY <1>1, LastIsArg, Zenon
  <1>3. cfg["webpa-url"] = None <=> ArgsIn(given, "webpa-url") = {}
    <2>1. ASSUME ArgsIn(given, "webpa-url") # {} PROVE cfg["webpa-url"] # None
      <3>1. PICK a : a = LastIn(given, "webpa-url") OBVIOUS
      <3>2. a \in ArgsIn(given, "webpa-url") BY <1>2, <2>1, <3>1, Zenon
      <3>3. a # None BY <1>1, <3>2, ArgOfOption DEF Cfg!OptionsTyped, AllOptions
      <3>4. cfg["webpa-url"] = a BY <1>1, <2>1, <3>1 DEF Stored, Reading, LastCounting
      <3> QED BY <3>3, <3>4
    <2> QED BY <1>1, <2>1, Zenon DEF Stored
  <1>4. cfg["acquire-jwt"] # 0 <=>
          ArgsIn(given, "acquire-jwt") # {} /\ Cfg!parse_num_arg(LastIn(given, "acquire-jwt")) # 0
    <2>1. CASE ArgsIn(given, "acquire-jwt") = {} BY <1>1, <2>1, Zenon DEF Stored
    <2>2. CASE ArgsIn(given, "acquire-jwt") # {}
      <3>1. Reading("acquire-jwt", LastIn(given, "acquire-jwt"), cfg["acquire-jwt"])
        BY <1>1, <2>2 DEF Stored, LastCounting
      <3>2. cfg["acquire-jwt"] = Cfg!parse_num_arg(LastIn(given, "acquire-jwt"))
        BY <3>1, Zenon DEF Reading
      <3> QED BY <2>2, <3>2, Zenon
    <2> QED BY <2>1, <2>2, Zenon
  <1>5. /\ cfg["jwt-algo"] = {} <=> ArgsIn(given, "jwt-algo") = {}
        /\ cfg["jwt-algo"] \subseteq Cfg!rsa_algorithms
    <2>1. CASE ArgsIn(given, "jwt-algo") = {} BY <1>1, <2>1 DEF Stored
    <2>2. CASE ArgsIn(given, "jwt-algo") # {}
      <3>1. PICK a : a = LastIn(given, "jwt-algo") OBVIOUS
      <3>2. a \in ArgsIn(given, "jwt-algo") BY <1>2, <2>2, <3>1, Zenon
      <3>3. Cfg!Range(a) # {} BY <1>1, <3>2, ArgOfOption DEF Cfg!OptionsTyped, AllOptions
      <3>4. RightArg("jwt-algo", a) BY <1>1, <3>2, Zenon DEF Right
      <3>5. Cfg!Range(a) \subseteq Cfg!rsa_algorithms BY <3>4 DEF RightArg
      <3>6. Reading("jwt-algo", a, cfg["jwt-algo"]) BY <1>1, <2>2, <3>1 DEF Stored, LastCounting
      <3>7. cfg["jwt-algo"] = Cfg!Range(a) BY <3>6 DEF Reading
      <3> QED BY <2>2, <3>3, <3>5, <3>7
    <2> QED BY <2>1, <2>2, Zenon
  <1>6. cfg["jwt-public-key-file"] = None
          <=> ArgsIn(given, "jwt-public-key-file") \ {"empty"} = {}
    BY <1>1, Zenon DEF Stored
  <1>7. cfg["jwt-algo"] \cap Cfg!rsa_algorithms # {} <=> cfg["jwt-algo"] # {} BY <1>5
  <1> QED BY <1>3, <1>4, <1>5, <1>6, <1>7, Zenon DEF Needs

\* The options, the final check and the first connection.
LEMMA CStep == ASSUME Cfg!OptionsTyped, CInv, [Cfg!Next]_(Cfg!vars) PROVE CInv'
  <1>1. CASE \E o \in Cfg!Offered : Cfg!ParseOption(o)
    <2>1. PICK o \in Cfg!Offered : Cfg!ParseOption(o) BY <1>1
    <2>2. o \in AllOptions BY DEF Cfg!Offered, AllOptions
    <2> QED BY <2>1, <2>2, ParseStep
  <1>2. CASE Cfg!FinalCheck
    <2>1. /\ cpc = "options" /\ UNCHANGED <<cfg, cserver, given>>
          /\ cpc' = IF Needs(given) THEN "connect" ELSE "aborted"
      BY <1>2, CheckSeesNeeds, Zenon DEF Cfg!FinalCheck
    <2> QED BY <2>1 DEF CInv
  <1>3. CASE Cfg!FirstConnect
    <2>1. /\ cpc = "connect" /\ UNCHANGED <<cfg, given>>
          /\ cserver' = Parsed(cfg["webpa-url"])
          /\ cpc' = IF cserver' = Cfg!Refused THEN "aborted" ELSE "running"
      BY <1>3, Zenon DEF Cfg!FirstConnect, Parsed
    <2>2. Right(given) /\ Stored(given, cfg) /\ Needs(given) BY <2>1 DEF CInv
    <2>3. ArgsIn(given, "webpa-url") # {} BY <2>2 DEF Needs
    <2>4. cfg["webpa-url"] = LastIn(given, "webpa-url") BY <2>2, <2>3 DEF Stored, Reading, LastCounting
    <2> QED BY <2>1, <2>2, <2>3, <2>4 DEF CInv
  <1>4. CASE UNCHANGED Cfg!vars BY <1>4 DEF Cfg!vars, CInv
  <1> QED BY <1>1, <1>2, <1>3, <1>4, Zenon DEF Cfg!Next

\* The invariant of the command line.
LEMMA CInvAlways == ASSUME Cfg!OptionsTyped PROVE Cfg!Spec => []CInv
  <1>1. CInv /\ [Cfg!Next]_(Cfg!vars) => CInv' BY CStep
  <1> QED BY <1>1, CInit, PTL DEF Cfg!Spec

\* The arguments, in the terms of Config.
LEMMA SameArgs ==
    \A n : Cfg!Args(n) = ArgsIn(given, n) /\ Cfg!LastArg(n) = LastIn(given, n)
  BY Zenon DEF Cfg!Args, Cfg!LastArg, ArgsIn, LastIn, Places

\* What the code finds right and needed is what is written right and needed.
LEMMA SameNeeds ==
  ASSUME Cfg!OptionsTyped, Cfg!WideEnough, CInv
  PROVE  /\ Right(given) <=> Cfg!EachRight
         /\ Right(given) => (Needs(given) <=> Cfg!JwtUsable /\ Cfg!Args("webpa-url") # {})
         /\ Right(given) =>
              \A n \in Cfg!Numbers : ArgsIn(given, n) # {} =>
                  Cfg!parse_num_arg(LastIn(given, n)) = Cfg!Kept(LastIn(given, n))
         /\ \A n \in Cfg!Unchecked : ArgsIn(given, n) # {} =>
              Cfg!parse_num_arg(LastIn(given, n))
                = IF Cfg!IsNumber(LastIn(given, n)) THEN Cfg!Kept(LastIn(given, n))
                  ELSE Cfg!NoNumber
  <1> USE Names
  <1>1. given \in Seq(AllOptions) /\ \A n : HasLast(given, n) BY DEF CInv, AllHaveLast
  <1>2. \A n \in Cfg!Numbers \cup Cfg!Unchecked : \A a \in ArgsIn(given, n) :
          Cfg!parse_num_arg(a) = IF Cfg!IsNumber(a) THEN Cfg!Kept(a) ELSE Cfg!NoNumber
    <2> SUFFICES ASSUME NEW n \in Cfg!Numbers \cup Cfg!Unchecked, NEW a \in ArgsIn(given, n)
                 PROVE  Cfg!parse_num_arg(a)
                          = IF Cfg!IsNumber(a) THEN Cfg!Kept(a) ELSE Cfg!NoNumber
      OBVIOUS
    <2>1. PICK o \in AllOptions : o.opt = n /\ o.arg = a BY <1>1, ArgOfOption
    <2>2. o \in Options \cup Alone /\ o.opt \in Cfg!Numbers \cup Cfg!Unchecked
      BY <2>1, Zenon DEF AllOptions
    <2>3. a \in Seq(Chars) BY <2>1, <2>2, Zenon DEF Cfg!OptionsTyped
    <2> QED BY <2>3, NumberRead, Zenon
  <1>3. Right(given) <=> Cfg!EachRight
    <2>1. ASSUME Right(given) PROVE Cfg!EachRight
      <3>1. \A n : \A a \in Cfg!Args(n) : RightArg(n, a) BY <2>1, SameArgs, Zenon DEF Right
      <3>2. \A n \in Cfg!Numbers : \A a \in Cfg!Args(n) :
              Cfg!IsNumber(a) /\ Cfg!Kept(a) # Cfg!NoNumber
        BY <1>2, <3>1, SameArgs, Zenon DEF RightArg
      <3>3. \A u \in Cfg!Args("webpa-url") : u.scheme \in {"https", "http"}
        BY <3>1, Zenon DEF RightArg
      <3>4. Cfg!Args("hw-mac") \subseteq {12} BY <3>1 DEF RightArg
      <3>5. \A a \in Cfg!Args("jwt-algo") : Cfg!Range(a) \subseteq Cfg!rsa_algorithms
        BY <3>1, Zenon DEF RightArg
      <3>6. "missing" \notin Cfg!Args("jwt-public-key-file") BY <3>1, Zenon DEF RightArg
      <3> QED BY <3>2, <3>3, <3>4, <3>5, <3>6, Zenon DEF Cfg!EachRight
    <2>2. ASSUME Cfg!EachRight PROVE Right(given)
      <3> SUFFICES ASSUME NEW n, NEW a \in ArgsIn(given, n) PROVE RightArg(n, a)
        BY Zenon DEF Right
      <3>1. a \in Cfg!Args(n) BY SameArgs, Zenon
      <3>2. n \in Cfg!Numbers => Cfg!parse_num_arg(a) # Cfg!NoNumber
        BY <1>2, <2>2, <3>1, Zenon DEF Cfg!EachRight
      <3>3. n = "webpa-url" => a.scheme \in {"https", "http"}
        BY <2>2, <3>1, Zenon DEF Cfg!EachRight
      <3>4. n = "hw-mac" => a = 12 BY <2>2, <3>1, Zenon DEF Cfg!EachRight
      <3>5. n = "jwt-algo" => Cfg!Range(a) \subseteq Cfg!rsa_algorithms
        BY <2>2, <3>1, Zenon DEF Cfg!EachRight
      <3>6. n = "jwt-public-key-file" => a # "missing" BY <2>2, <3>1, Zenon DEF Cfg!EachRight
      <3> QED BY <3>2, <3>3, <3>4, <3>5, <3>6, Zenon DEF RightArg
    <2> QED BY <2>1, <2>2, Zenon
  <1>4. ASSUME Right(given), NEW n \in Cfg!Numbers, ArgsIn(given, n) # {}
        PROVE  Cfg!parse_num_arg(LastIn(given, n)) = Cfg!Kept(LastIn(given, n))
    <2>1. PICK a : a = LastIn(given, n) OBVIOUS
    <2>2. a \in ArgsIn(given, n) BY <1>1, <1>4, <2>1, LastIsArg, Zenon
    <2>3. Cfg!parse_num_arg(a) # Cfg!NoNumber BY <1>4, <2>2, Zenon DEF Right, RightArg
    <2> QED BY <1>2, <2>1, <2>2, <2>3, Zenon
  <1>5. ASSUME Right(given)
        PROVE  Needs(given) <=> Cfg!JwtUsable /\ Cfg!Args("webpa-url") # {}
    <2>1. "acquire-jwt" \in Cfg!Numbers OBVIOUS
    <2>2. ArgsIn(given, "acquire-jwt") # {} =>
            Cfg!parse_num_arg(LastIn(given, "acquire-jwt"))
              = Cfg!Kept(LastIn(given, "acquire-jwt"))
      BY <1>4, <1>5, <2>1
    <2> QED BY <2>2, SameArgs, Zenon DEF Needs, Cfg!JwtUsable
  <1>6. ASSUME NEW n \in Cfg!Unchecked, ArgsIn(given, n) # {}
        PROVE  Cfg!parse_num_arg(LastIn(given, n))
                 = IF Cfg!IsNumber(LastIn(given, n)) THEN Cfg!Kept(LastIn(given, n))
                   ELSE Cfg!NoNumber
    <2>1. LastIn(given, n) \in ArgsIn(given, n) BY <1>1, <1>6, LastIsArg, Zenon
    <2> QED BY <1>2, <2>1, Zenon
  <1> QED BY <1>3, <1>4, <1>5, <1>6, Zenon

\* The last URL is read as it is written.
LEMMA LastUrlRead ==
  ASSUME Cfg!OptionsTyped, Cfg!WideEnough, Cfg!CharsSuffice, CInv, ArgsIn(given, "webpa-url") # {}
  PROVE  \/ Cfg!Misread(LastIn(given, "webpa-url"))
         \/ Parsed(LastIn(given, "webpa-url")) = Cfg!Meaning(LastIn(given, "webpa-url"))
  <1>1. given \in Seq(AllOptions) /\ HasLast(given, "webpa-url") BY DEF CInv, AllHaveLast
  <1>2. PICK a : a = LastIn(given, "webpa-url") OBVIOUS
  <1>3. a \in ArgsIn(given, "webpa-url") BY <1>1, <1>2, LastIsArg, Zenon
  <1>4. PICK o \in AllOptions : o.opt = "webpa-url" /\ o.arg = a BY <1>1, <1>3, ArgOfOption
  <1>5. o \in Options \cup Alone BY <1>4, Zenon DEF AllOptions
  <1>6. Cfg!WellWritten(a) BY <1>4, <1>5, Zenon DEF Cfg!OptionsTyped
  <1> QED BY <1>2, <1>6, UrlRead, Zenon

\* Parodus starts with exactly the usable command lines, whatever the boot times and but
\* for URLs that may be Misread: for options in any order and number, with numbers of any
\* length and URLs of any parts, hence of any text, that fit their field
\* (config.c, parseCommandLine and parse_webpa_url; connection.c, the first find_servers).
THEOREM UsableStarts == ConfigSpec => []StartsIffUsable
  <1> USE CommandLineAssumption
  <1>1. CInv => Cfg!StartsIffUsable
    <2> SUFFICES ASSUME CInv PROVE Cfg!StartsIffUsable OBVIOUS
    <2>1. cpc = "running" =>
            /\ Right(given) /\ Needs(given)
            /\ Parsed(LastIn(given, "webpa-url")) # Cfg!Refused
      BY DEF CInv
    <2>2. cpc = "aborted" => \/ ~Right(given) \/ ~Needs(given)
                             \/ Parsed(LastIn(given, "webpa-url")) = Cfg!Refused
      BY DEF CInv
    <2>3. Right(given) /\ Needs(given) <=> Cfg!OptionsUsable
      BY SameNeeds, Zenon DEF Cfg!OptionsUsable
    <2>4. Needs(given) =>
            \/ Cfg!Misread(LastIn(given, "webpa-url"))
            \/ Parsed(LastIn(given, "webpa-url")) = Cfg!Meaning(LastIn(given, "webpa-url"))
      BY LastUrlRead, Zenon DEF Needs
    <2>5. LastIn(given, "webpa-url") = Cfg!LastArg("webpa-url") BY SameArgs, Zenon
    <2>6. cpc = "running" =>
            /\ Cfg!OptionsUsable
            /\ \/ Cfg!Misread(Cfg!LastArg("webpa-url"))
               \/ Cfg!Meaning(Cfg!LastArg("webpa-url")) # Cfg!Refused
      BY <2>1, <2>3, <2>4, <2>5, Zenon
    <2>7. cpc = "aborted" =>
            ~ /\ Cfg!OptionsUsable
              /\ ~Cfg!Misread(Cfg!LastArg("webpa-url"))
              /\ Cfg!Meaning(Cfg!LastArg("webpa-url")) # Cfg!Refused
      BY <2>2, <2>3, <2>4, <2>5, Zenon
    <2> QED BY <2>6, <2>7, Zenon DEF Cfg!StartsIffUsable
  <1>2. CInv => StartsIffUsable BY <1>1 DEF StartsIffUsable
  <1>3. Cfg!Spec => []CInv BY CInvAlways
  <1> QED BY <1>2, <1>3, PTL DEF ConfigSpec

\* Parodus runs with the last value of each option and, unless it may be Misread, with the
\* server of the last URL, for options in any order and number, with numbers of any length and URLs of any parts
\* that fit their field (config.c, parseCommandLine and parse_webpa_url).
THEOREM RunsAsWritten == ConfigSpec => []ReadsAsWritten
  <1> USE CommandLineAssumption
  <1>1. CInv => Cfg!ReadsAsWritten
    <2> SUFFICES ASSUME CInv PROVE Cfg!ReadsAsWritten OBVIOUS
    <2>1. ASSUME cpc = "running" PROVE Right(given) /\ Stored(given, cfg) BY <2>1 DEF CInv
    <2>2. Cfg!LastOneCounts
      <3> SUFFICES ASSUME cpc = "running"
                   PROVE  /\ \A n \in Cfg!Texts \cup {"webpa-url"} :
                                Cfg!Args(n) # {} => cfg[n] = Cfg!LastArg(n)
                          /\ \A n \in Cfg!Numbers :
                                Cfg!Args(n) # {} => cfg[n] = Cfg!Kept(Cfg!LastArg(n))
                          /\ \A n \in Cfg!Unchecked : Cfg!Args(n) # {} =>
                                cfg[n] = IF Cfg!IsNumber(Cfg!LastArg(n))
                                         THEN Cfg!Kept(Cfg!LastArg(n)) ELSE Cfg!NoNumber
                          /\ Cfg!Args("jwt-algo") # {} =>
                                cfg["jwt-algo"] = Cfg!Range(Cfg!LastArg("jwt-algo"))
        BY Zenon DEF Cfg!LastOneCounts
      <3>1. \A n \in LastCounting :
              Cfg!Args(n) # {} => Reading(n, Cfg!LastArg(n), cfg[n])
        BY <2>1, SameArgs, Zenon DEF Stored
      <3>2. \A n \in Cfg!Texts \cup {"webpa-url"} : Cfg!Args(n) # {} => cfg[n] = Cfg!LastArg(n)
        BY <3>1 DEF Reading, LastCounting
      <3>3. \A n \in Cfg!Numbers \cup Cfg!Unchecked :
              Cfg!Args(n) # {} => cfg[n] = Cfg!parse_num_arg(Cfg!LastArg(n))
        BY <3>1 DEF Reading, LastCounting
      <3>4. \A n \in Cfg!Numbers : Cfg!Args(n) # {} =>
              Cfg!parse_num_arg(Cfg!LastArg(n)) = Cfg!Kept(Cfg!LastArg(n))
        BY <2>1, SameNeeds, SameArgs, Zenon
      <3>5. \A n \in Cfg!Unchecked : Cfg!Args(n) # {} =>
              Cfg!parse_num_arg(Cfg!LastArg(n))
                = IF Cfg!IsNumber(Cfg!LastArg(n)) THEN Cfg!Kept(Cfg!LastArg(n)) ELSE Cfg!NoNumber
        BY SameNeeds, SameArgs, Zenon
      <3>6. Cfg!Args("jwt-algo") # {} =>
              cfg["jwt-algo"] = Cfg!Range(Cfg!LastArg("jwt-algo"))
        BY <3>1 DEF Reading, LastCounting
      <3> QED BY <3>2, <3>3, <3>4, <3>5, <3>6, Zenon
    <2>3. Cfg!ServerAsWritten
      <3> SUFFICES ASSUME cserver # None
                   PROVE  \/ Cfg!Misread(Cfg!LastArg("webpa-url"))
                          \/ cserver = Cfg!Meaning(Cfg!LastArg("webpa-url"))
        BY Zenon DEF Cfg!ServerAsWritten
      <3>1. /\ ArgsIn(given, "webpa-url") # {}
            /\ cserver = Parsed(LastIn(given, "webpa-url"))
        BY DEF CInv
      <3> QED BY <3>1, LastUrlRead, SameArgs, Zenon
    <2> QED BY <2>2, <2>3, Zenon DEF Cfg!ReadsAsWritten
  <1>2. CInv => ReadsAsWritten BY <1>1 DEF ReadsAsWritten
  <1>3. Cfg!Spec => []CInv BY CInvAlways
  <1> QED BY <1>2, <1>3, PTL DEF ConfigSpec
=============================================================================
