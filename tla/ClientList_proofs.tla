------------------------- MODULE ClientList_proofs -------------------------
(***************************************************************************)
(* Proofs about the list of registered services, for any services and any  *)
(* number of list entries.                                                 *)
(***************************************************************************)
EXTENDS ClientList, TLAPS, SequenceTheorems, WellFoundedInduction

USE ClientListAssumption

\* A set of naturals has a least element.
LEMMA LeastElement ==
    ASSUME NEW T, T \subseteq Nat, T # {}
    PROVE  \E x \in T : \A y \in T : x <= y
<1> DEFINE R == OpToRel(<, Nat)
<1>1. IsWellFoundedOn(R, Nat)
  BY NatLessThanWellFounded
<1>2. \A x, y \in Nat : <<y, x>> \in R <=> y < x
  BY DEF OpToRel
<1> HIDE DEF R
<1>3. PICK x \in T : \A y \in T : ~ (<<y, x>> \in R)
  BY <1>1, WFMin
<1>4. \A y \in T : y \in Nat /\ x \in Nat /\ ~(y < x)
  BY <1>2, <1>3
<1>5. \A y \in T : x <= y
  BY <1>4
<1> QED BY <1>5

\* A node that is in the list is found under its name.
LEMMA FirstOfExists ==
    ASSUME list \in Seq(Nodes), NEW k \in 1..Len(list)
    PROVE  FirstOf(name[list[k]]) \in 1..Len(list)
<1> DEFINE s == name[list[k]]
           T == {i \in 1..Len(list) : name[list[i]] = s}
<1>1. T \subseteq Nat /\ k \in T
  OBVIOUS
<1> HIDE DEF T
<1>2. PICK i \in T : \A j \in T : i <= j
  BY <1>1, LeastElement
<1> USE DEF T
<1>3. i \in 1..Len(list) /\ name[list[i]] = s
  OBVIOUS
<1>4. ASSUME NEW j \in 1..(i - 1) PROVE name[list[j]] # s
  <2>1. j \in 1..Len(list) /\ ~(i <= j)
    BY <1>3
  <2> QED BY <1>2, <2>1
<1> HIDE DEF T, s
<1>5. FirstOf(s) \in 1..Len(list)
  BY <1>3, <1>4 DEF FirstOf
<1> QED BY <1>5 DEF s

\* What unlinking the k-th node leaves: one node less, no other, none twice.
LEMMA Unlink ==
    ASSUME NEW q \in Seq(Nodes), Distinct(q),
           NEW k \in 1..Len(q)
    PROVE  LET r == SubSeq(q, 1, k - 1) \o SubSeq(q, k + 1, Len(q)) IN
           /\ r \in Seq(Nodes) /\ Len(r) = Len(q) - 1
           /\ Distinct(r)
<1> DEFINE a == SubSeq(q, 1, k - 1)
           b == SubSeq(q, k + 1, Len(q))
           r == a \o b
           at(i) == IF i < k THEN i ELSE i + 1
<1>1. a \in Seq(Nodes) /\ Len(a) = k - 1 /\ \A i \in 1..(k - 1) : a[i] = q[i]
  OBVIOUS
<1>2. b \in Seq(Nodes) /\ Len(b) = Len(q) - k /\ \A i \in 1..(Len(q) - k) : b[i] = q[k + i]
  OBVIOUS
<1> HIDE DEF a, b
<1>3. /\ r \in Seq(Nodes) /\ Len(r) = Len(q) - 1
      /\ \A i \in 1..Len(r) : r[i] = IF i < k THEN a[i] ELSE b[i - (k - 1)]
  <2>0. a \in Seq(Nodes) /\ b \in Seq(Nodes)
    BY <1>1, <1>2
  <2>1. /\ a \o b \in Seq(Nodes) /\ Len(a \o b) = Len(a) + Len(b)
        /\ \A i \in 1..(Len(a) + Len(b)) :
              (a \o b)[i] = IF i <= Len(a) THEN a[i] ELSE b[i - Len(a)]
    BY <2>0, ConcatProperties, Zenon
  <2> QED BY <1>1, <1>2, <2>1
<1> HIDE DEF r
<1>4. ASSUME NEW i \in 1..Len(r) PROVE r[i] = q[at(i)] /\ at(i) \in 1..Len(q)
  <2>1. CASE i < k
    <3>1. r[i] = a[i] /\ at(i) = i
      BY <1>3, <2>1
    <3>2. i \in 1..(k - 1) /\ i \in 1..Len(q)
      BY <1>3, <2>1
    <3> QED BY <1>1, <3>1, <3>2
  <2>2. CASE i >= k
    <3>1. r[i] = b[i - (k - 1)]
      BY <1>3, <2>2
    <3>2. i - (k - 1) \in 1..(Len(q) - k)
      BY <1>3, <2>2
    <3> QED BY <1>2, <1>3, <2>2, <3>1, <3>2
  <2> QED BY <1>3, <2>1, <2>2
<1>5. ASSUME NEW i \in 1..Len(r), NEW j \in 1..Len(r), r[i] = r[j] PROVE i = j
  <2>1. at(i) = at(j)
    BY <1>4, <1>5 DEF Distinct
  <2> QED BY <1>3, <2>1
<1>6. Distinct(r)
  BY <1>5 DEF Distinct
<1> QED BY <1>3, <1>6 DEF r, a, b

\* Appending a node that is not in the list.
LEMMA AppendNew ==
    ASSUME NEW q \in Seq(Nodes), Distinct(q),
           NEW n \in Nodes, ~\E i \in 1..Len(q) : q[i] = n
    PROVE  /\ Append(q, n) \in Seq(Nodes) /\ Len(Append(q, n)) = Len(q) + 1
           /\ Distinct(Append(q, n))
BY DEF Distinct

-----------------------------------------------------------------------------
\* The sweep holds the mutex exactly while it walks the list, and then stands at a node
\* or behind the last.  The counter never passes the length of the list, and is the
\* length if no name is too long to be stored.
CInv ==
    /\ TypeOK
    /\ svc = "sweep" <=> owner = "svc"
    /\ IF svc = "sweep" THEN pos >= 1 ELSE pos = 0
    /\ numOfClients <= Len(list)
    /\ LongNames = {} => numOfClients = Len(list)

\* One more node in the list, of service s, counted unless its name is too long.
LEMMA NewNodeKeeps ==
    ASSUME CInv, owner = "none", NEW s \in Services, NEW n \in Nodes, ~InList(n),
           list' = Append(list, n), name' = [name EXCEPT ![n] = s],
           sockOk' \in [Nodes -> BOOLEAN],
           \/ numOfClients' = numOfClients + 1
           \/ numOfClients' = numOfClients /\ s \in LongNames,
           UNCHANGED <<owner, svc, pos, temp, g_shutdown, done>>
    PROVE  CInv'
<1>1. /\ list' \in Seq(Nodes) /\ Len(list') = Len(list) + 1
      /\ Distinct(list')
  BY AppendNew DEF CInv, TypeOK, InList
<1>2. name' \in [Nodes -> Services]
  BY DEF CInv, TypeOK
<1>3. pos = 0 /\ Len(list) \in Nat /\ numOfClients \in Int
  BY DEF CInv, TypeOK
<1>4. /\ numOfClients' \in Int /\ numOfClients' <= Len(list')
      /\ LongNames = {} => numOfClients' = Len(list')
  BY <1>1, <1>3 DEF CInv
<1>5. TypeOK'
  BY <1>1, <1>2, <1>3, <1>4 DEF CInv, TypeOK
<1> QED BY <1>4, <1>5 DEF CInv

\* A registration keeps the invariant.
LEMMA RegisterKeeps ==
    ASSUME CInv, NEW s \in Services, Register(s)
    PROVE  CInv'
<1> USE DEF nodeVars
<1>0. owner = "none" /\ UNCHANGED <<owner, svc, pos, temp, g_shutdown, done>>
  BY DEF Register
<1>1. CASE ReconnectFails(s)
  <2> DEFINE broken == [n \in Nodes |->
                IF \E j \in Indices(s) : n = list[j] THEN FALSE ELSE sockOk[n]]
  <2>1. broken \in [Nodes -> BOOLEAN]
    BY DEF CInv, TypeOK
  <2>2. \/ sockOk' = broken /\ UNCHANGED <<list, name, numOfClients>>
        \/ \E n \in Nodes :
              /\ ~InList(n) /\ list' = Append(list, n) /\ name' = [name EXCEPT ![n] = s]
              /\ sockOk' = [broken EXCEPT ![n] = TRUE]
              /\ numOfClients' = numOfClients + 1
    BY <1>1 DEF ReconnectFails
  <2> HIDE DEF broken
  <2>3. CASE sockOk' = broken /\ UNCHANGED <<list, name, numOfClients>>
    BY <1>0, <2>1, <2>3 DEF CInv, TypeOK
  <2>4. ASSUME NEW n \in Nodes, ~InList(n), list' = Append(list, n),
               name' = [name EXCEPT ![n] = s], sockOk' = [broken EXCEPT ![n] = TRUE],
               numOfClients' = numOfClients + 1
        PROVE  CInv'
    <3>1. sockOk' \in [Nodes -> BOOLEAN]
      BY <2>1, <2>4
    <3> QED BY <1>0, <2>4, <3>1, NewNodeKeeps
  <2> QED BY <2>2, <2>3, <2>4
<1>2. ASSUME NEW i \in 1..Len(list), Reconnect(s, i) PROVE CInv'
  <2>1. sockOk' \in [Nodes -> BOOLEAN]
    BY <1>2 DEF Reconnect, CInv, TypeOK
  <2> QED BY <1>0, <1>2, <2>1 DEF Reconnect, CInv, TypeOK
<1>3. CASE addToList(s)
  <2>1. CASE UNCHANGED nodeVars
    BY <1>0, <2>1 DEF CInv, TypeOK
  <2>2. ASSUME NEW n \in Nodes, ~InList(n), list' = Append(list, n),
               name' = [name EXCEPT ![n] = s], sockOk' = [sockOk EXCEPT ![n] = TRUE],
               numOfClients' = IF s \in LongNames THEN numOfClients ELSE numOfClients + 1
        PROVE  CInv'
    <3>1. sockOk' \in [Nodes -> BOOLEAN]
      BY <2>2 DEF CInv, TypeOK
    <3> QED BY <1>0, <2>2, <3>1, NewNodeKeeps
  <2> QED BY <1>3, <2>1, <2>2 DEF addToList
<1> QED BY <1>1, <1>2, <1>3 DEF Register

\* The sweep keeps it: what it deletes is one node of the list.
LEMMA SweepKeeps ==
    ASSUME CInv, Sweep
    PROVE  CInv'
<1> USE DEF nodeVars
<1>1. CASE SweepDelete
  <2> DEFINE k == FirstOf(name[list[pos]])
  <2>1. pos \in 1..Len(list) /\ list \in Seq(Nodes)
    BY <1>1 DEF SweepDelete, CInv, TypeOK
  <2>2. k \in 1..Len(list)
    BY <2>1, FirstOfExists
  <2>3. /\ list' = SubSeq(list, 1, k - 1) \o SubSeq(list, k + 1, Len(list))
        /\ sockOk' = [sockOk EXCEPT ![list[k]] = FALSE]
        /\ numOfClients' = numOfClients - 1 /\ name' = name
        /\ svc' = "resync" /\ owner' = "none" /\ pos' = 0
        /\ UNCHANGED <<temp, g_shutdown, done>>
    BY <1>1 DEF SweepDelete, deleteFromList
  <2> HIDE DEF k
  <2>4. /\ list' \in Seq(Nodes) /\ Len(list') = Len(list) - 1
        /\ Distinct(list')
    BY <2>2, <2>3, Unlink DEF CInv, TypeOK
  <2>5. sockOk' \in [Nodes -> BOOLEAN]
    BY <2>1, <2>2, <2>3 DEF CInv, TypeOK
  <2>6. /\ numOfClients \in Int /\ numOfClients <= Len(list) /\ Len(list) \in Nat
        /\ LongNames = {} => numOfClients = Len(list)
    BY <2>1 DEF CInv, TypeOK
  <2>7. /\ numOfClients' \in Int /\ numOfClients' <= Len(list') /\ pos' \in 0..(Len(list') + 1)
        /\ LongNames = {} => numOfClients' = Len(list')
    <3> DEFINE n == Len(list)
               m == Len(list')
    <3>1. m = n - 1 /\ n \in Nat /\ m \in Nat /\ numOfClients' = numOfClients - 1 /\ pos' = 0
      BY <2>3, <2>4, <2>6
    <3>2. numOfClients \in Int /\ numOfClients <= n /\ (LongNames = {} => numOfClients = n)
      BY <2>6
    <3> HIDE DEF n, m
    <3>3. /\ numOfClients' \in Int /\ numOfClients' <= m /\ pos' \in 0..(m + 1)
          /\ LongNames = {} => numOfClients' = m
      BY <3>1, <3>2
    <3> QED BY <3>3 DEF m
  <2>8. TypeOK'
    BY <2>3, <2>4, <2>5, <2>7 DEF CInv, TypeOK
  <2> QED BY <2>3, <2>7, <2>8 DEF CInv
<1>2. CASE SweepBegin \/ SweepSend \/ SweepResync \/ SweepEnd \/ SweepWait
  <2>1. Len(list) \in Nat
    BY DEF CInv, TypeOK
  <2> QED BY <1>2, <2>1 DEF SweepBegin, SweepSend, SweepResync, SweepEnd, SweepWait, CInv, TypeOK
<1> QED BY <1>1, <1>2 DEF Sweep

\* Every step keeps it.
LEMMA NextKeeps ==
    ASSUME CInv, [Next]_vars
    PROVE  CInv'
<1> USE DEF nodeVars
<1>1. ASSUME NEW s \in Services, SendToClient(s) PROVE CInv'
  <2>1. PICK i \in 1..Len(list) : name[list[i]] = s
    BY <1>1 DEF SendToClient, Indices, Matches
  <2>2. FirstOf(s) \in 1..Len(list)
    BY <2>1, FirstOfExists DEF CInv, TypeOK
  <2>3. list[FirstOf(s)] \in Nodes
    BY <2>2 DEF CInv, TypeOK
  <2> QED BY <1>1, <2>3 DEF SendToClient, CInv, TypeOK
<1>2. CASE SendToClientLog
  BY <1>2 DEF SendToClientLog, CInv, TypeOK
<1>3. CASE Shutdown
  <2>1. g_shutdown' \in BOOLEAN
    BY <1>3, Zenon DEF Shutdown
  <2> QED BY <1>3, <2>1 DEF Shutdown, CInv, TypeOK
<1>4. CASE deleteAllClients
  <2>1. done' \in BOOLEAN
    BY <1>4, Zenon DEF deleteAllClients
  <2>2. list' = <<>> /\ pos' = 0 /\ svc' = svc /\ svc = "exited"
    BY <1>4 DEF deleteAllClients, CInv
  <2>3. /\ list' \in Seq(Nodes) /\ Len(list') = 0
        /\ Distinct(list')
    BY <2>2 DEF Distinct
  <2>4. Len(list) \in Nat
    BY DEF CInv, TypeOK
  <2> QED BY <1>4, <2>1, <2>2, <2>3, <2>4 DEF deleteAllClients, CInv, TypeOK
<1>5. CASE Finished \/ UNCHANGED vars
  BY <1>5 DEF Finished, vars, CInv, TypeOK
<1> QED BY <1>1, <1>2, <1>3, <1>4, <1>5, RegisterKeeps, SweepKeeps DEF Next

\* The invariant holds of every behaviour, for names of any length.
THEOREM CounterInvariant == Spec => []CInv
<1>1. Init => CInv
  <2> SUFFICES ASSUME Init PROVE CInv
    OBVIOUS
  <2>1. name \in [Nodes -> Services]
    <3>1. (CHOOSE s \in Services : TRUE) \in Services
      OBVIOUS
    <3> QED BY <3>1 DEF Init
  <2>2. g_shutdown \in BOOLEAN /\ done \in BOOLEAN
    BY Zenon DEF Init
  <2>3. list \in Seq(Nodes) /\ Len(list) = 0 /\ Distinct(list)
    BY DEF Init, Distinct
  <2> QED BY <2>1, <2>2, <2>3 DEF Init, CInv, TypeOK
<1>2. CInv /\ [Next]_vars => CInv'
  BY NextKeeps
<1> QED BY <1>1, <1>2, PTL DEF Spec

\* If every name can be stored in full, the counter is the length of the list and no
\* node is in it twice, however registrations, failing reconnects and deletions by the
\* sweep interleave.
THEOREM CounterIsLength ==
    ASSUME LongNames = {}
    PROVE  Spec => []CountIsLength
<1>1. CInv => CountIsLength
  BY DEF CInv, CountIsLength
<1> QED BY <1>1, CounterInvariant, PTL
=============================================================================
