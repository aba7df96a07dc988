-------------------------- MODULE Connector_proofs --------------------------
(***************************************************************************)
(* Proofs about the way to a connection, for any servers and tokens, any   *)
(* configuration and whatever answers come in whatever order.              *)
(***************************************************************************)
EXTENDS Connector, TLAPS, WellFoundedInduction

USE ConnectorAssumption

\* What the control state says about the servers: the default one is known as soon
\* as there was a lookup, current_server is the choice that the slots give until the
\* attempt is over, and the server contacted is that one.  An invalid redirect frees
\* the slot current_server may point to; its allow_insecure of -1 then keeps TryOther
\* from using it.
ServerInv ==
    /\ \/ list["defaults"].server = Default
       \/ pc = "create" /\ list["defaults"].server = NULL /\ list["jwt"].server = NULL
    /\ pc \in {"headers", "curl", "connect", "wait"} => current = get_current_server(list)
    /\ pc = "try_other" /\ list[current].insecure = 0 => current = get_current_server(list)
    /\ IF pc = "wait" THEN contacted = list[current].server ELSE contacted = NULL

\* The configuration holds the token that is valid, but for the time a new one is
\* asked for.
TokenInv ==
    /\ pc # "curl" => token = valid
    /\ pc = "curl" => valid = NULL /\ curls < MAX_CURL_RETRY_COUNT
    /\ pc \in {"connect", "wait", "try_other"} => headers = valid

AInv == TypeOK /\ ServerInv /\ RedirectForgotten /\ HealthFileTells

\* The server get_current_server chooses has an address.
LEMMA ChosenHasAddress ==
    ASSUME TypeOK, list["defaults"].server = Default
    PROVE  /\ get_current_server(list) \in Slots
           /\ list[get_current_server(list)].server # NULL
           /\ list[get_current_server(list)].server = Choice!Chosen
BY DEF TypeOK, Slots, get_current_server, server_is_null, Choice!Chosen

\* free_server empties its slot and leaves the others.
LEMMA FreeServer ==
    ASSUME TypeOK, NEW s \in Slots
    PROVE  /\ free_server(list, s) \in [Slots -> [server : Servers \cup {Default, NULL}, insecure : {-1, 0, 1}]]
           /\ free_server(list, s)[s].server = NULL
           /\ \A t \in Slots \ {s} : free_server(list, s)[t] = list[t]
BY DEF TypeOK, free_server

\* A lookup finds the default server and perhaps that of a JWT, and no redirect.
LEMMA FindServers ==
    ASSUME NEW slots \in [Slots -> [server : Servers \cup {Default, NULL}, insecure : {-1, 0, 1}]],
           NEW found \in find_servers(slots)
    PROVE  /\ found \in [Slots -> [server : Servers \cup {Default, NULL}, insecure : {-1, 0, 1}]]
           /\ found["defaults"].server = Default /\ found["redirect"].server = NULL
           /\ found["jwt"].server \in Servers \cup {NULL}
<1> DEFINE T == [server : Servers \cup {Default, NULL}, insecure : {-1, 0, 1}]
           fresh == [free_server(free_server(slots, "redirect"), "jwt")
                        EXCEPT !["defaults"] = Slot(Default, Insecure)]
           js == {BadUrl} \cup UNION {Parsed(s) : s \in Servers}
<1>1. /\ fresh \in [Slots -> T] /\ fresh["defaults"].server = Default
      /\ fresh["redirect"].server = NULL /\ fresh["jwt"].server = NULL
  BY DEF free_server, Slot, Slots
<1>2. \A j \in js : j \in T /\ j.server \in Servers \cup {NULL}
  BY DEF BadUrl, Parsed, Slot
<1>3. found = fresh \/ \E j \in js : found = [fresh EXCEPT !["jwt"] = j]
  BY DEF find_servers
<1> HIDE DEF T, fresh, js
<1> QED
  <2>1. CASE found = fresh
    BY <1>1, <2>1 DEF T
  <2>2. ASSUME NEW j \in js, found = [fresh EXCEPT !["jwt"] = j] 
        PROVE  /\ found \in [Slots -> T]
               /\ found["defaults"].server = Default /\ found["redirect"].server = NULL
               /\ found["jwt"].server \in Servers \cup {NULL}
    BY <1>1, <1>2, <2>2 DEF Slots
  <2> QED BY <1>3, <2>1, <2>2 DEF T

\* The invariant holds when parodus starts.
LEMMA AInvInit == Init => AInv
<1> SUFFICES ASSUME Init PROVE AInv
  OBVIOUS
<1>1. is_ipv6 \in BOOLEAN /\ ifdown \in BOOLEAN /\ g_shutdown \in BOOLEAN
  BY Zenon DEF Init
<1>2. TypeOK
  BY <1>1 DEF Init, TypeOK, PCs, Slots, Slot, MAX_CURL_RETRY_COUNT
<1>3. ServerInv /\ RedirectForgotten /\ HealthFileTells
  BY DEF Init, ServerInv, RedirectForgotten, HealthFileTells, Connecting, Slots, Slot
<1> QED BY <1>2, <1>3 DEF AInv

\* The powers of two an int can hold, one by one: 2 ^ n is not defined by recursion for
\* the provers, but they evaluate it for a number.
LEMMA PowersOfTwo ==
    ASSUME NEW n \in 0..31
    PROVE  2 ^ n \in Nat \ {0} /\ 2 ^ (n + 1) = 2 * 2 ^ n
<1>0. CASE n = 0 BY <1>0
<1>1. CASE n = 1 BY <1>1
<1>2. CASE n = 2 BY <1>2
<1>3. CASE n = 3 BY <1>3
<1>4. CASE n = 4 BY <1>4
<1>5. CASE n = 5 BY <1>5
<1>6. CASE n = 6 BY <1>6
<1>7. CASE n = 7 BY <1>7
<1>8. CASE n = 8 BY <1>8
<1>9. CASE n = 9 BY <1>9
<1>10. CASE n = 10 BY <1>10
<1>11. CASE n = 11 BY <1>11
<1>12. CASE n = 12 BY <1>12
<1>13. CASE n = 13 BY <1>13
<1>14. CASE n = 14 BY <1>14
<1>15. CASE n = 15 BY <1>15
<1>16. CASE n = 16 BY <1>16
<1>17. CASE n = 17 BY <1>17
<1>18. CASE n = 18 BY <1>18
<1>19. CASE n = 19 BY <1>19
<1>20. CASE n = 20 BY <1>20
<1>21. CASE n = 21 BY <1>21
<1>22. CASE n = 22 BY <1>22
<1>23. CASE n = 23 BY <1>23
<1>24. CASE n = 24 BY <1>24
<1>25. CASE n = 25 BY <1>25
<1>26. CASE n = 26 BY <1>26
<1>27. CASE n = 27 BY <1>27
<1>28. CASE n = 28 BY <1>28
<1>29. CASE n = 29 BY <1>29
<1>30. CASE n = 30 BY <1>30
<1>31. CASE n = 31 BY <1>31
<1> QED BY <1>0, <1>1, <1>2, <1>3, <1>4, <1>5, <1>6, <1>7, <1>8, <1>9, <1>10, <1>11, <1>12, <1>13, <1>14, <1>15,
         <1>16, <1>17, <1>18, <1>19, <1>20, <1>21, <1>22, <1>23, <1>24, <1>25, <1>26, <1>27, <1>28, <1>29, <1>30, <1>31

\* A set of naturals has a least element: induction by a least counterexample.
LEMMA LeastElement ==
    ASSUME NEW T, T \subseteq Nat, T # {}
    PROVE  \E x \in T : \A y \in T : x <= y
<1> DEFINE R == OpToRel(<, Nat)
<1>1. IsWellFoundedOn(R, Nat)
  BY NatLessThanWellFounded
<1>2. \A x, y \in Nat : <<y, x>> \in R <=> y < x
  BY DEF OpToRel
<1> HIDE DEF R
<1>3. PICK x \in T : \A y \in T : ~ (<<y, x>> \in R)
  BY <1>1, WFMin
<1>4. \A y \in T : y \in Nat /\ x \in Nat /\ ~(y < x)
  BY <1>2, <1>3
<1>5. \A y \in T : x <= y
  BY <1>4
<1> QED BY <1>5

\* The powers of two grow.
LEMMA PowersGrow ==
    ASSUME NEW a \in 0..31, NEW b \in a..31
    PROVE  2 ^ a <= 2 ^ b
<1> DEFINE T == {n \in a..31 : ~(2 ^ a <= 2 ^ n)}
<1>1. \A n \in 0..31 : 2 ^ n \in Nat
  BY PowersOfTwo
<1>2. T \subseteq Nat
  OBVIOUS
<1>3. ASSUME T # {} PROVE FALSE
  <2> HIDE DEF T
  <2>1. PICK m \in T : \A y \in T : m <= y
    BY <1>2, <1>3, LeastElement
  <2> USE DEF T
  <2>2. m \in a..31 /\ ~(2 ^ a <= 2 ^ m)
    OBVIOUS
  <2>3. m # a
    BY <1>1, <2>2
  <2>4. m - 1 \in a..31 /\ m - 1 \in 0..31 /\ (m - 1) + 1 = m
    BY <2>2, <2>3
  <2>5. m - 1 \notin T
    BY <2>1, <2>4
  <2>6. 2 ^ a <= 2 ^ (m - 1)
    BY <2>4, <2>5
  <2>7. 2 ^ (m - 1) \in Nat /\ 2 ^ ((m - 1) + 1) = 2 * 2 ^ (m - 1)
    BY <2>4, PowersOfTwo
  <2>8. 2 ^ m = 2 * 2 ^ (m - 1)
    BY <2>4, <2>7
  <2> HIDE DEF T
  <2> QED BY <1>1, <2>2, <2>6, <2>7, <2>8
<1>4. b \notin T
  BY <1>3
<1> QED BY <1>4

\* The two halves of the range of an int.
LEMMA IntRange ==
    /\ 2 ^ (IntBits - 1) \in Nat \ {0} /\ 2 ^ IntBits \in Nat \ {0}
    /\ 2 ^ IntBits = 2 * 2 ^ (IntBits - 1)
<1>1. IntBits - 1 \in 0..31 /\ (IntBits - 1) + 1 = IntBits
  OBVIOUS
<1>2. 2 ^ (IntBits - 1) \in Nat \ {0} /\ 2 ^ ((IntBits - 1) + 1) = 2 * 2 ^ (IntBits - 1)
  BY <1>1, PowersOfTwo
<1>3. 2 ^ IntBits = 2 * 2 ^ (IntBits - 1)
  BY <1>1, <1>2
<1> QED BY <1>2, <1>3

\* A wrapped int is an integer.
LEMMA AsIntType == ASSUME NEW n \in Int PROVE AsInt(n) \in Int
BY IntRange DEF AsInt

\* createNopollConnection keeps the invariant.
LEMMA CreateKeepsAInv ==
    ASSUME AInv, TokenInv, CreateEnter \/ SetCurrentServer \/ ShutdownEnds \/ GaveUp \/ Connected
    PROVE  AInv'
<1> USE DEF AInv, Goto, lookVars, tokVars, backVars, envVars
<1> DEFINE Lists == [Slots -> [server : Servers \cup {Default, NULL}, insecure : {-1, 0, 1}]]
<1>1. CASE CreateEnter
  <2>1. /\ list' \in Lists /\ list'["defaults"].server = Default
        /\ list'["redirect"].server = NULL
    <3>1. CASE server_is_null(list, "defaults")
      BY <1>1, <3>1, FindServers DEF CreateEnter, TypeOK
    <3>2. CASE ~server_is_null(list, "defaults")
      BY <1>1, <3>2 DEF CreateEnter, TypeOK, server_is_null, ServerInv, RedirectForgotten
    <3> QED BY <3>1, <3>2
  <2>2. TypeOK'
    BY <1>1, <2>1 DEF CreateEnter, TypeOK, PCs
  <2> QED BY <1>1, <2>1, <2>2 DEF CreateEnter, ServerInv, RedirectForgotten, HealthFileTells, Connecting
<1>2. CASE SetCurrentServer
  <2>1. TypeOK'
    BY <1>2, ChosenHasAddress DEF SetCurrentServer, TypeOK, PCs, ServerInv
  <2> QED BY <1>2, <2>1 DEF SetCurrentServer, ServerInv, RedirectForgotten, HealthFileTells, Connecting
<1>3. CASE ShutdownEnds
  <2>1. TypeOK'
    BY <1>3 DEF ShutdownEnds, TypeOK, PCs
  <2> QED BY <1>3, <2>1 DEF ShutdownEnds, ServerInv, RedirectForgotten, HealthFileTells, Connecting
<1>4. CASE GaveUp
  <2> DEFINE kept == free_server(list, "redirect")
  <2>1. /\ kept \in Lists /\ kept["defaults"].server = Default
        /\ kept["redirect"].server = NULL
    BY <1>4, FreeServer DEF Slots, ServerInv, GaveUp
  <2>2. list' \in find_servers(kept) \/ list' = kept
    BY <1>4 DEF GaveUp
  <2> HIDE DEF kept
  <2>3. /\ list' \in Lists /\ list'["defaults"].server = Default
        /\ list'["redirect"].server = NULL
    BY <2>1, <2>2, FindServers
  <2>4. TypeOK'
    BY <1>4, <2>3 DEF GaveUp, TypeOK, PCs
  <2> QED BY <1>4, <2>3, <2>4 DEF GaveUp, ServerInv, RedirectForgotten, HealthFileTells, Connecting
<1>5. CASE Connected
  <2>1. /\ list' \in Lists /\ list'["defaults"].server = Default
        /\ list'["redirect"].server = NULL
    BY <1>5, FreeServer DEF Slots, ServerInv, Connected
  <2>2. TypeOK'
    BY <1>5, <2>1 DEF Connected, TypeOK, PCs
  <2> QED BY <1>5, <2>1, <2>2 DEF Connected, ServerInv, RedirectForgotten, HealthFileTells, Connecting
<1> QED BY <1>1, <1>2, <1>3, <1>4, <1>5

\* So do the requests for a token.
LEMMA TokenKeepsAInv ==
    ASSUME AInv, TokenInv, SetExtraHeaders \/ TokenGranted \/ TokenData \/ TokenFails
    PROVE  AInv'
<1> USE DEF AInv, Goto, lookVars, tokVars, backVars, envVars, ServerInv, RedirectForgotten,
            HealthFileTells, Connecting
<1>0. ASSUME Connect4or6 PROVE is_ipv6' \in BOOLEAN
  <2> DEFINE b == Flags \in {0, IPV6_ONLY}
  <2>1. is_ipv6' = b
    BY <1>0 DEF Connect4or6
  <2>2. b \in BOOLEAN
    OBVIOUS
  <2> HIDE DEF b
  <2> QED BY <2>1, <2>2
<1>1. CASE SetExtraHeaders
  <2>0. is_ipv6' \in BOOLEAN
    BY <1>0, <1>1, Zenon DEF SetExtraHeaders, TypeOK
  <2>1. TypeOK'
    BY <1>1, <2>0 DEF SetExtraHeaders, TypeOK, PCs, MAX_CURL_RETRY_COUNT
  <2> QED BY <1>1, <2>1 DEF SetExtraHeaders
<1>2. CASE TokenGranted
  <2>1. TypeOK'
    BY <1>0, <1>2 DEF TokenGranted, TypeOK, PCs, MAX_CURL_RETRY_COUNT
  <2> QED BY <1>2, <2>1 DEF TokenGranted
<1>3. CASE TokenData
  BY <1>3 DEF TokenData, TypeOK
<1>4. CASE TokenFails
  <2>1. curls' \in 0..MAX_CURL_RETRY_COUNT
    BY <1>4 DEF TokenFails, TokenInv, TypeOK, MAX_CURL_RETRY_COUNT
  <2>2. CASE curls' = MAX_CURL_RETRY_COUNT
    <3>1. TypeOK'
      BY <1>0, <1>4, <2>1, <2>2 DEF TokenFails, GiveUpToken, TypeOK, PCs
    <3> QED BY <1>4, <2>2, <3>1 DEF TokenFails, GiveUpToken
  <2>3. CASE curls' # MAX_CURL_RETRY_COUNT
    <3>1. TypeOK'
      BY <1>4, <2>1, <2>3 DEF TokenFails, TypeOK
    <3> QED BY <1>4, <2>3, <3>1 DEF TokenFails
  <2> QED BY <2>2, <2>3
<1> QED BY <1>1, <1>2, <1>3, <1>4

\* So does an attempt, whatever comes of it.
LEMMA AttemptKeepsAInv ==
    ASSUME AInv, NopollConnect \/ Wait \/ TryOther
    PROVE  AInv'
<1> USE DEF AInv, Goto, lookVars, tokVars, backVars, envVars, RedirectForgotten,
            HealthFileTells, Connecting
<1>1. CASE NopollConnect
  <2>1. current \in Slots /\ list[current].server \in Servers \cup {Default, NULL}
    BY <1>1 DEF NopollConnect, TypeOK
  <2>2. TypeOK'
    BY <1>1, <2>1 DEF NopollConnect, TypeOK, PCs
  <2> QED BY <1>1, <2>2 DEF NopollConnect, ServerInv
<1>2. CASE WaitSuccess
  <2>1. TypeOK'
    BY <1>2 DEF WaitSuccess, TypeOK, PCs
  <2> QED BY <1>2, <2>1 DEF WaitSuccess, ServerInv
<1>3. CASE WaitForbidden
  <2>1. TypeOK'
    BY <1>3 DEF WaitForbidden, TypeOK, PCs
  <2> QED BY <1>3, <2>1 DEF WaitForbidden, ServerInv
<1>4. CASE WaitFails
  <2>1. TypeOK'
    BY <1>4 DEF WaitFails, TypeOK, PCs
  <2> QED BY <1>4, <2>1 DEF WaitFails, ServerInv
<1>5. CASE WaitBadRedirect
  <2>1. TypeOK'
    BY <1>5 DEF WaitBadRedirect, TypeOK, PCs, BadUrl, Slot, Slots
  <2>2. current = get_current_server(list) /\ current \in Slots
    BY <1>5 DEF WaitBadRedirect, ServerInv, TypeOK
  <2>3. current # "redirect" => current = get_current_server(list')
    BY <1>5, <2>2 DEF WaitBadRedirect, TypeOK, get_current_server, server_is_null, BadUrl, Slot, Slots
  <2>4. list'["redirect"].insecure = -1 /\ list'["defaults"] = list["defaults"]
    BY <1>5 DEF WaitBadRedirect, TypeOK, BadUrl, Slot, Slots
  <2> QED BY <1>5, <2>1, <2>2, <2>3, <2>4 DEF WaitBadRedirect, ServerInv
<1>6. ASSUME NEW s \in Servers, NEW u \in Parsed(s), WaitRedirect(u) PROVE AInv'
  <2>1. u \in [server : Servers \cup {Default, NULL}, insecure : {-1, 0, 1}]
    BY DEF Parsed, Slot
  <2>2. /\ list' \in [Slots -> [server : Servers \cup {Default, NULL}, insecure : {-1, 0, 1}]]
        /\ list'["defaults"] = list["defaults"]
    BY <1>6, <2>1 DEF WaitRedirect, TypeOK, Slots
  <2>3. current' = get_current_server(list') /\ current' \in Slots
    BY <1>6 DEF WaitRedirect, get_current_server, Slots
  <2>4. TypeOK'
    BY <1>6, <2>2, <2>3 DEF WaitRedirect, TypeOK, PCs
  <2> QED BY <1>6, <2>2, <2>3, <2>4 DEF WaitRedirect, ServerInv
<1>7. CASE TryOther
  <2>1. is_ipv6' \in BOOLEAN
    BY <1>7, Zenon DEF TryOther, TypeOK
  <2>2. TypeOK'
    BY <1>7, <2>1 DEF TryOther, TypeOK, PCs
  <2> QED BY <1>7, <2>2 DEF TryOther, ServerInv
<1> QED BY <1>1, <1>2, <1>3, <1>4, <1>5, <1>6, <1>7 DEF Wait

\* So do the waits after a failure and the events from outside.
LEMMA OthersKeepAInv ==
    ASSUME AInv, \/ BackoffDelay \/ InterfaceDown \/ InterfaceBack \/ Lost
                 \/ InterfaceGoesDown \/ InterfaceComesUp \/ Shutdown \/ UNCHANGED vars
    PROVE  AInv'
<1> USE DEF AInv, Goto, lookVars, tokVars, backVars, envVars, ServerInv, RedirectForgotten,
            HealthFileTells, Connecting
<1>1. CASE BackoffDelay
  <2>1. count' \in Nat /\ delay' \in Int
    BY <1>1, AsIntType DEF BackoffDelay, update_backoff_delay, TypeOK
  <2>2. wait' \in Nat
    BY <1>1 DEF BackoffDelay, calc_random_secs
  <2>3. TypeOK'
    BY <1>1, <2>1, <2>2 DEF BackoffDelay, TypeOK, PCs
  <2> QED BY <1>1, <2>3 DEF BackoffDelay
<1>2. CASE InterfaceDown
  BY <1>2 DEF InterfaceDown, TypeOK, PCs
<1>3. CASE InterfaceBack
  BY <1>3 DEF InterfaceBack, TypeOK, PCs
<1>4. CASE Lost
  BY <1>4 DEF Lost, TypeOK, PCs
<1>5. CASE InterfaceGoesDown \/ InterfaceComesUp \/ Shutdown
  <2>1. ifdown' \in BOOLEAN /\ g_shutdown' \in BOOLEAN
    BY <1>5, Zenon DEF InterfaceGoesDown, InterfaceComesUp, Shutdown, TypeOK
  <2>2. UNCHANGED <<pc, lookVars, is_ipv6, tokVars, backVars, contacted>>
    BY <1>5 DEF InterfaceGoesDown, InterfaceComesUp, Shutdown
  <2> QED BY <2>1, <2>2 DEF TypeOK
<1>6. CASE UNCHANGED vars
  BY <1>6 DEF vars, TypeOK
<1> QED BY <1>1, <1>2, <1>3, <1>4, <1>5, <1>6

\* The token in use is a valid one at every step.
LEMMA TokenInvInit == Init => TokenInv
BY DEF Init, TokenInv, MAX_CURL_RETRY_COUNT

LEMMA TokenInvStep ==
    ASSUME TypeOK, TokenInv, [Next]_vars
    PROVE  TokenInv'
<1> USE DEF TokenInv, Goto, lookVars, tokVars, backVars, envVars, MAX_CURL_RETRY_COUNT
<1>1. CASE CreateEnter \/ SetCurrentServer \/ ShutdownEnds \/ GaveUp \/ Connected
  BY <1>1 DEF CreateEnter, SetCurrentServer, ShutdownEnds, GaveUp, Connected
<1>2. CASE SetExtraHeaders
  BY <1>2 DEF SetExtraHeaders
<1>3. CASE TokenGranted
  BY <1>3 DEF TokenGranted
<1>4. CASE TokenData
  BY <1>4 DEF TokenData
<1>5. CASE TokenFails
  <2>1. curls \in 0..2 /\ curls' = curls + 1 /\ valid = NULL
    BY <1>5 DEF TokenFails, TypeOK
  <2>2. CASE curls' = MAX_CURL_RETRY_COUNT
    BY <1>5, <2>1, <2>2 DEF TokenFails, GiveUpToken
  <2>3. CASE curls' # MAX_CURL_RETRY_COUNT
    BY <1>5, <2>1, <2>3 DEF TokenFails
  <2> QED BY <2>2, <2>3
<1>6. CASE NopollConnect \/ TryOther
  BY <1>6 DEF NopollConnect, TryOther
<1>7. CASE Wait
  BY <1>7 DEF Wait, WaitSuccess, WaitBadRedirect, WaitForbidden, WaitFails, WaitRedirect
<1>8. CASE BackoffDelay \/ InterfaceDown \/ InterfaceBack \/ Lost
  BY <1>8 DEF BackoffDelay, InterfaceDown, InterfaceBack, Lost
<1>9. CASE InterfaceGoesDown \/ InterfaceComesUp \/ Shutdown \/ UNCHANGED vars
  BY <1>9 DEF InterfaceGoesDown, InterfaceComesUp, Shutdown, vars
<1> QED
  BY <1>1, <1>2, <1>3, <1>4, <1>5, <1>6, <1>7, <1>8, <1>9 DEF Next, Step

\* Every step keeps the invariant of the attempt.
LEMMA AInvStep ==
    ASSUME AInv, TokenInv, [Next]_vars
    PROVE  AInv'
BY CreateKeepsAInv, TokenKeepsAInv, AttemptKeepsAInv, OthersKeepAInv DEF Next, Step

\* Both together are the inductive invariant of the attempt.
LEMMA AttemptInvariant == Spec => [](AInv /\ TokenInv)
<1>1. AInv /\ TokenInv /\ [Next]_vars => (AInv /\ TokenInv)'
  BY AInvStep, TokenInvStep DEF AInv
<1> QED BY AInvInit, TokenInvInit, <1>1, PTL DEF Spec

\* What an attempt contacts has an address even after a redirect that could not be
\* parsed, no redirect outlives its attempt, and the health file tells how it ended.
THEOREM AttemptIsSound == Spec => []AttemptSound
<1>1. AInv => AttemptSound
  BY ChosenHasAddress DEF AInv, AttemptSound, ContactsAddress, ServerInv
<1> QED BY <1>1, AttemptInvariant, PTL

\* No connect carries a refused token or part of one, however many requests for a
\* token fail and whenever data arrive.
THEOREM TokensAreValid == Spec => []HeadersCarryValidToken
<1>1. TokenInv => HeadersCarryValidToken
  BY DEF TokenInv, HeadersCarryValidToken
<1> QED BY <1>1, AttemptInvariant, PTL

\* The back-off: after c attempts the delay is 2^c - 1 as long as an int holds it, and
\* -1 from then on.
BackoffInv ==
    /\ count \in Nat \ {0} /\ count <= IF MaxCount < 1 THEN 1 ELSE MaxCount
    /\ delay = IF count < IntBits THEN 2 ^ count - 1 ELSE -1
    /\ wait \in Nat /\ BackoffBounded

\* A remainder by hand.
LEMMA Wraps ==
    ASSUME NEW m \in Nat \ {0}, NEW x \in 0..(m - 1)
    PROVE  x % m = x /\ (x + m) % m = x
OBVIOUS

\* What fits in an int is kept, 2^w - 1 and -1 become -1.
LEMMA AsIntValues ==
    /\ \A n \in 0..(2 ^ (IntBits - 1) - 1) : AsInt(n) = n
    /\ AsInt(2 ^ IntBits - 1) = -1 /\ AsInt(-1) = -1
<1> DEFINE h == 2 ^ (IntBits - 1)
           m == 2 ^ IntBits
<1>1. h \in Nat \ {0} /\ m \in Nat \ {0} /\ m = 2 * h
  BY IntRange
<1>2. \A n : AsInt(n) = ((n + h) % m) - h
  BY DEF AsInt
<1> HIDE DEF h, m
<1>3. ASSUME NEW n \in 0..(h - 1) PROVE (n + h) % m = n + h
  <2>1. n + h \in 0..(m - 1)
    BY <1>1
  <2> QED BY <1>1, <2>1, Wraps
<1>4. (m - 1 + h) % m = h - 1 /\ (-1 + h) % m = h - 1
  <2>1. h - 1 \in 0..(m - 1) /\ m - 1 + h = (h - 1) + m /\ -1 + h = h - 1
    BY <1>1
  <2> QED BY <1>1, <2>1, Wraps
<1>5. \A n \in 0..(h - 1) : AsInt(n) = n
  BY <1>1, <1>2, <1>3
<1>6. AsInt(m - 1) = -1 /\ AsInt(-1) = -1
  BY <1>1, <1>2, <1>4
<1> QED BY <1>5, <1>6 DEF h, m

\* One more attempt doubles the delay, up to the width of an int.
LEMMA DelayDoubles ==
    ASSUME BackoffInv, update_backoff_delay
    PROVE  /\ count' \in Nat \ {0} /\ count' <= IF MaxCount < 1 THEN 1 ELSE MaxCount
           /\ delay' = IF count' < IntBits THEN 2 ^ count' - 1 ELSE -1
<1>1. CASE ~(count < MaxCount)
  BY <1>1 DEF update_backoff_delay, BackoffInv
<1>2. CASE count < MaxCount
  <2>1. count' = count + 1 /\ delay' = AsInt(delay + delay + 1) /\ count \in Nat \ {0}
    BY <1>2 DEF update_backoff_delay, BackoffInv
  <2>2. count' \in Nat \ {0} /\ count' <= IF MaxCount < 1 THEN 1 ELSE MaxCount
    BY <1>2, <2>1
  <2>3. CASE count' < IntBits
    <3>1. count \in 0..31 /\ count < IntBits /\ IntBits - 1 \in 0..31 /\ count' \in 0..31
      BY <2>1, <2>3
    <3>2. 2 ^ count \in Nat \ {0} /\ 2 ^ (count + 1) = 2 * 2 ^ count
      BY <3>1, PowersOfTwo
    <3>3. delay = 2 ^ count - 1
      BY <3>1 DEF BackoffInv
    <3>4. delay + delay + 1 = 2 ^ count' - 1 /\ 2 ^ count' \in Nat \ {0}
      BY <2>1, <3>2, <3>3
    <3>5. IntBits - 1 \in count'..31
      BY <2>1, <2>3, <3>1
    <3>6. 2 ^ count' <= 2 ^ (IntBits - 1)
      BY <3>1, <3>5, PowersGrow
    <3>7. delay + delay + 1 \in 0..(2 ^ (IntBits - 1) - 1)
      BY <3>4, <3>6, IntRange
    <3>8. delay' = 2 ^ count' - 1
      BY <2>1, <3>4, <3>7, AsIntValues
    <3> QED BY <2>2, <2>3, <3>8
  <2>4. CASE count' = IntBits
    <3>1. count = IntBits - 1
      BY <2>1, <2>4
    <3>2. delay = 2 ^ (IntBits - 1) - 1
      BY <3>1 DEF BackoffInv
    <3>3. delay + delay + 1 = 2 ^ IntBits - 1
      BY <3>2, IntRange
    <3> QED BY <2>1, <2>2, <2>4, <3>3, AsIntValues
  <2>5. CASE count' > IntBits
    <3>1. delay = -1
      BY <2>1, <2>5 DEF BackoffInv
    <3>2. delay + delay + 1 = -1
      BY <3>1
    <3> QED BY <2>1, <2>2, <2>5, <3>2, AsIntValues
  <2> QED BY <2>2, <2>3, <2>4, <2>5
<1> QED BY <1>1, <1>2

\* The largest delay an int holds is 7 at least.
LEMMA LargestDelay == 2 ^ (IntBits - 1) - 1 \in Nat /\ 2 ^ (IntBits - 1) - 1 >= 7
<1>1. 3 \in 0..31 /\ IntBits - 1 \in 3..31
  OBVIOUS
<1>2. 2 ^ 3 <= 2 ^ (IntBits - 1)
  BY <1>1, PowersGrow
<1>3. 2 ^ 3 = 8
  OBVIOUS
<1> QED BY <1>2, <1>3, IntRange

\* A delay of more than 3 seconds is of 5 at least.
LEMMA DelayIsOdd ==
    ASSUME NEW k \in 1..31
    PROVE  2 ^ k - 1 \in Nat /\ (2 ^ k - 1 \notin 0..3 => 2 ^ k - 1 >= 5)
<1>1. k - 1 \in 0..31 /\ (k - 1) + 1 = k
  OBVIOUS
<1>2. 2 ^ (k - 1) \in Nat \ {0} /\ 2 ^ ((k - 1) + 1) = 2 * 2 ^ (k - 1)
  BY <1>1, PowersOfTwo
<1>3. 2 ^ k = 2 * 2 ^ (k - 1)
  BY <1>1, <1>2
<1> QED BY <1>2, <1>3

\* A wait drawn from the delay is in the bounds of BackoffBounded.
LEMMA WaitDrawn ==
    ASSUME BackoffInv, BackoffDelay
    PROVE  BackoffInv'
<1> DEFINE c == IF count' < IntBits THEN count' ELSE IntBits - 1
           top == 2 ^ c - 1
<1>1. /\ count' \in Nat \ {0} /\ count' <= IF MaxCount < 1 THEN 1 ELSE MaxCount
      /\ delay' = IF count' < IntBits THEN 2 ^ count' - 1 ELSE -1
  BY DelayDoubles DEF BackoffDelay
<1>2. wait' \in IF delay' \in 0..3 THEN {3} ELSE {calc_random_secs(r) : r \in 0..Mask(delay')}
  BY DEF BackoffDelay
<1>3. top \in Nat /\ (delay' \notin 0..3 => Mask(delay') = top /\ top >= 5)
  <2>1. CASE count' < IntBits
    <3>1. c = count' /\ count' \in 1..31
      BY <1>1, <2>1
    <3>2. top = 2 ^ count' - 1
      BY <3>1
    <3> HIDE DEF c, top
    <3>3. top \in Nat /\ (top \notin 0..3 => top >= 5)
      BY <3>1, <3>2, DelayIsOdd
    <3>4. delay' = top
      BY <1>1, <2>1, <3>2
    <3>5. Mask(delay') = top
      BY <3>3, <3>4 DEF Mask
    <3> QED BY <3>3, <3>4, <3>5
  <2>2. CASE ~(count' < IntBits)
    <3>1. c = IntBits - 1
      BY <2>2
    <3>2. top \in Nat /\ top >= 7 /\ top = 2 ^ (IntBits - 1) - 1
      BY <3>1, LargestDelay
    <3>3. delay' = -1
      BY <1>1, <2>2
    <3> HIDE DEF c, top
    <3> QED BY <3>2, <3>3 DEF Mask
  <2> QED BY <2>1, <2>2
<1> HIDE DEF c, top
<1>4. wait' \in Nat /\ wait' >= 3 /\ (wait' = 3 \/ wait' <= top)
  <2>1. CASE delay' \in 0..3
    BY <1>2, <2>1
  <2>2. CASE delay' \notin 0..3
    <3>1. PICK r \in 0..top : wait' = calc_random_secs(r)
      BY <1>2, <1>3, <2>2
    <3> QED BY <1>3, <2>2, <3>1 DEF calc_random_secs
  <2> QED BY <2>1, <2>2
<1>5. BackoffBounded'
  BY <1>1, <1>4 DEF BackoffBounded, c, top
<1> QED BY <1>1, <1>4, <1>5 DEF BackoffInv

\* Only createNopollConnection and the wait itself touch the timer.
LEMMA BackoffInvStep ==
    ASSUME BackoffInv, [Next]_vars
    PROVE  BackoffInv'
<1> USE DEF backVars
<1>1. CASE CreateEnter
  <2>1. count' = 1 /\ delay' = 1 /\ wait' = 0
    BY <1>1 DEF CreateEnter
  <2> QED BY <2>1 DEF BackoffInv, BackoffBounded
<1>2. CASE BackoffDelay
  BY <1>2, WaitDrawn
<1>3. ASSUME UNCHANGED <<count, delay, wait>> PROVE BackoffInv'
  BY <1>3 DEF BackoffInv, BackoffBounded
<1>4. CASE SetCurrentServer \/ ShutdownEnds \/ GaveUp \/ Connected \/ SetExtraHeaders
  BY <1>3, <1>4 DEF SetCurrentServer, ShutdownEnds, GaveUp, Connected, SetExtraHeaders
<1>5. CASE TokenGranted \/ TokenFails \/ TokenData \/ NopollConnect \/ TryOther
  BY <1>3, <1>5 DEF TokenGranted, TokenFails, TokenData, NopollConnect, TryOther
<1>6. CASE Wait
  BY <1>3, <1>6 DEF Wait, WaitSuccess, WaitBadRedirect, WaitForbidden, WaitFails, WaitRedirect
<1>7. CASE InterfaceDown \/ InterfaceBack \/ Lost
  BY <1>3, <1>7 DEF InterfaceDown, InterfaceBack, Lost
<1>8. CASE InterfaceGoesDown \/ InterfaceComesUp \/ Shutdown \/ UNCHANGED vars
  BY <1>3, <1>8 DEF InterfaceGoesDown, InterfaceComesUp, Shutdown, vars
<1> QED BY <1>1, <1>2, <1>4, <1>5, <1>6, <1>7, <1>8 DEF Next, Step

\* The back-off is bounded for every webpa_backoff_max and every width of an int: the
\* wrap of the delay to -1 never shortens or lengthens a wait beyond the bounds.
THEOREM BackoffIsBounded == Spec => []BackoffBounded
<1>1. Init => BackoffInv
  BY DEF Init, BackoffInv, BackoffBounded
<1>2. BackoffInv => BackoffBounded
  BY DEF BackoffInv
<1> QED BY <1>1, <1>2, BackoffInvStep, PTL DEF Spec

\* The state of ServerChoice in this one.
choiceVars == <<list["redirect"].server, list["jwt"].server, contacted>>

\* createNopollConnection forgets the redirect and looks up only a JWT that is missing.
LEMMA ForgetRefines ==
    ASSUME AInv, CreateEnter \/ GaveUp \/ Connected
    PROVE  [Choice!Next]_choiceVars
<1> USE DEF Goto
<1> DEFINE Lists == [Slots -> [server : Servers \cup {Default, NULL}, insecure : {-1, 0, 1}]]
<1>1. list \in Lists /\ contacted = NULL /\ contacted' = NULL
  BY DEF AInv, TypeOK, ServerInv, CreateEnter, GaveUp, Connected
<1>2. CASE CreateEnter
  <2>1. CASE server_is_null(list, "defaults")
    <3>1. list["jwt"].server = NULL /\ list' \in find_servers(list)
      BY <1>2, <2>1 DEF AInv, ServerInv, CreateEnter, server_is_null
    <3>2. list'["redirect"].server = NULL /\ list'["jwt"].server \in Servers \cup {NULL}
      BY <1>1, <3>1, FindServers
    <3> QED BY <1>1, <3>1, <3>2 DEF Choice!Next, Choice!Forget
  <2>2. CASE ~server_is_null(list, "defaults")
    BY <1>1, <1>2, <2>2 DEF CreateEnter, choiceVars
  <2> QED BY <2>1, <2>2
<1>3. CASE GaveUp
  <2> DEFINE kept == free_server(list, "redirect")
  <2>1. kept \in Lists /\ kept["redirect"].server = NULL /\ kept["jwt"] = list["jwt"]
    BY FreeServer DEF AInv, Slots
  <2>2. \/ kept["jwt"].server = NULL /\ list' \in find_servers(kept)
        \/ list' = kept
    BY <1>3 DEF GaveUp, server_is_null
  <2> HIDE DEF kept
  <2>3. CASE list' = kept
    BY <1>1, <2>1, <2>3 DEF Choice!Next, Choice!Forget
  <2>4. CASE kept["jwt"].server = NULL /\ list' \in find_servers(kept)
    <3>1. list'["redirect"].server = NULL /\ list'["jwt"].server \in Servers \cup {NULL}
      BY <2>1, <2>4, FindServers
    <3>2. list["jwt"].server = NULL
      BY <2>1, <2>4
    <3> QED BY <1>1, <3>1, <3>2 DEF Choice!Next, Choice!Forget
  <2> QED BY <2>2, <2>3, <2>4
<1>4. CASE Connected
  <2>1. list'["redirect"].server = NULL /\ list'["jwt"] = list["jwt"]
    BY <1>4, FreeServer DEF Connected, AInv, Slots
  <2> QED BY <1>1, <2>1 DEF Choice!Next, Choice!Forget
<1> QED BY <1>2, <1>3, <1>4

\* An attempt contacts the chosen server, and ends with a redirect or without.
LEMMA AttemptRefines ==
    ASSUME AInv, NopollConnect \/ Wait
    PROVE  [Choice!Next]_choiceVars
<1> USE DEF Goto, lookVars, Choice!Next
<1>1. list["defaults"].server = Default /\ TypeOK
  BY DEF AInv, ServerInv, NopollConnect, Wait, WaitSuccess, WaitBadRedirect, WaitForbidden,
         WaitFails, WaitRedirect
<1>2. CASE NopollConnect
  <2>1. current = get_current_server(list) /\ contacted' = list[current].server /\ list' = list
    BY <1>2 DEF NopollConnect, AInv, ServerInv
  <2>2. contacted' = Choice!Chosen
    BY <1>1, <2>1, ChosenHasAddress
  <2> QED BY <2>1, <2>2 DEF Choice!Contact
<1>3. CASE WaitSuccess \/ WaitForbidden \/ WaitFails
  BY <1>3 DEF WaitSuccess, WaitForbidden, WaitFails, Choice!HangUp
<1>4. ASSUME pc = "wait" PROVE contacted # NULL
  BY <1>1, <1>4, ChosenHasAddress DEF AInv, ServerInv
<1>5. CASE WaitBadRedirect
  <2>1. list'["redirect"].server = NULL /\ list'["jwt"] = list["jwt"]
    BY <1>1, <1>5 DEF WaitBadRedirect, TypeOK, BadUrl, Slot, Slots
  <2> QED BY <1>4, <1>5, <2>1 DEF WaitBadRedirect, Choice!Redirected
<1>6. ASSUME NEW s \in Servers, NEW u \in Parsed(s), WaitRedirect(u)
      PROVE  [Choice!Next]_choiceVars
  <2>1. u.server = s
    BY DEF Parsed, Slot
  <2>2. list'["redirect"].server \in Servers /\ list'["jwt"] = list["jwt"]
    BY <1>1, <1>6, <2>1 DEF WaitRedirect, TypeOK, Slots
  <2> QED BY <1>4, <1>6, <2>2 DEF WaitRedirect, Choice!Redirected
<1> QED BY <1>2, <1>3, <1>5, <1>6 DEF Wait

\* The pointer current_server, kept across redirects, refused tokens and lookups that
\* free and fill its slots, implements the choice of ServerChoice: no stale server is
\* ever contacted, and a JWT's server once found is kept.
THEOREM ChoosesServer == Spec => ImplementsServerChoice
<1>1. Init => Choice!Init
  BY DEF Init, Choice!Init, Slots, Slot
<1>2. ASSUME AInv, [Next]_vars PROVE [Choice!Next]_choiceVars
  <2> USE DEF lookVars
  <2>1. CASE CreateEnter \/ GaveUp \/ Connected
    BY <1>2, <2>1, ForgetRefines
  <2>2. CASE NopollConnect \/ Wait
    BY <1>2, <2>2, AttemptRefines
  <2>3. ASSUME UNCHANGED <<list, contacted>> PROVE [Choice!Next]_choiceVars
    BY <2>3 DEF choiceVars
  <2>4. CASE SetCurrentServer \/ ShutdownEnds \/ SetExtraHeaders \/ TryOther
    BY <2>3, <2>4 DEF SetCurrentServer, ShutdownEnds, SetExtraHeaders, TryOther
  <2>5. CASE TokenGranted \/ TokenFails \/ TokenData
    BY <2>3, <2>5 DEF TokenGranted, TokenFails, TokenData
  <2>6. CASE BackoffDelay \/ InterfaceDown \/ InterfaceBack \/ Lost
    BY <2>3, <2>6 DEF BackoffDelay, InterfaceDown, InterfaceBack, Lost
  <2>7. CASE InterfaceGoesDown \/ InterfaceComesUp \/ Shutdown \/ UNCHANGED vars
    BY <2>3, <2>7 DEF InterfaceGoesDown, InterfaceComesUp, Shutdown, vars
  <2> QED BY <1>2, <2>1, <2>2, <2>4, <2>5, <2>6, <2>7 DEF Next, Step
<1>3. AInv /\ [Next]_vars => [Choice!Next]_choiceVars
  BY <1>2
<1> QED
  BY <1>1, <1>3, AttemptInvariant, PTL DEF Spec, ImplementsServerChoice, Choice!Spec, choiceVars
=============================================================================
