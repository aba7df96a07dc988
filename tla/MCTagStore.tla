----------------------------- MODULE MCTagStore -----------------------------
(* Three names, two of which differ only in case and one of which is the    *)
(* name of the whole object, and one payload of every kind the checks tell  *)
(* apart.                                                                   *)
EXTENDS TagStore
Item(k, t, v) == [key |-> k, type |-> t, val |-> v]
MCNames == {"test", "TEST", "tags"}
MCFold == [n \in MCNames |-> IF n = "TEST" THEN "test" ELSE n]
MCPayloads == {
    NoPayload, NotJson, <<>>,
    <<Item("expires", "number", 3)>>,
    <<Item("expires", "number", 1)>>, <<Item("expires", "number", -1)>>,
    <<Item("expires", "string", 2)>>,
    <<Item("k", "string", 1), Item("expires", "number", 2), Item("expires", "number", 0)>>,
    <<Item("expires", "number", 2), Item("", "number", 2)>>,
    <<Item("expires", "number", 2), Item("k", "string", 0)>>,
    <<Item("expires", "number", 2), Item("k", "other", 2)>>}
MCConfigKeys == {"fw-name", "webpa-interface-used", "cloud-status"}
MCConfigSet == {"fw-name"}
=============================================================================
