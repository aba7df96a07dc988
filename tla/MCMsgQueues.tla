---------------------------- MODULE MCMsgQueues ----------------------------
(* Three messages that keep all three queues busy: two CRUD requests from   *)
(* the cloud, so that their order matters, and one from a local client,     *)
(* which shares two of the queues with them.                                *)
EXTENDS MsgQueues
CONSTANTS m1, m2, m3
MCMsgs == {m1, m2, m3}
MCPath == [m \in MCMsgs |->
    IF m = m3 THEN <<"up", "crud", "up">> ELSE <<"down", "crud", "up">>]
=============================================================================
