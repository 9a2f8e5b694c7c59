---------------------------- MODULE MCWsSession ----------------------------
(* Instances of WsSession for TLC: where each message may come from.        *)
EXTENDS WsSession

CONSTANTS m1, m2

MCMsgs == {m1, m2}
MCOne == {m1}
MCOther == {m2}
=============================================================================
