---------------------------- MODULE GatewayLink ----------------------------
(***************************************************************************)
(* What the users of a GatewayConnector see of it: isConnected, and the    *)
(* notification onReconnected at every connection but the first.           *)
(***************************************************************************)

VARIABLE gateway   \* "new" (never connected yet), "up", "down"

Init == gateway = "new"

Connect    == gateway = "new"  /\ gateway' = "up"
Disconnect == gateway = "up"   /\ gateway' = "down"
Reconnect  == gateway = "down" /\ gateway' = "up"   \* onReconnected is called

Next == Connect \/ Disconnect \/ Reconnect

Spec == Init /\ [][Next]_gateway

=============================================================================
