--------------------------- MODULE MCDataGateway ---------------------------
(* DataGateway with two clients that send a packet each: the first has two
   uplinks, the second sends from a wrong address (an even number, see Inner);
   a datagram that claims the first's session arrives from the second's
   uplink. *)
EXTENDS DataGateway

MCUplinks == [i \in SessionIds |-> IF i = 1 THEN {"wifi1", "usb1"} ELSE {"wifi2"}]
MCPackets == [i \in SessionIds |-> IF i = 1 THEN {1} ELSE {2}]
MCStrays == {<<1, "wifi2">>}
=============================================================================
