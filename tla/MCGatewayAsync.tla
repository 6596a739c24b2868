--------------------------- MODULE MCGatewayAsync ---------------------------
(***************************************************************************)
(* A finite instance of GatewayAsync: two WebSocket clients and one permit *)
(* for them, a raw and a serial gateway, one channel, a unit without a     *)
(* route and one whose route names no channel.                             *)
(***************************************************************************)
EXTENDS GatewayAsync

Req(n, s, u) == [id |-> n, owner |-> s, unit |-> u]
MCSessions == {"ws", "late", "raw", "serial"}
MCRequests == {Req(1, "ws", 1), Req(2, "raw", 1), Req(3, "late", 8), Req(4, "serial", 9)}
MCRoute == [u \in {1, 8, 9} |-> IF u = 9 THEN None ELSE u]
=============================================================================
