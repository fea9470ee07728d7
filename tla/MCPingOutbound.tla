--------------------------- MODULE MCPingOutbound ---------------------------
(* The instances of PingOutbound that TLC checks. *)
EXTENDS PingOutbound

(* Each task pings two addresses; or one. *)
TwoEach == [t \in Tasks |-> 2]
OneEach == [t \in Tasks |-> 1]
=============================================================================
