---------------------------- MODULE MCPingInbound ----------------------------
(* The instance of PingInbound that TLC checks.  Nothing distinguishes two   *)
(* packets but the order in which they arrive, so one order stands for all.  *)
EXTENDS PingInbound

ArrivalOrder == SetToSeq(Packets)
MCNext == Next /\ IsPrefix(arrived', ArrivalOrder)
MCSpec == Init /\ [][MCNext]_vars /\ Fairness
=============================================================================
