---------------------------- MODULE MCMessageFlow ----------------------------
(* The instance of MessageFlow that TLC checks: zero, and values that take   *)
(* more than one byte of the wire format.                                    *)
EXTENDS MessageFlow

MCIps == {0, 300}
MCHostnames == {<<>>, <<5>>, <<6, 7>>}
MCHostname == <<6, 7>>
MCTimes == {0, 130}
=============================================================================
