----------------------------- MODULE MCPingPath -----------------------------
(* The instance of PingPath that TLC checks: payloads of even and of odd     *)
(* length, and codes of four bytes that bring the sums of the checksum to    *)
(* their limits.                                                             *)
EXTENDS PingPath

M == INSTANCE PingPayloads

MCSource == <<0, 0, 0, 1>>
TargetOrder == <<<<0, 0, 0, 2>>, <<0, 0, 1, 44>>>>
MCTargets == Range(TargetOrder)

MCNewPayload(target, task_id, time) == M!ProbePayload(MCSource, target, task_id, time)
MCPayloadBytes(payload) == M!WriteToBytes(payload)
MCReadPayload(bytes) == M!ParseFromBytes("PingPayload", bytes)

(* With this code the first addition of carries makes another carry, for the *)
(* first target in task 0 at time 0.                                         *)
TwoFolds == <<255, 255, 172, 245>>

ASSUME TwoFoldsAssumption ==
  LET payload_bytes == MCPayloadBytes(MCNewPayload(<<0, 0, 0, 2>>, 0, 0))
      request == [icmp_type |-> 8, code |-> 0, checksum |-> 0, identifier |-> 1,
                  sequence_number |-> 2, body |-> payload_bytes \o TwoFolds]
      sum == SumOf(LittleWords(ICMP4Bytes(request)))
  IN  (sum % 65536) + (sum \div 65536) > 65535

MCCodes == {<<0, 0, 0, 0>>, <<255, 255, 255, 255>>, TwoFolds}

(* perform_ping goes through the addresses of its task in their order. *)
MCNext == Next /\ \A i \in DOMAIN probes' : probes'[i].target = TargetOrder[i]
MCSpec == Init /\ [][MCNext]_vars
=============================================================================
