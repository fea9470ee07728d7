---------------------------- MODULE PingPayloads ----------------------------
(***************************************************************************)
(* The payload of a ping as the programs build it with the generated code, *)
(* from addresses of four bytes.                                           *)
(***************************************************************************)
EXTENDS Protobuf

(* An address of four bytes as the u32 of the messages.                      *)
U32(address) ==
  address[1] * 16777216 + address[2] * 65536 + address[3] * 256 + address[4]
AddressFrom(address) == Set(NewMessage("Address"), 1, U32(address))

ProbePayload(source_address, target, task_id, time) ==
  LET m1 == Set(NewMessage("PingPayload"), 3, AddressFrom(source_address))
      m2 == Set(m1, 4, AddressFrom(target))
  IN  Set(Set(m2, 1, task_id), 2, time)
=============================================================================
