------------------------------ MODULE PingPath ------------------------------
(***************************************************************************)
(* A ping from the socket of the client that sends it to the queue of the  *)
(* client that receives the answer: perform_ping, the signed payload, the  *)
(* packet, the hosts and networks in between, and the receiver and         *)
(* processor of ping_inbound.rs.                                           *)
(*                                                                         *)
(* HMAC-SHA256 is external: a secret and some bytes have one code, no two  *)
(* have the same, and nobody has the code of bytes that it was not         *)
(* computed for.  Networks and hosts are external too.  Of payloads and    *)
(* their bytes (module PingPayloads) only what SerialisationAssumption     *)
(* says is used.                                                           *)
(***************************************************************************)
EXTENDS Naturals, Sequences, Packets

CONSTANTS
  Source,       \* the address that the pings are sent from
  Targets,      \* the addresses to ping
  TaskIds, Times,  \* task ids and times of transmission
  NewPayload(_, _, _),  \* the payload of a ping to a target, for a task, at a time
  PayloadBytes(_),      \* the bytes of a payload
  ReadPayload(_),       \* the payload that is read from bytes, if ok
  Secret,       \* the secret of this deployment ("test-secret")
  OtherSecret,  \* that of another one
  Codes,        \* codes that HMAC may return, all of the same length
  Options,      \* lengths of the options of an IPv4 header
  Ttl,
  MaxProbes,    \* probes that are sent
  MaxPackets    \* packets that arrive

ASSUME PingPathAssumption ==
  /\ Secret # OtherSecret
  /\ \A address \in Targets \cup {Source} : address \in Seq(0 .. 255) /\ Len(address) = 4
  /\ Options \subseteq 0 .. 40
  /\ \A options \in Options : options % 4 = 0
  /\ Ttl \in 0 .. 255

(* Nobody hits upon a code by changing a byte of another one. *)
ASSUME CodesAssumption ==
  /\ Codes # {}
  /\ \A c \in Codes : c \in Seq(0 .. 255) /\ c # <<>>
  /\ \A c, d \in Codes : Len(c) = Len(d) /\ d # [c EXCEPT ![Len(c)] = (@ + 1) % 256]

Payloads ==
  {NewPayload(target, task_id, time) : target \in Targets, task_id \in TaskIds, time \in Times}

(* A payload is read back from its bytes; they do not begin like an IPv4     *)
(* header, and a payload that is cut short is no payload.                    *)
ASSUME SerialisationAssumption ==
  \A payload \in Payloads :
    LET bytes == PayloadBytes(payload) IN
    /\ bytes \in Seq(0 .. 255)
    /\ Len(bytes) > 1 /\ bytes[1] # 69
    /\ ReadPayload(bytes).ok /\ ReadPayload(bytes).value = payload
    /\ \A other \in Payloads, n \in 0 .. Len(bytes) - 1 :
         SubSeq(bytes, 1, n) # PayloadBytes(other)

VARIABLES
  macs,         \* the codes computed so far
  probes,       \* the probes sent
  received,     \* history: the packets received
  receiver,     \* "running" or "panicked"
  result_queue

vars == <<macs, probes, received, receiver, result_queue>>

SignatureLength == Len(CHOOSE code \in Codes : TRUE)

-----------------------------------------------------------------------------
(***************************************************************************)
(* Signing.                                                                *)
(***************************************************************************)
MacOf(secret, bytes, code) == [secret |-> secret, bytes |-> bytes, code |-> code]

(* What HMAC may return: what it has returned before, or something new. *)
PossibleCodes(secret, bytes) ==
  LET known == {m \in macs : m.secret = secret /\ m.bytes = bytes}
  IN  IF known # {} THEN {m.code : m \in known} ELSE Codes \ {m.code : m \in macs}

Error == [ok |-> FALSE]

(* A faulty variant: the signature is cut off but not verified. *)
from_signed_bytes_unverified(secret, buffer) ==
  IF Len(buffer) < SignatureLength THEN Error
  ELSE ReadPayload(SubSeq(buffer, 1, Len(buffer) - SignatureLength))

from_signed_bytes(secret, buffer) ==
  IF Len(buffer) < SignatureLength THEN Error   \* LengthError
  ELSE
    LET value == SubSeq(buffer, 1, Len(buffer) - SignatureLength)
        signature == From(buffer, Len(buffer) - SignatureLength + 1)
    IN  IF MacOf(secret, value, signature) \in macs THEN ReadPayload(value) ELSE Error

-----------------------------------------------------------------------------
Init ==
  /\ macs = {}
  /\ probes = <<>>
  /\ received = <<>>
  /\ receiver = "running"
  /\ result_queue = <<>>

(* One round of the loop over the addresses, here or in a client of another  *)
(* deployment.  A send_to that fails is counted and the loop goes on: it is  *)
(* a probe that nobody answers.                                              *)
SendPing(secret, target) ==
  /\ Len(probes) < MaxProbes
  /\ \E task_id \in TaskIds, time \in Times :
       LET payload == NewPayload(target, task_id, time)
           payload_bytes == PayloadBytes(payload)
       IN  \E code \in PossibleCodes(secret, payload_bytes) :
             /\ macs' = macs \cup {MacOf(secret, payload_bytes, code)}
             /\ probes' = Append(probes,
                  [icmp |-> echo_request(1, 2, payload_bytes \o code),
                   payload |-> payload, target |-> target, secret |-> secret])
  /\ UNCHANGED <<received, receiver, result_queue>>

-----------------------------------------------------------------------------
ResultFor(packet, payload, time) ==
  [source_address |-> packet.source_address,
   destination_address |-> packet.destination_address,
   ttl |-> packet.ttl, receive_time |-> time, payload |-> payload]

(* The processor neither looks at the type of the message nor at its checksum. *)
Processed(packet, time) ==
  IF packet.payload = <<>> THEN <<>>
  ELSE LET payload == from_signed_bytes(Secret, packet.payload[1].body)
       IN  IF payload.ok THEN <<ResultFor(packet, payload.value, time)>> ELSE <<>>

(* A packet as it arrives, and what is known of it: the probe that caused    *)
(* it, its addresses, and whether it brings the body of that probe unchanged.*)
(* The clock ticks once for each packet.                                     *)
Packet(data, i, from, to, intact) ==
  [data |-> data, probe |-> i, from |-> from, to |-> to, intact |-> intact,
   time |-> Len(received) + 1]

(* The receiver reads a packet, parses it and stamps it; the processor puts  *)
(* the result into the queue.  A packet that cannot be parsed ends the       *)
(* receiver.                                                                 *)
Receive(packet) ==
  /\ receiver = "running"
  /\ Len(received) < MaxPackets
  /\ received' = Append(received, packet)
  /\ IF IPv4Panics(packet.data)
     THEN receiver' = "panicked" /\ UNCHANGED result_queue
     ELSE /\ result_queue' = result_queue \o Processed(IPv4Packet(packet.data), packet.time)
          /\ UNCHANGED receiver
  /\ UNCHANGED <<macs, probes>>

Body(i) == From(probes[i].icmp, 9)

(* A packet for the client from a host, or from one on the way.              *)
Answer(i, options, from, message, intact) ==
  Receive(Packet(Header(options, 1, Ttl, from, Source) \o message, i, from, Source, intact))

(* A host answers a request whose checksum is right, maybe more than once,   *)
(* and with its own choice of header.                                        *)
EchoReply(i) ==
  /\ ValidICMP(probes[i].icmp)
  /\ \E options \in Options :
       Answer(i, options, probes[i].target, ICMPMessage(0, 1, 2, Body(i)), TRUE)

(* A host that is part of the deployment sees the request itself. *)
RequestArrives(i) ==
  Receive(Packet(Header(0, 1, Ttl, Source, probes[i].target) \o probes[i].icmp,
                 i, Source, probes[i].target, TRUE))

(* A host answers with a shorter body. *)
ShortReply(i) ==
  \E length \in {0, SignatureLength - 1, SignatureLength, Len(Body(i)) - 1} :
    Answer(i, 0, probes[i].target, ICMPMessage(0, 1, 2, SubSeq(Body(i), 1, length)), FALSE)

(* A byte is changed on the way: of the payload or of the signature. *)
ChangedReply(i) ==
  \E k \in {2, Len(Body(i))} :
    Answer(i, 0, probes[i].target,
           ICMPMessage(0, 1, 2, [Body(i) EXCEPT ![k] = (@ + 1) % 256]), FALSE)

(* A router reports that it cannot deliver a probe, and quotes its header    *)
(* and its first eight bytes.                                                *)
Unreachable(i) ==
  Answer(i, 0, Source,
         ICMPMessage(3, 0, 0, Header(0, 1, 1, Source, probes[i].target)
                                \o SubSeq(probes[i].icmp, 1, 8)), FALSE)

Next ==
  \/ \E secret \in {Secret, OtherSecret}, target \in Targets : SendPing(secret, target)
  \/ \E i \in DOMAIN probes :
       EchoReply(i) \/ RequestArrives(i) \/ ShortReply(i) \/ ChangedReply(i) \/ Unreachable(i)

Spec == Init /\ [][Next]_vars

-----------------------------------------------------------------------------
(***************************************************************************)
(* Safety.                                                                 *)
(***************************************************************************)

(* Hosts answer: the checksum of every probe is right by RFC 1071, although  *)
(* it is computed on little-endian words, for odd lengths and whatever the   *)
(* number of carries.                                                        *)
ProbeChecksumIsValid == \A i \in DOMAIN probes : ValidICMP(probes[i].icmp)

OwnPackets ==
  {k \in DOMAIN received : received[k].intact /\ probes[received[k].probe].secret = Secret}

(* Every packet that brings back what this deployment sent becomes a result, *)
(* however long the header is, and the payload read from it is the one that  *)
(* was sent, beside the addresses of the packet itself; nothing that was     *)
(* changed, cut off, or sent by another deployment becomes one.  Results are *)
(* in the order of arrival.                                                  *)
AcceptedIsOwn ==
  \E origin \in [DOMAIN result_queue -> OwnPackets] :
    /\ \A k \in OwnPackets : \E n \in DOMAIN result_queue : origin[n] = k
    /\ \A m, n \in DOMAIN result_queue : m < n => origin[m] < origin[n]
    /\ \A n \in DOMAIN result_queue :
         LET packet == received[origin[n]] IN
         /\ result_queue[n].payload = probes[packet.probe].payload
         /\ result_queue[n].source_address = packet.from
         /\ result_queue[n].destination_address = packet.to
         /\ result_queue[n].receive_time = packet.time

(* Packets that are whole never end the receiver, whatever ICMP message they *)
(* hold.                                                                     *)
ReceiverSurvives == receiver = "running"
=============================================================================
