------------------------------- MODULE Packets -------------------------------
(***************************************************************************)
(* The packets of net/mod.rs.  A byte is a number below 256 and a packet a *)
(* sequence of bytes; an address is four bytes.                            *)
(***************************************************************************)
EXTENDS Naturals, SequencesExt

(* write_u16 and read_u16, in network order and in little-endian order.      *)
WriteBig(word) == <<word \div 256, word % 256>>
WriteLittle(word) == <<word % 256, word \div 256>>
ReadBig(bytes, i) == 256 * bytes[i] + bytes[i + 1]
ReadLittle(bytes, i) == bytes[i] + 256 * bytes[i + 1]

From(bytes, i) == SubSeq(bytes, i, Len(bytes))

-----------------------------------------------------------------------------
(* A faulty variant: an odd last byte is the high byte of its word. *)
LittleWordsHighByte(buffer) ==
  [k \in 1 .. Len(buffer) \div 2 |-> ReadLittle(buffer, 2 * k - 1)]
    \o IF Len(buffer) % 2 = 1 THEN <<256 * Last(buffer)>> ELSE <<>>

(* The words of a buffer as calc_checksum reads them: an odd last byte is    *)
(* the low byte of its word.                                                 *)
LittleWords(buffer) ==
  [k \in 1 .. Len(buffer) \div 2 |-> ReadLittle(buffer, 2 * k - 1)]
    \o IF Len(buffer) % 2 = 1 THEN <<Last(buffer)>> ELSE <<>>

(* The sum after each word, and at last. *)
SumsOf(words) ==
  LET sum[n \in 0 .. Len(words)] == IF n = 0 THEN 0 ELSE sum[n - 1] + words[n]
  IN  sum
SumOf(words) == SumsOf(words)[Len(words)]

(* A faulty variant: the carries are added once. *)
FoldOnce(sum) == ((sum % 65536) + (sum \div 65536)) % 65536

(* Carries are added until none is left. *)
Folded[sum \in Nat] ==
  IF sum < 65536 THEN sum ELSE Folded[(sum % 65536) + (sum \div 65536)]
FoldCarries(sum) == Folded[sum]

calc_checksum(buffer) == 65535 - FoldCarries(SumOf(LittleWords(buffer)))

ICMP4Bytes(packet) ==
  <<packet.icmp_type, packet.code>> \o WriteBig(packet.checksum)
    \o WriteBig(packet.identifier) \o WriteBig(packet.sequence_number) \o packet.body

(* The checksum is put into the bytes in the order it was computed in. *)
echo_request(identifier, sequence_number, body) ==
  LET bytes == ICMP4Bytes([icmp_type |-> 8, code |-> 0, checksum |-> 0,
                           identifier |-> identifier,
                           sequence_number |-> sequence_number, body |-> body])
      checksum == WriteLittle(calc_checksum(bytes))
  IN  [bytes EXCEPT ![3] = checksum[1], ![4] = checksum[2]]

-----------------------------------------------------------------------------
(* Parsing panics if bytes are missing.                                      *)
ICMP4Panics(data) == Len(data) < 8

ICMP4Packet(data) ==
  [icmp_type |-> data[1], code |-> data[2], checksum |-> ReadBig(data, 3),
   identifier |-> ReadBig(data, 5), sequence_number |-> ReadBig(data, 7),
   body |-> From(data, 9)]

(* A faulty variant: the version is not masked out. *)
UnmaskedHeaderLength(data) == data[1] * 4

(* The header's length, in words of four bytes, is the low half of its first *)
(* byte.                                                                     *)
HeaderLength(data) == (data[1] % 16) * 4

IPv4Panics(data) ==
  \/ Len(data) < 20 \/ HeaderLength(data) > Len(data)
  \/ data[10] = 1 /\ ICMP4Panics(From(data, HeaderLength(data) + 1))

(* The payload of another protocol is left alone. *)
IPv4Packet(data) ==
  [ttl |-> data[9],
   source_address |-> SubSeq(data, 13, 16),
   destination_address |-> SubSeq(data, 17, 20),
   payload |-> IF data[10] = 1 THEN <<ICMP4Packet(From(data, HeaderLength(data) + 1))>>
                               ELSE <<>>]

-----------------------------------------------------------------------------
(***************************************************************************)
(* What another host does, independently of this code: the checksum of     *)
(* RFC 1071 over words in network order, the last one padded with zero.    *)
(***************************************************************************)
BigWords(bytes) ==
  LET padded == bytes \o IF Len(bytes) % 2 = 1 THEN <<0>> ELSE <<>>
  IN  [k \in 1 .. Len(padded) \div 2 |-> ReadBig(padded, 2 * k - 1)]

(* The sum, modulo 65535 and never zero for a packet that is not all zeros, *)
(* is 65535 exactly if the checksum is right.                                *)
ValidICMP(bytes) ==
  LET sum == SumOf(BigWords(bytes)) IN sum > 0 /\ sum % 65535 = 0

RFC1071(bytes) ==
  LET rest == SumOf(BigWords(bytes)) % 65535 IN IF rest = 0 THEN 0 ELSE 65535 - rest

(* An IPv4 header with room for options, which are all zero. *)
Header(options, protocol, ttl, source, destination) ==
  <<64 + 5 + options \div 4, 0, 0, 0, 0, 0, 0, 0, ttl, protocol, 0, 0>>
    \o source \o destination \o [i \in 1 .. options |-> 0]

ICMPMessage(type, identifier, sequence_number, body) ==
  LET message == [icmp_type |-> type, code |-> 0, checksum |-> 0,
                  identifier |-> identifier, sequence_number |-> sequence_number,
                  body |-> body]
  IN  ICMP4Bytes([message EXCEPT !.checksum = RFC1071(ICMP4Bytes(message))])
=============================================================================
