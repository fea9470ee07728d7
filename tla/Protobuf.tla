------------------------------ MODULE Protobuf ------------------------------
(***************************************************************************)
(* The code that protoc generates (schema/verfploeter.rs) does the same    *)
(* for every message and differs only in the fields: this module is that   *)
(* code for the Schema of module Messages, with the runtime it calls.      *)
(*                                                                         *)
(* The Schema gives, for each type of message and each of its field        *)
(* numbers, the kind of the field ("uint", "bool", "bytes", "message"),    *)
(* its label ("plain", "singular", "repeated", "oneof") and the type of a  *)
(* message field.  A byte is a number, strings are bytes, and numbers are  *)
(* as wide as they need to be: no value here exceeds its Rust type.        *)
(***************************************************************************)
EXTENDS Naturals, Sequences, Messages

Byte == 0 .. 255

FieldOf(m, n) == Schema[m.type][n]
IsOneof(m, n) == FieldOf(m, n).label = "oneof"
IsNested(m, n) == FieldOf(m, n).kind = "message"

-----------------------------------------------------------------------------
(***************************************************************************)
(* The struct and its accessors.  A singular message is an option, here a  *)
(* sequence of at most one element; the oneof group is one slot with the   *)
(* number and the value of the field that was set last.                    *)
(***************************************************************************)
DefaultOf(field) ==
  CASE field.label \in {"singular", "repeated"} -> <<>>
    [] field.kind = "uint" -> 0
    [] field.kind = "bool" -> FALSE
    [] OTHER -> <<>>

NewMessage(type) ==
  LET fields == {n \in DOMAIN Schema[type] : Schema[type][n].label # "oneof"}
  IN  [type |-> type,
       fields |-> [n \in fields |-> DefaultOf(Schema[type][n])],
       oneof |-> <<>>,
       unknown |-> <<>>]

Has(m, n) ==
  IF IsOneof(m, n) THEN m.oneof # <<>> /\ m.oneof[1] = n ELSE m.fields[n] # <<>>

Get(m, n) ==
  LET field == FieldOf(m, n)
      default == IF field.kind = "message" THEN NewMessage(field.type) ELSE DefaultOf(field)
  IN  CASE field.label = "oneof" -> IF Has(m, n) THEN m.oneof[2] ELSE default
        [] field.label = "singular" -> IF Has(m, n) THEN Head(m.fields[n]) ELSE default
        [] OTHER -> m.fields[n]

Set(m, n, v) ==
  CASE FieldOf(m, n).label = "oneof" -> [m EXCEPT !.oneof = <<n, v>>]
    [] FieldOf(m, n).label = "singular" -> [m EXCEPT !.fields[n] = <<v>>]
    [] OTHER -> [m EXCEPT !.fields[n] = v]

(* Clearing one field of a oneof clears the group, whichever is set. *)
Clear(m, n) ==
  IF IsOneof(m, n) THEN [m EXCEPT !.oneof = <<>>]
                   ELSE [m EXCEPT !.fields[n] = DefaultOf(FieldOf(m, n))]

Take(m, n) == [value |-> Get(m, n), left |-> IF Has(m, n) THEN Clear(m, n) ELSE m]

-----------------------------------------------------------------------------
(***************************************************************************)
(* Writing.                                                                *)
(***************************************************************************)
Varint[v \in Nat] == IF v < 128 THEN <<v>> ELSE <<128 + (v % 128)>> \o Varint[v \div 128]
VarintSize[v \in Nat] == IF v < 128 THEN 1 ELSE 1 + VarintSize[v \div 128]

WireTypeVarint == 0
WireTypeLengthDelimited == 2
WireTypeOf(field) ==
  IF field.kind \in {"uint", "bool"} THEN WireTypeVarint ELSE WireTypeLengthDelimited

(* All field numbers are below 16, so that a tag is one byte. *)
Tag(n, wire_type) == <<8 * n + wire_type>>

(* The values of a field that are written: those of a proto3 message that    *)
(* are not the default, and each element of a repeated field.                *)
ValuesOf(m, n) ==
  IF n \notin DOMAIN m.fields THEN <<>>
  ELSE IF FieldOf(m, n).label \in {"singular", "repeated"} THEN m.fields[n]
  ELSE IF m.fields[n] = DefaultOf(FieldOf(m, n)) THEN <<>> ELSE <<m.fields[n]>>

(* A faulty variant: a oneof is written like the other fields. *)
NonDefaultOneof(m) ==
  IF m.oneof = <<>> THEN <<>>
  ELSE IF FieldOf(m, m.oneof[1]).kind = "uint" /\ m.oneof[2] = 0 THEN <<>> ELSE <<m.oneof>>

(* A oneof is written whatever its value. *)
OneofOf(m) == IF m.oneof = <<>> THEN <<>> ELSE <<m.oneof>>

Numbered(n, values) == [k \in 1 .. Len(values) |-> <<n, values[k]>>]

(* The numbers and values that are written, in their order. *)
Present(m) ==
  LET upTo[n \in 0 .. Len(Schema[m.type])] ==
        IF n = 0 THEN <<>>
        ELSE upTo[n - 1] \o Numbered(n, ValuesOf(m, n))
  IN  upTo[Len(Schema[m.type])] \o OneofOf(m)

(* A field as it is written; a nested message is written as the bytes and    *)
(* with the size that it has serialised to.                                  *)
FieldOnWire(m, n, v, nested) ==
  LET field == FieldOf(m, n) IN
  [number |-> n, wire_type |-> WireTypeOf(field),
   value |-> CASE field.kind = "bool" -> IF v THEN 1 ELSE 0
               [] field.kind = "message" -> nested.bytes
               [] OTHER -> v,
   size |-> CASE field.kind = "bytes" -> Len(v)
              [] field.kind = "message" -> nested.size
              [] OTHER -> 0]

UnknownOnWire(u) ==
  [number |-> u.number, wire_type |-> u.wire_type, value |-> u.value,
   size |-> IF u.wire_type = WireTypeVarint THEN 0 ELSE Len(u.value)]

OnWire(m, nested) ==
  [k \in 1 .. Len(Present(m)) |-> FieldOnWire(m, Present(m)[k][1], Present(m)[k][2], nested[k])]
  \o [k \in 1 .. Len(m.unknown) |-> UnknownOnWire(m.unknown[k])]

SizeOf(f) ==
  1 + IF f.wire_type = WireTypeVarint THEN VarintSize[f.value] ELSE VarintSize[f.size] + f.size

BytesOf(f) ==
  Tag(f.number, f.wire_type)
  \o IF f.wire_type = WireTypeVarint THEN Varint[f.value] ELSE Varint[f.size] \o f.value

(* The sum of the sizes of the fields, and their bytes one after another.    *)
SizeAndBytes(fields) ==
  LET last(k) == fields[Len(fields) - k + 1]
      size[k \in 0 .. Len(fields)] == IF k = 0 THEN 0 ELSE SizeOf(last(k)) + size[k - 1]
      bytes[k \in 0 .. Len(fields)] == IF k = 0 THEN <<>> ELSE BytesOf(last(k)) \o bytes[k - 1]
  IN  [size |-> size[Len(fields)], bytes |-> bytes[Len(fields)]]

(* compute_size, which leaves the size with each message, and                *)
(* write_to_with_cached_sizes, which writes that size before the bytes of a  *)
(* nested message; nested[k] is what these two make of value k.              *)
Serialised(m, nested) == SizeAndBytes(OnWire(m, nested))

(* The types of this protocol nest four deep: a TaskResult has a Result, a   *)
(* PingResult, a PingPayload and an Address.                                 *)
NestedIn(m, Serialise(_)) ==
  [k \in 1 .. Len(Present(m)) |->
     IF IsNested(m, Present(m)[k][1]) THEN Serialise(Present(m)[k][2])
                                      ELSE [size |-> 0, bytes |-> <<>>]]

Serialised0(m) == Serialised(m, NestedIn(m, LAMBDA v : [size |-> 0, bytes |-> <<>>]))
Serialised1(m) == Serialised(m, NestedIn(m, Serialised0))
Serialised2(m) == Serialised(m, NestedIn(m, Serialised1))
Serialised3(m) == Serialised(m, NestedIn(m, Serialised2))
Serialised4(m) == Serialised(m, NestedIn(m, Serialised3))

ComputeSize(m) == Serialised4(m).size
WriteToBytes(m) == Serialised4(m).bytes

-----------------------------------------------------------------------------
(***************************************************************************)
(* Reading.  Each operator returns what it has read and what is left, or   *)
(* Error.                                                                  *)
(***************************************************************************)
Error == [ok |-> FALSE]
Ok(value, left) == [ok |-> TRUE, value |-> value, left |-> left]

ReadVarint[bytes \in Seq(Byte)] ==
  IF bytes = <<>> THEN Error
  ELSE IF Head(bytes) < 128 THEN Ok(Head(bytes), Tail(bytes))
  ELSE LET more == ReadVarint[Tail(bytes)]
       IN  IF more.ok THEN Ok(Head(bytes) - 128 + 128 * more.value, more.left) ELSE Error

ReadBytes(bytes) ==
  LET length == ReadVarint[bytes] IN
  IF length.ok /\ length.value <= Len(length.left)
  THEN Ok(SubSeq(length.left, 1, length.value),
          SubSeq(length.left, length.value + 1, Len(length.left)))
  ELSE Error

(* The wire types of this protocol; others end in Error. *)
ReadRaw(wire_type, bytes) ==
  CASE wire_type = WireTypeVarint -> ReadVarint[bytes]
    [] wire_type = WireTypeLengthDelimited -> ReadBytes(bytes)
    [] OTHER -> Error

(* A faulty variant: a field that is not known is skipped. *)
SkipUnknown(m, n, wire_type, v) == m

(* A field of a later version of the protocol is kept, to be written again. *)
KeepUnknown(m, n, wire_type, v) ==
  [m EXCEPT !.unknown = Append(@, [number |-> n, wire_type |-> wire_type, value |-> v])]

(* A field that is known replaces what was read before, and an element of a  *)
(* repeated field is added to it.                                            *)
StoreField(m, n, v) ==
  IF FieldOf(m, n).label = "repeated" THEN [m EXCEPT !.fields[n] = Append(@, v)]
                                      ELSE Set(m, n, v)

(* What is read of a field, from its raw value: a known field must have the  *)
(* wire type of its kind.  parsed[type][bytes] is what is read from the      *)
(* bytes of a nested message.                                                *)
FieldRead(m, n, wire_type, raw, parsed) ==
  IF ~ raw.ok \/ (n \in DOMAIN Schema[m.type] /\ wire_type # WireTypeOf(FieldOf(m, n)))
  THEN Error
  ELSE IF n \notin DOMAIN Schema[m.type] \/ FieldOf(m, n).kind \in {"uint", "bytes"} THEN raw
  ELSE IF FieldOf(m, n).kind = "bool" THEN Ok(raw.value # 0, raw.left)
  ELSE parsed[FieldOf(m, n).type][raw.value]

FieldStored(m, n, wire_type, read, left) ==
  IF ~ read.ok THEN Error
  ELSE Ok(IF n \in DOMAIN Schema[m.type] THEN StoreField(m, n, read.value)
                                         ELSE KeepUnknown(m, n, wire_type, read.value),
          left)

RawMerged(m, n, wire_type, raw, parsed) ==
  FieldStored(m, n, wire_type, FieldRead(m, n, wire_type, raw, parsed), raw.left)

TaggedMerged(m, tag, parsed) ==
  RawMerged(m, tag.value \div 8, tag.value % 8,
            IF tag.ok THEN ReadRaw(tag.value % 8, tag.left) ELSE Error, parsed)

(* One round of merge_from: a field is read and stored in the message.       *)
MergeField(m, bytes, parsed) == TaggedMerged(m, ReadVarint[bytes], parsed)

(* merge_from: fields until the end of the bytes, or the first error.  A     *)
(* field has two bytes or more, so there are no more rounds than these.      *)
MergeFrom(m, bytes, parsed) ==
  LET rounds == (Len(bytes) + 1) \div 2
      after[k \in 0 .. rounds] ==
        IF k = 0 THEN Ok(m, bytes)
        ELSE LET before == after[k - 1] IN
             IF ~ before.ok \/ before.left = <<>> THEN before
             ELSE MergeField(before.value, before.left, parsed)
  IN  after[rounds]

Parsed(nested) ==
  [type \in DOMAIN Schema |-> [bytes \in Seq(Byte) |-> MergeFrom(NewMessage(type), bytes, nested)]]

Parsed0 == Parsed(<<>>)
Parsed1 == Parsed(Parsed0)
Parsed2 == Parsed(Parsed1)
Parsed3 == Parsed(Parsed2)
Parsed4 == Parsed(Parsed3)

ParseFromBytes(type, bytes) == Parsed4[type][bytes]
=============================================================================
