------------------------------ MODULE Messages ------------------------------
(***************************************************************************)
(* The messages of the protocol, as schema/verfploeter.rs defines them:    *)
(* each definition gives the fields that the struct, its accessors and its *)
(* implementation of Message agree on.  The fields of a message have the   *)
(* numbers from 1 on.                                                      *)
(***************************************************************************)
EXTENDS Sequences

PlainField(kind) == [kind |-> kind, label |-> "plain", type |-> ""]
OneofScalar(kind) == [kind |-> kind, label |-> "oneof", type |-> ""]
MessageField(type, label) == [kind |-> "message", label |-> label, type |-> type]

Empty == <<>>

Ack == <<PlainField("uint"),     \* task_id
         PlainField("bool"),     \* success
         PlainField("bytes")>>   \* error_message

TaskId == <<PlainField("uint")>>

ScheduleTask == <<MessageField("Client", "singular"),
                  MessageField("Ping", "oneof")>>

ClientList == <<MessageField("Client", "repeated")>>

Client == <<PlainField("uint"),                      \* index
            MessageField("Metadata", "singular")>>

Task == <<PlainField("uint"),          \* task_id
          MessageField("Ping", "oneof"),
          MessageField("Empty", "oneof")>>

Metadata == <<PlainField("bytes"),     \* hostname
              PlainField("bytes")>>    \* version

Ping == <<MessageField("Address", "singular"),   \* source_address
          MessageField("Address", "repeated")>>  \* destination_addresses

Address == <<OneofScalar("uint"),      \* v4
             OneofScalar("bytes")>>    \* v6

TaskResult == <<PlainField("uint"),                  \* task_id
                MessageField("Client", "singular"),
                MessageField("Result", "repeated"),  \* result_list
                PlainField("bool")>>                 \* is_finished

Result == <<MessageField("PingResult", "oneof")>>

PingResult == <<MessageField("Address", "singular"),      \* source_address
                MessageField("Address", "singular"),      \* destination_address
                PlainField("uint"),                       \* receive_time
                MessageField("PingPayload", "singular"),
                PlainField("uint")>>                      \* ttl

PingPayload == <<PlainField("uint"),                  \* task_id
                 PlainField("uint"),                  \* transmit_time
                 MessageField("Address", "singular"), \* source_address
                 MessageField("Address", "singular")>>  \* destination_address

Schema ==
  [Empty |-> Empty, Ack |-> Ack, TaskId |-> TaskId, ScheduleTask |-> ScheduleTask,
   ClientList |-> ClientList, Client |-> Client, Task |-> Task, Metadata |-> Metadata,
   Ping |-> Ping, Address |-> Address, TaskResult |-> TaskResult, Result |-> Result,
   PingResult |-> PingResult, PingPayload |-> PingPayload]
=============================================================================
