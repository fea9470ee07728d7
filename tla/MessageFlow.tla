----------------------------- MODULE MessageFlow -----------------------------
(***************************************************************************)
(* The messages of one measurement, from the file of addresses that the    *)
(* cli reads to the addresses it prints: each program builds a message     *)
(* with the accessors of its type, the next one reads its bytes.           *)
(*                                                                         *)
(* The programs may be of different versions: a newer one writes a field   *)
(* that the others do not know.                                            *)
(*                                                                         *)
(* What is modelled is the content of the messages; the steps come in the  *)
(* order in which the data flows, and Measurement has their interleavings. *)
(***************************************************************************)
EXTENDS SequencesExt, Protobuf

CONSTANTS
  Ips,        \* IPv4 addresses, as the u32 that stands for them
  MaxTargets, \* lines of the cli's file
  Hostnames,  \* names that a cli may give, the empty one included
  Hostname,   \* the name of the client that is connected
  Index,      \* its connection id
  TaskIds,    \* values of current_task_id
  Times       \* readings of a clock

ASSUME MessageFlowAssumption ==
  /\ Ips \cup TaskIds \cup Times \subseteq Nat /\ Index \in Nat
  /\ Hostnames \subseteq Seq(Byte) /\ Hostname \in Seq(Byte) \ {<<>>}
  /\ MaxTargets \in 0 .. 2   \* PayloadName has names for two

VARIABLES
  stage,    \* the step that the measurement has reached
  newer,    \* the message to which a newer program adds a field
  sent,     \* sent[n]: the message that one program has built, and its bytes
  got,      \* got[n]: what another program has read from its bytes
  source,   \* history: the address to ping from
  targets,  \* history: the addresses to ping
  replies   \* history: who replied, when, and to which ping

flowVars == <<stage, newer, sent, got, source, targets, replies>>

Added(new, f) ==
  [n \in DOMAIN new \cup DOMAIN f |-> IF n \in DOMAIN new THEN new[n] ELSE f[n]]

(* One program writes a message, another one reads it. *)
Written(m) == [message |-> m, bytes |-> WriteToBytes(m)]
Send(n, m) == sent' = Added([k \in {n} |-> Written(m)], sent)
ReadFrom(w) == ParseFromBytes(w.message.type, w.bytes)
Read(n) == ReadFrom(sent[n])

(* A field that this version of the protocol does not define. *)
WithNewField(m) ==
  [m EXCEPT !.unknown = <<[number |-> 9, wire_type |-> 2, value |-> <<200, 1>>]>>]
Versioned(m) == IF newer = m.type THEN WithNewField(m) ELSE m

-----------------------------------------------------------------------------
(* Conversion of addresses; a message without a value reads as "::".         *)
AddressOf(ip) == Set(NewMessage("Address"), 1, ip)
IpAddr(address) ==
  IF Has(address, 1)
  THEN [version |-> 4, value |-> Get(address, 1)]
  ELSE [version |-> 6, value |-> Get(address, 2)]
V4(ip) == [version |-> 4, value |-> ip]

ClientMetadata(hostname, version) ==
  Set(Set(NewMessage("Metadata"), 1, hostname), 2, version)

FlowInit ==
  /\ stage = "start"
  /\ newer \in {"none", "Ping", "PingPayload", "PingResult"}
  /\ sent = << >> /\ got = << >>
  /\ source \in Ips
  /\ targets \in BoundedSeq(Ips, MaxTargets)
  /\ replies = <<>>

-----------------------------------------------------------------------------
(***************************************************************************)
(* The cli schedules.  It always names the client, unless the user gives   *)
(* an empty name; then the index decides, and it is not set.               *)
(***************************************************************************)
BuildPing ==
  LET addresses == [i \in 1 .. Len(targets) |-> AddressOf(targets[i])]
  IN  Versioned(Set(Set(NewMessage("Ping"), 1, AddressOf(source)), 2, addresses))

Schedule ==
  /\ stage = "start"
  /\ \E hostname \in Hostnames :
       LET client == Set(NewMessage("Client"), 2,
                           Set(NewMessage("Metadata"), 1, hostname))
       IN  Send("schedule", Set(Set(NewMessage("ScheduleTask"), 2, BuildPing), 1, client))
  /\ stage' = "scheduled"
  /\ UNCHANGED <<newer, got, source, targets, replies>>

(* The client that do_task finds: by name if there is one, else by index. *)
Found(client) ==
  LET hostname == Get(Get(client, 2), 1)
  IN  IF hostname # <<>> THEN hostname = Hostname ELSE Get(client, 1) = Index

(* A faulty variant: the acknowledgement names the next task. *)
AcknowledgeNext(id) == Set(Set(NewMessage("Ack"), 1, id + 1), 2, TRUE)

Acknowledge(id) == Set(Set(NewMessage("Ack"), 1, id), 2, TRUE)
Refuse(message) == Set(NewMessage("Ack"), 3, message)

TaskOf(id, ping) == Set(Set(NewMessage("Task"), 1, id), 2, ping)

DoTask ==
  /\ stage = "scheduled"
  /\ LET read == Read("schedule")
         req == read.value
     IN  /\ got' = Added([schedule |-> read], got)
         /\ IF ~ Has(req, 2) THEN Send("ack", NewMessage("Ack")) /\ stage' = "answered"
            ELSE IF ~ Found(Get(req, 1))
            THEN Send("ack", Refuse(<<1>>)) /\ stage' = "answered"
            ELSE \E id \in TaskIds :
                   \/ /\ sent' = Added([ack |-> Written(Acknowledge(id)),
                                        task |-> Written(TaskOf(id, Take(req, 2).value))], sent)
                      /\ stage' = "dispatched"
                   \/ /\ Send("ack", Set(Refuse(<<2>>), 1, id))   \* the client is gone
                      /\ stage' = "answered"
  /\ UNCHANGED <<newer, source, targets, replies>>

(* Without success the cli prints the message and ends; with it, it          *)
(* subscribes to the task of the acknowledgement.                            *)
ReadAck ==
  /\ stage \in {"answered", "dispatched"}
  /\ LET read == Read("ack") IN
       /\ got' = Added([ack |-> read], got)
       /\ IF Get(read.value, 2)
          THEN /\ Send("subscribe", Set(NewMessage("TaskId"), 1, Get(read.value, 1)))
               /\ stage' = "subscribed"
          ELSE stage' = "refused" /\ UNCHANGED sent
  /\ UNCHANGED <<newer, source, targets, replies>>

(* The client takes the task if it holds a ping, and passes by any other. *)
ReceiveTask ==
  /\ stage = "subscribed"
  /\ LET read == Read("task") IN
       /\ got' = Added([task |-> read], got)
       /\ stage' = IF Has(read.value, 2) THEN "received" ELSE "passed by"
  /\ UNCHANGED <<newer, sent, source, targets, replies>>

-----------------------------------------------------------------------------
(***************************************************************************)
(* The pinging client: one payload for each address of the task.           *)
(***************************************************************************)
PayloadFor(task, i, time) ==
  LET ping == Get(task, 2)
      m1 == Set(NewMessage("PingPayload"), 3, Get(ping, 1))
      m2 == Set(m1, 4, Get(ping, 2)[i])
      m3 == Set(m2, 1, Get(task, 1))
  IN  Versioned(Set(m3, 2, time))

PayloadName(i) == IF i = 1 THEN "payload1" ELSE "payload2"
Destinations(task) == Get(Get(task, 2), 2)
Payloads == {i \in 1 .. 2 : PayloadName(i) \in DOMAIN sent}

PerformPing ==
  /\ stage = "received"
  /\ LET task == got["task"].value IN
       \E time \in Times :
         sent' = Added([n \in {PayloadName(i) : i \in 1 .. Len(Destinations(task))} |->
                          Written(PayloadFor(task, IF n = "payload1" THEN 1 ELSE 2, time))],
                       sent)
  /\ stage' = "pinged"
  /\ UNCHANGED <<newer, got, source, targets, replies>>

(* The host that was pinged replies with the payload; the reply's source is  *)
(* its address, and its destination the address the ping came from.          *)
Reply(i) ==
  /\ stage = "pinged"
  /\ i \in Payloads
  /\ \A k \in 1 .. Len(replies) : replies[k].ping # i
  /\ \E time \in Times :
       replies' = Append(replies, [ping |-> i, from |-> targets[i], to |-> source, at |-> time])
  /\ UNCHANGED <<stage, newer, sent, got, source, targets>>

-----------------------------------------------------------------------------
(***************************************************************************)
(* The receiving client: a result for each reply, in one message.          *)
(***************************************************************************)
(* A faulty variant: the addresses are swapped, as for an answer. *)
ResultForSwapped(reply, payload) ==
  LET m1 == Set(NewMessage("PingResult"), 4, payload)
      m2 == Set(Set(m1, 1, AddressOf(reply.to)), 2, AddressOf(reply.from))
  IN  Set(NewMessage("Result"), 1, Versioned(Set(Set(m2, 3, reply.at), 5, 64)))

ResultFor(reply, payload) ==
  LET m1 == Set(NewMessage("PingResult"), 4, payload)
      m2 == Set(m1, 1, AddressOf(reply.from))
      m3 == Set(m2, 2, AddressOf(reply.to))
      m4 == Set(Set(m3, 3, reply.at), 5, 64)
  IN  Set(NewMessage("Result"), 1, Versioned(m4))

TaskResultOf(id, results) ==
  LET client == Set(NewMessage("Client"), 2, ClientMetadata(Hostname, <<1>>))
  IN  Set(Set(Set(NewMessage("TaskResult"), 1, id), 2, client), 3, results)

Transmit ==
  /\ stage = "pinged"
  /\ replies # <<>>
  /\ LET read == [k \in 1 .. Len(replies) |-> Read(PayloadName(replies[k].ping))]
         payload == [k \in 1 .. Len(replies) |-> read[k].value]
         results == [k \in 1 .. Len(replies) |-> ResultFor(replies[k], payload[k])]
     IN  /\ Send("result", TaskResultOf(Get(payload[1], 1), results))
         /\ got' = Added([n \in {PayloadName(replies[k].ping) : k \in 1 .. Len(replies)} |->
                            Read(n)], got)
  /\ stage' = "transmitted"
  /\ UNCHANGED <<newer, source, targets, replies>>

(* The server passes on what it has read, and acknowledges with nothing. *)
RelayResult ==
  /\ stage = "transmitted"
  /\ LET read == Read("result") IN
       /\ got' = Added([result |-> read], got)
       /\ sent' = Added([relayed |-> Written(read.value),
                         received |-> Written(NewMessage("Ack"))], sent)
  /\ stage' = "relayed"
  /\ UNCHANGED <<newer, source, targets, replies>>

ReadResult ==
  /\ stage = "relayed"
  /\ got' = Added([relayed |-> Read("relayed"), received |-> Read("received")], got)
  /\ stage' = "shown"
  /\ UNCHANGED <<newer, sent, source, targets, replies>>

(* The pinging client names its task to end it. *)
FinishTask ==
  /\ stage = "shown"
  /\ LET finished == Set(NewMessage("TaskId"), 1, Get(got["task"].value, 1)) IN
       /\ Send("finished", finished)
       /\ got' = Added([finished |-> ReadFrom(Written(finished))], got)
  /\ stage' = "finished"
  /\ UNCHANGED <<newer, source, targets, replies>>

(* The keepalive of the server is a task without a ping. *)
Keepalive ==
  /\ stage = "finished"
  /\ LET task == Set(NewMessage("Task"), 3, NewMessage("Empty"))
         read == ReadFrom(Written(task))
     IN  /\ Send("keepalive", task)
         /\ got' = Added([keepalive |-> read], got)
         /\ stage' = IF Has(read.value, 2) THEN "received" ELSE "alive"
  /\ UNCHANGED <<newer, source, targets, replies>>

(* The list of clients shows the client under its index. *)
ListClients ==
  /\ stage = "alive"
  /\ LET client == Set(Set(NewMessage("Client"), 1, Index), 2,
                         ClientMetadata(Hostname, <<1>>))
         list == Set(NewMessage("ClientList"), 1, <<client>>)
     IN  /\ Send("list", list)
         /\ got' = Added([list |-> ReadFrom(Written(list))], got)
  /\ stage' = "listed"
  /\ UNCHANGED <<newer, source, targets, replies>>

FlowNext ==
  \/ ListClients \/ Schedule \/ DoTask \/ ReadAck \/ Keepalive \/ ReceiveTask
  \/ PerformPing \/ (\E i \in 1 .. MaxTargets : Reply(i)) \/ Transmit
  \/ RelayResult \/ ReadResult \/ FinishTask

FlowSpec == FlowInit /\ [][FlowNext]_flowVars

-----------------------------------------------------------------------------
(***************************************************************************)
(* Safety.                                                                 *)
(***************************************************************************)

(* Whoever reads a message has the message that was written: fields that     *)
(* hold the default are left out of the bytes and read as the default, and a *)
(* oneof tells which field was set even if its value is zero.                *)
ReadersHaveWhatWasWritten ==
  \A n \in DOMAIN got : got[n].ok /\ got[n].value = sent[n].message

(* The pings that go out are those of the cli's file, in its order and from  *)
(* the cli's source address, and carry the task id the cli was given.        *)
ScheduledIsPinged ==
  Payloads # {} =>
    /\ Payloads = 1 .. Len(targets)
    /\ \A i \in Payloads :
         LET payload == sent[PayloadName(i)].message IN
         /\ IpAddr(Get(payload, 4)) = V4(targets[i])
         /\ IpAddr(Get(payload, 3)) = V4(source)
         /\ Get(payload, 1) = Get(sent["subscribe"].message, 1)

(* What the cli can print: each reply in the order of arrival, with the      *)
(* addresses and the time of the reply and of the ping it answers.           *)
ShownIsWhatReplied ==
  "relayed" \in DOMAIN got =>
    LET shown == Get(got["relayed"].value, 3) IN
    /\ Len(shown) = Len(replies)
    /\ \A k \in 1 .. Len(replies) :
         LET ping == Get(shown[k], 1)
             payload == Get(ping, 4)
         IN  /\ Has(shown[k], 1)
             /\ IpAddr(Get(ping, 1)) = V4(replies[k].from)
             /\ IpAddr(Get(ping, 2)) = V4(replies[k].to)
             /\ Get(ping, 3) = replies[k].at
             /\ IpAddr(Get(payload, 4)) = V4(targets[replies[k].ping])
             /\ Get(payload, 2) = Get(sent[PayloadName(replies[k].ping)].message, 2)

(* What a newer program adds reaches the program at the other end, through a *)
(* server and clients that do not know it.                                   *)
NewFieldsSurvive ==
  /\ newer = "Ping" /\ "task" \in DOMAIN got
       => Get(got["task"].value, 2).unknown # <<>>
  /\ "relayed" \in DOMAIN got =>
       \A k \in 1 .. Len(replies) :
         LET ping == Get(Get(got["relayed"].value, 3)[k], 1) IN
         /\ newer = "PingResult" => ping.unknown # <<>>
         /\ newer = "PingPayload" => Get(ping, 4).unknown # <<>>
=============================================================================
