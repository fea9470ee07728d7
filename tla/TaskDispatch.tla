---------------------------- MODULE TaskDispatch ----------------------------
(***************************************************************************)
(* The task side of the server (src/server/mod.rs): the registry of        *)
(* connected clients (ConnectionManager), the streams that carry tasks to  *)
(* them (connect: a channel, its forwarder and its keepalive timer) and    *)
(* the do_task handler, which runs in the threads of the gRPC environment, *)
(* several at a time.                                                      *)
(*                                                                         *)
(* A stream is one connect call: one run of a client.  A client that comes *)
(* back is a new stream, possibly under the same hostname.                 *)
(*                                                                         *)
(* Time is abstracted to order: a keepalive is due at any moment.          *)
(***************************************************************************)
EXTENDS Integers, FiniteSets, SequencesExt

CONSTANTS
  Streams,      \* the connect calls
  Calls,        \* the do_task calls
  Hostnames,    \* the (nonempty) hostnames clients announce
  IdSpace,      \* the number of values of a u32: 2^32 in the program
  TaskBuffer,   \* the argument of channel(..) in connect: 1
  NoStream,     \* the absence of a registration: None
  Timer,        \* the sender of a stream's keepalive timer
  Queue         \* Queue[x]: the completion queue of the call x, a stream's or
                \* a do_task's: one of the environment's ten

ASSUME ConstantsAssumption ==
  /\ IdSpace \in Nat /\ IdSpace > 1
  /\ TaskBuffer \in Nat \ {0}
  /\ NoStream \notin Streams
  /\ Timer \notin Calls

VARIABLES
  (* the ConnectionManager and the task counter *)
  connection_id,    \* the last connection id given out
  connections,      \* connections[i]: the stream registered under id i
  current_task_id,  \* the next task id
  (* the streams *)
  phase,            \* phase[s]: how far the connect call s has got
  conn_id,          \* conn_id[s]: the id that s registers under
  hostname,         \* hostname[s]: the metadata that the client of s announces
  peer,             \* peer[s]: whether the client at the other end exists
  keepalive,        \* keepalive[s]: whether the timer task of s runs
  chan,             \* chan[s]: the channel of s, oldest message first
  parked,           \* parked[s]: the senders parked on that channel
  sink,             \* sink[s]: what the forwarder has taken and the client not
                    \* received, the message being written first
  completed,        \* completed[s]: whether the server has seen the completion
                    \* of the last write that the client received
  (* the do_task calls *)
  pc, tx, task_id, ack,
  (* history: the pings ever enqueued on s, and those its client received *)
  queued, received

registryVars  == <<connection_id, connections>>
streamVars    == <<phase, conn_id, hostname, peer, keepalive>>
transportVars == <<sink, completed, received>>
channelVars   == <<chan, parked, queued, transportVars>>
callVars      == <<pc, tx, task_id, ack, current_task_id>>
vars == <<registryVars, streamVars, channelVars, callVars>>

Channel == INSTANCE BoundedChannel WITH Buffer <- TaskBuffer

Ids == 0 .. IdSpace - 1

(* A Task message: a ping with its id, or the empty keepalive task. *)
Ping(n) == [ping |-> TRUE, task_id |-> n]
Keepalive == [ping |-> FALSE, task_id |-> 0]
Message == [ping : BOOLEAN, task_id : Ids]

Senders == Calls \cup {Timer}

(* A faulty variant: the counter stays where it is. *)
StuckCounter(n) == n

(* The next value of a u32 counter in a release build: it wraps around. *)
Increment(n) == (n + 1) % IdSpace

-----------------------------------------------------------------------------
(***************************************************************************)
(* The gRPC environment has ten completion queues, each with a thread of   *)
(* its own.  A call belongs to one of them: its handler runs in that       *)
(* thread, and so does the processing of its later events.  A handler that *)
(* blocks keeps its queue busy.                                            *)
(***************************************************************************)
HandlerRuns(x) ==
  \/ x \in Streams /\ phase[x] = "accepted"
  \/ x \in Calls /\ pc[x] \in {"found", "numbered", "sending"}

QueueIsFree(x) == \A y \in Streams \cup Calls : HandlerRuns(y) => Queue[y] # Queue[x]

(***************************************************************************)
(* ConnectionManager.  Each operator is one method; the lock it takes      *)
(* makes it one step.                                                      *)
(***************************************************************************)

RegisterConnection(i, s) == connections' = [connections EXCEPT ![i] = s]

(* A faulty variant: the entry is not removed. *)
UnregisterNothing(i) == i \in Ids /\ connections' = connections

UnregisterConnection(i) == connections' = [connections EXCEPT ![i] = NoStream]

(* The streams a lookup may return: none, or one of several. *)
ClientTxByIdx(i) == {connections[i]} \ {NoStream}

ClientTxByHostname(h) ==
  {s \in Streams : hostname[s] = h /\ \E i \in Ids : connections[i] = s}

(* What list_clients replies: an atomic snapshot of the registry. *)
ClientList ==
  {[index |-> i, stream |-> connections[i]] :
      i \in {j \in Ids : connections[j] # NoStream}}

-----------------------------------------------------------------------------
(***************************************************************************)
(* connect.  The id is generated under one lock, the registration is made  *)
(* under another.  Spawning the forwarder and the timer is part of the     *)
(* second step: until they are scheduled they do nothing.                  *)
(***************************************************************************)

ConnectGenerateId(s) ==
  /\ phase[s] = "new"
  /\ QueueIsFree(s)
  /\ connection_id' = Increment(connection_id)
  /\ conn_id' = [conn_id EXCEPT ![s] = connection_id']
  /\ peer' = [peer EXCEPT ![s] = TRUE]
  /\ phase' = [phase EXCEPT ![s] = "accepted"]
  /\ UNCHANGED <<connections, hostname, keepalive, channelVars, callVars>>

ConnectRegister(s) ==
  /\ phase[s] = "accepted"
  /\ RegisterConnection(conn_id[s], s)
  /\ phase' = [phase EXCEPT ![s] = "serving"]
  /\ keepalive' = [keepalive EXCEPT ![s] = TRUE]
  /\ UNCHANGED <<connection_id, conn_id, hostname, peer, channelVars, callVars>>

(* The channel has a receiver from its creation until the forwarder is      *)
(* dropped.                                                                 *)
ReceiverExists(s) == phase[s] \in {"accepted", "serving", "failed"}

(* Effect on the channel of s of `sender` sending message m on it. *)
SendOn(s, sender, m) ==
  /\ chan' = [chan EXCEPT ![s] = Channel!Enqueue(@, m)]
  /\ parked' = [parked EXCEPT ![s] = Channel!ParkIfFull(chan[s], @, sender)]

(* A faulty variant: the timer fires and sends nothing. *)
KeepaliveSilent(s) ==
  /\ keepalive[s]
  /\ ~ Channel!IsParked(parked[s], Timer)
  /\ keepalive' = [keepalive EXCEPT ![s] = ReceiverExists(s)]
  /\ UNCHANGED <<registryVars, phase, conn_id, hostname, peer, channelVars, callVars>>

(***************************************************************************)
(* The keepalive timer of s.  It owns one sender for its whole life, so a  *)
(* parked timer sends nothing; it ends when the receiver is gone.          *)
(***************************************************************************)
KeepaliveTick(s) ==
  /\ keepalive[s]
  /\ ~ Channel!IsParked(parked[s], Timer)
  /\ IF ReceiverExists(s)
       THEN SendOn(s, Timer, Keepalive) /\ UNCHANGED keepalive
       ELSE /\ keepalive' = [keepalive EXCEPT ![s] = FALSE]
            /\ UNCHANGED <<chan, parked>>
  /\ UNCHANGED <<registryVars, phase, conn_id, hostname, peer, queued, transportVars,
                 callVars>>

-----------------------------------------------------------------------------
(***************************************************************************)
(* The forwarder of s: rx.forward(sink).  It takes messages from the       *)
(* channel while the sink accepts them.  The gRPC sink has one write in    *)
(* flight and the forwarder buffers one message behind it.  A write counts *)
(* until the thread of the stream's completion queue has processed its     *)
(* completion.                                                             *)
(***************************************************************************)
SinkSlots == 2
Occupied(s) == Len(sink[s]) + (IF completed[s] THEN 0 ELSE 1)

(* A faulty variant: the forwarder replaces a message it still buffers. *)
ForwardOverwriting(s) ==
  /\ phase[s] = "serving"
  /\ chan[s] # <<>>
  /\ sink' = [sink EXCEPT ![s] = <<Head(chan[s])>>]
  /\ chan' = [chan EXCEPT ![s] = Tail(@)]
  /\ parked' = [parked EXCEPT ![s] = Channel!UnparkOne(@)]
  /\ UNCHANGED <<registryVars, streamVars, completed, queued, received, callVars>>

Forward(s) ==
  /\ phase[s] = "serving"
  /\ chan[s] # <<>>
  /\ Occupied(s) < SinkSlots
  /\ sink' = [sink EXCEPT ![s] = Append(@, Head(chan[s]))]
  /\ chan' = [chan EXCEPT ![s] = Tail(@)]
  /\ parked' = [parked EXCEPT ![s] = Channel!UnparkOne(@)]
  /\ UNCHANGED <<registryVars, streamVars, completed, queued, received, callVars>>

(* The client reads the message that is being written; or the client is gone *)
(* and the message leaves the server for nobody.                             *)
WriteReceived(s) ==
  /\ phase[s] = "serving"
  /\ sink[s] # <<>> /\ completed[s]
  /\ sink' = [sink EXCEPT ![s] = Tail(@)]
  /\ completed' = [completed EXCEPT ![s] = FALSE]
  /\ received' = IF peer[s] /\ Head(sink[s]).ping
                   THEN [received EXCEPT ![s] = Append(@, Head(sink[s]).task_id)]
                   ELSE received
  /\ UNCHANGED <<registryVars, streamVars, chan, parked, queued, callVars>>

WriteCompletes(s) ==
  /\ phase[s] = "serving"
  /\ QueueIsFree(s)
  /\ ~ completed[s]
  /\ completed' = [completed EXCEPT ![s] = TRUE]
  /\ UNCHANGED <<registryVars, streamVars, chan, parked, queued, sink, received,
                 callVars>>

(***************************************************************************)
(* The sink reports an error once the transport knows that the client is   *)
(* gone, during a write or between writes.  The forwarder's future         *)
(* resolves and unregisters the connection in the same poll; the receiver  *)
(* is dropped with the future, later.                                      *)
(***************************************************************************)
ForwarderFails(s) ==
  /\ phase[s] = "serving"
  /\ QueueIsFree(s)
  /\ ~ peer[s]
  /\ UnregisterConnection(conn_id[s])
  /\ phase' = [phase EXCEPT ![s] = "failed"]
  /\ sink' = [sink EXCEPT ![s] = <<>>]
  /\ completed' = [completed EXCEPT ![s] = TRUE]
  /\ UNCHANGED <<connection_id, conn_id, hostname, peer, keepalive, chan, parked,
                 queued, received, callVars>>

(* The receiver is dropped: what the channel holds is lost and every parked  *)
(* sender is unparked.                                                       *)
DropReceiver(s) ==
  /\ phase[s] = "failed"
  /\ phase' = [phase EXCEPT ![s] = "dropped"]
  /\ chan' = [chan EXCEPT ![s] = <<>>]
  /\ parked' = [parked EXCEPT ![s] = <<>>]
  /\ UNCHANGED <<registryVars, conn_id, hostname, peer, keepalive, queued,
                 transportVars, callVars>>

(* The client process ends, or the network to it is cut: the server is not   *)
(* told.                                                                     *)
PeerLeaves(s) ==
  /\ peer[s]
  /\ peer' = [peer EXCEPT ![s] = FALSE]
  /\ UNCHANGED <<registryVars, phase, conn_id, hostname, keepalive, channelVars,
                 callVars>>

-----------------------------------------------------------------------------
(***************************************************************************)
(* do_task, run by call c.  It looks the client up under the registry's    *)
(* read lock, takes a task id under the counter's lock, sends the task on  *)
(* a clone of the connection's sender and waits until that sender is not   *)
(* parked.  No lock is held from one of these steps to the next.           *)
(***************************************************************************)

Reply(c, a) ==
  /\ pc' = [pc EXCEPT ![c] = "replied"]
  /\ ack' = [ack EXCEPT ![c] = a]

(* The request carries no ping: the reply is a failure without a message. *)
DoTaskWithoutPing(c) ==
  /\ pc[c] = "idle"
  /\ QueueIsFree(c)
  /\ Reply(c, "no ping")
  /\ UNCHANGED <<registryVars, streamVars, channelVars, tx, task_id, current_task_id>>

(* The lookup finds one of the streams in `found`, or there is none. *)
DoTaskLookup(c, found) ==
  /\ pc[c] = "idle"
  /\ QueueIsFree(c)
  /\ IF found = {}
       THEN Reply(c, "no client") /\ UNCHANGED tx
       ELSE /\ \E s \in found : tx' = [tx EXCEPT ![c] = s]
            /\ pc' = [pc EXCEPT ![c] = "found"]
            /\ UNCHANGED ack
  /\ UNCHANGED <<registryVars, streamVars, channelVars, task_id, current_task_id>>

DoTaskByHostname(c, h) == DoTaskLookup(c, ClientTxByHostname(h))
DoTaskByIndex(c, i)    == DoTaskLookup(c, ClientTxByIdx(i))

DoTaskObtainId(c) ==
  /\ pc[c] = "found"
  /\ task_id' = [task_id EXCEPT ![c] = current_task_id]
  /\ current_task_id' = Increment(current_task_id)
  /\ pc' = [pc EXCEPT ![c] = "numbered"]
  /\ UNCHANGED <<registryVars, streamVars, channelVars, tx, ack>>

DoTaskSend(c) ==
  LET s == tx[c] IN
  /\ pc[c] = "numbered"
  /\ IF ReceiverExists(s)
       THEN /\ SendOn(s, c, Ping(task_id[c]))
            /\ queued' = [queued EXCEPT ![s] = Append(@, task_id[c])]
            /\ pc' = [pc EXCEPT ![c] = "sending"]
            /\ UNCHANGED ack
       ELSE Reply(c, "unable") /\ UNCHANGED <<chan, parked, queued>>
  /\ UNCHANGED <<registryVars, streamVars, transportVars, tx, task_id, current_task_id>>

(* A faulty variant: a send whose receiver has gone counts as a failure,
   although the client may already have taken the task. *)
DoTaskReplyByPeer(c) ==
  /\ pc[c] = "sending"
  /\ ~ Channel!IsParked(parked[tx[c]], c)
  /\ Reply(c, IF ReceiverExists(tx[c]) THEN "success" ELSE "unable")
  /\ UNCHANGED <<registryVars, streamVars, channelVars, tx, task_id, current_task_id>>

(* send(..).wait() returns Ok when the sender is unparked, also when it is   *)
(* unparked because the receiver was dropped.                                *)
DoTaskReply(c) ==
  /\ pc[c] = "sending"
  /\ ~ Channel!IsParked(parked[tx[c]], c)
  /\ Reply(c, "success")
  /\ UNCHANGED <<registryVars, streamVars, channelVars, tx, task_id, current_task_id>>

-----------------------------------------------------------------------------
Init ==
  /\ connection_id = 0
  /\ connections = [i \in Ids |-> NoStream]
  /\ current_task_id = 0
  /\ phase = [s \in Streams |-> "new"]
  /\ conn_id = [s \in Streams |-> 0]
  /\ hostname \in [Streams -> Hostnames]
  /\ peer = [s \in Streams |-> FALSE]
  /\ keepalive = [s \in Streams |-> FALSE]
  /\ chan = [s \in Streams |-> <<>>]
  /\ parked = [s \in Streams |-> <<>>]
  /\ sink = [s \in Streams |-> <<>>]
  /\ completed = [s \in Streams |-> TRUE]
  /\ queued = [s \in Streams |-> <<>>]
  /\ received = [s \in Streams |-> <<>>]
  /\ pc = [c \in Calls |-> "idle"]
  /\ tx = [c \in Calls |-> NoStream]
  /\ task_id = [c \in Calls |-> 0]
  /\ ack = [c \in Calls |-> "none"]

StreamStep(s) ==
  \/ ConnectGenerateId(s)
  \/ ConnectRegister(s)
  \/ KeepaliveTick(s)
  \/ Forward(s)
  \/ WriteReceived(s)
  \/ WriteCompletes(s)
  \/ ForwarderFails(s)
  \/ DropReceiver(s)
  \/ PeerLeaves(s)

CallStep(c) ==
  \/ DoTaskWithoutPing(c)
  \/ \E h \in Hostnames : DoTaskByHostname(c, h)
  \/ \E i \in Ids : DoTaskByIndex(c, i)
  \/ DoTaskObtainId(c)
  \/ DoTaskSend(c)
  \/ DoTaskReply(c)

(* Every stream and every call of the model is used up: the only state in    *)
(* which nothing is left to do.                                              *)
Quiescent ==
  /\ \A s \in Streams : phase[s] = "dropped" /\ ~ keepalive[s]
  /\ \A c \in Calls : pc[c] = "replied"
  /\ UNCHANGED vars

Next ==
  \/ \E s \in Streams : StreamStep(s)
  \/ \E c \in Calls : CallStep(c)
  \/ Quiescent

Spec == Init /\ [][Next]_vars

(***************************************************************************)
(* Fairness.  The tokio runtime polls every spawned future and the gRPC    *)
(* threads run every handler; the timer fires every five seconds; a client *)
(* that exists keeps reading its stream (client/mod.rs, for_each).  A dead *)
(* peer is noticed only by writing to it: a write to it may be accepted,   *)
(* but not write after write for ever.  Nobody is bound to connect, to     *)
(* leave or to schedule a task.                                            *)
(***************************************************************************)
FailingWrite(s) == Occupied(s) > 0 /\ ForwarderFails(s)

Fairness ==
  /\ \A s \in Streams :
       /\ WF_vars(ConnectRegister(s))
       /\ WF_vars(KeepaliveTick(s))
       /\ WF_vars(Forward(s))
       /\ WF_vars(WriteReceived(s))
       /\ WF_vars(WriteCompletes(s))
       /\ SF_vars(FailingWrite(s))
       /\ WF_vars(DropReceiver(s))
  /\ \A c \in Calls :
       /\ WF_vars(DoTaskObtainId(c))
       /\ WF_vars(DoTaskSend(c))
       /\ WF_vars(DoTaskReply(c))

FairSpec == Spec /\ Fairness

-----------------------------------------------------------------------------
Phases == {"new", "accepted", "serving", "failed", "dropped"}
CallStates == {"idle", "found", "numbered", "sending", "replied"}
Acks == {"none", "no ping", "no client", "unable", "success"}

(* Every variable has its type, and a call past its lookup has a stream. *)
TypeOK ==
  /\ connection_id \in Ids
  /\ connections \in [Ids -> Streams \cup {NoStream}]
  /\ current_task_id \in Ids
  /\ phase \in [Streams -> Phases]
  /\ conn_id \in [Streams -> Ids]
  /\ hostname \in [Streams -> Hostnames]
  /\ peer \in [Streams -> BOOLEAN]
  /\ keepalive \in [Streams -> BOOLEAN]
  /\ chan \in [Streams -> Seq(Message)]
  /\ parked \in [Streams -> Seq(Senders)]
  /\ sink \in [Streams -> Seq(Message)]
  /\ completed \in [Streams -> BOOLEAN]
  /\ queued \in [Streams -> Seq(Ids)]
  /\ received \in [Streams -> Seq(Ids)]
  /\ pc \in [Calls -> CallStates]
  /\ tx \in [Calls -> Streams \cup {NoStream}]
  /\ task_id \in [Calls -> Ids]
  /\ ack \in [Calls -> Acks]
  /\ \A c \in Calls : pc[c] \in {"found", "numbered", "sending"} => tx[c] \in Streams

(* Neither the connection ids nor the task ids wrap around: fewer calls than *)
(* a u32 has values.                                                         *)
NoWrap ==
  /\ IsFiniteSet(Streams) /\ Cardinality(Streams) < IdSpace
  /\ IsFiniteSet(Calls) /\ Cardinality(Calls) < IdSpace

-----------------------------------------------------------------------------
(***************************************************************************)
(* Safety.                                                                 *)
(***************************************************************************)

(* The registry never hands out a sender whose receiver is gone: a stream is *)
(* unregistered before its receiver is dropped (lines 185-190), so a lookup  *)
(* that succeeds returns a channel that can still be sent on.                *)
RegisteredChannelIsOpen ==
  \A i \in Ids : connections[i] # NoStream => ReceiverExists(connections[i])

(* While its forwarder runs a stream is registered under its own id, and a   *)
(* stream whose forwarder has failed is registered under none, whatever the  *)
(* interleaving of other connects and failures.                              *)
RegistryMatchesStreams ==
  \A s \in Streams :
    /\ phase[s] = "serving" => connections[conn_id[s]] = s
    /\ phase[s] \in {"failed", "dropped"} => \A i \in Ids : connections[i] # s

(* Where the tasks sent on s that are not lost are: received by its client,  *)
(* or in transit, as the pings among the messages on their way to it.        *)
InTransit(s) == sink[s] \o chan[s]

Places(s) ==
  {<<"received", i>> : i \in 1 .. Len(received[s])}
    \cup {<<"in transit", i>> : i \in {j \in 1 .. Len(InTransit(s)) : InTransit(s)[j].ping}}

TaskAt(s, place) ==
  IF place[1] = "received" THEN received[s][place[2]] ELSE InTransit(s)[place[2]].task_id

(* No task reaches two clients, or one client twice: concurrent do_task      *)
(* calls obtain different ids and a message leaves the channel once.         *)
NoTaskTwice ==
  \A s1, s2 \in Streams : \A p1 \in Places(s1), p2 \in Places(s2) :
    TaskAt(s1, p1) = TaskAt(s2, p2) => s1 = s2 /\ p1 = p2

(* A positive acknowledgement is lost only together with the client it was   *)
(* for; after a negative one no client has or will get the task.             *)
AckTellsTheTruth ==
  \A c \in Calls :
    LET carried(s) == \E p \in Places(s) : TaskAt(s, p) = task_id[c]
    IN  /\ ack[c] = "success" /\ peer[tx[c]] => carried(tx[c])
        /\ ack[c] = "unable" => \A s \in Streams : ~ carried(s)

(* The channel holds Buffer messages and one more for each sender parked on  *)
(* it, and those senders wait in the order of their messages.  A do_task     *)
(* call is therefore acknowledged only once its task is among the first      *)
(* Buffer messages: back pressure reaches the caller.                        *)
MessageOf(sender) == IF sender = Timer THEN Keepalive ELSE Ping(task_id[sender])

ParkedSendersMatchBacklog ==
  \A s \in Streams :
    /\ Len(parked[s]) = IF Len(chan[s]) > TaskBuffer
                          THEN Len(chan[s]) - TaskBuffer ELSE 0
    /\ \A k \in 1 .. Len(parked[s]) :
         chan[s][TaskBuffer + k] = MessageOf(parked[s][k])

(***************************************************************************)
(* Refinement.  The receivers are the streams; a stream is broken from the *)
(* moment its client is gone.                                              *)
(***************************************************************************)
streamStatus ==
  [s \in Streams |-> IF phase[s] = "new" \/ peer[s] THEN "open" ELSE "broken"]

Delivery == INSTANCE OrderedDelivery WITH
  Receivers <- Streams, Messages <- Ids,
  accepted <- queued, delivered <- received, status <- streamStatus

(* A client receives the tasks sent to it in the order in which do_task      *)
(* enqueued them, with none missing in between, as long as it exists.        *)
TasksDeliveredInOrder == Delivery!Spec

-----------------------------------------------------------------------------
(***************************************************************************)
(* Action properties.                                                      *)
(***************************************************************************)

(* An entry leaves the registry, or is replaced, only because the forwarder  *)
(* of its own stream fails: no connect and no other stream's failure costs a *)
(* connected client its registration.                                        *)
EntriesLeaveOnlyOnFailure ==
  [][\A i \in Ids :
       connections[i] # NoStream /\ connections'[i] # connections[i]
         => phase'[connections[i]] = "failed"]_vars

-----------------------------------------------------------------------------
(***************************************************************************)
(* Liveness.                                                               *)
(***************************************************************************)

(* A connection whose client is gone is eventually unregistered, even if no  *)
(* task is ever scheduled: the keepalives find out (lines 193-205).          *)
DeadConnectionsExpire ==
  \A s \in Streams :
    phase[s] # "new" /\ ~ peer[s] ~> phase[s] = "dropped" /\ ~ keepalive[s]

(* Every do_task call is answered: its handler thread is not blocked for     *)
(* ever by a full channel, a slow client or a dead one.                      *)
EveryCallAnswered ==
  \A c \in Calls : pc[c] # "idle" ~> pc[c] = "replied"

(* A task acknowledged with success reaches the client, unless the client    *)
(* goes away.                                                                *)
AcknowledgedTaskArrives ==
  \A c \in Calls, s \in Streams :
    ack[c] = "success" /\ tx[c] = s
      ~> ~ peer[s] \/ \E i \in 1 .. Len(received[s]) : received[s][i] = task_id[c]

-----------------------------------------------------------------------------
(***************************************************************************)
(* What the documentation promises and the code does not.                  *)
(***************************************************************************)

(* server/mod.rs lines 165-166: the forwarder forwards all tasks from the     *)
(* channel to the sink, and unregisters the connection on error.  When a     *)
(* do_task handler waits for room in the channel in the thread of the        *)
(* stream's own completion queue, neither happens.                           *)
AllTasksAreForwarded ==
  \A c \in Calls, s \in Streams :
    pc[c] = "sending" /\ tx[c] = s
      ~> \/ phase[s] = "dropped"
         \/ \A k \in 1 .. Len(chan[s]) : chan[s][k] # Ping(task_id[c])
=============================================================================
