----------------------------- MODULE PingInbound -----------------------------
(***************************************************************************)
(* How a client reports the replies it receives                            *)
(* (src/client/handlers/ping_inbound.rs).  The receiver thread takes       *)
(* packets from a raw socket and puts them on a channel; the processor     *)
(* thread takes them off, drops those without a payload of this program    *)
(* and collects the others in result_queue; the transmitter thread swaps   *)
(* result_queue for an empty one every five seconds and sends what it got  *)
(* to the server, grouped by task.  The main thread stops them.            *)
(*                                                                         *)
(* Time is abstracted to order: the transmitter wakes at any moment.       *)
(***************************************************************************)
EXTENDS Naturals, FiniteSets, SequencesExt

CONSTANTS
  Packets,        \* the ICMP packets that arrive
  MaxTask,        \* the greatest task id: u32::MAX in the program
  PacketBuffer,   \* the argument of channel(..) in start: 1024
  NoPayload       \* marks a packet without a payload signed by this program

ASSUME ConstantsAssumption ==
  /\ MaxTask \in Nat
  /\ PacketBuffer \in Nat \ {0}
  /\ NoPayload \notin 0 .. MaxTask

TaskIds == 0 .. MaxTask

VARIABLES
  task_id,       \* task_id[p]: the task in the payload of p, or NoPayload
  main,          \* how far start and exit have got
  socket,        \* the packets in the socket's buffer, oldest first
  shut,          \* whether the socket is shut down
  receiver,      \* the receiver thread: new, running, failed or ended
  chan,          \* the channel to the processor, oldest packet first
  parked,        \* the receiver's sender, if parked, named by its packet
  processor,     \* the processor thread: new, running or ended
  result_queue,  \* the results to be transmitted next
  closed,        \* whether poison_rx is closed
  transmitter,   \* the transmitter thread: new, sleeping, grouping or ended
  rq,            \* the results of this wake-up that are not grouped yet
  tr,            \* the TaskResult being filled
  (* history *)
  arrived,       \* the packets in the order of arrival
  batches,       \* the TaskResults the server acknowledged
  transmitted,   \* the packets in them, in the order of transmission
  failed,        \* the packets in TaskResults that could not be sent
  wakes          \* the number of wake-ups that had something to send

socketVars   == <<socket, shut, arrived>>
receiverVars == <<receiver, chan, parked>>
senderVars   == <<transmitter, rq, tr, batches, transmitted, failed, wakes>>
vars == <<task_id, main, socketVars, receiverVars, processor, result_queue, closed,
          senderVars>>

Channel == INSTANCE BoundedChannel WITH Buffer <- PacketBuffer

(* What sorting results by task id makes of them: the results in another     *)
(* order, those of equal task id in the order they had.  There is exactly    *)
(* one such sequence.                                                        *)
Sorted(results, order) == [k \in DOMAIN results |-> results[order[k]]]

IsStable(results, order) ==
  \A j, k \in DOMAIN results : j < k =>
    \/ task_id[results[order[j]]] < task_id[results[order[k]]]
    \/ task_id[results[order[j]]] = task_id[results[order[k]]] /\ order[j] < order[k]

SortedByTask(results) ==
  {Sorted(results, order) : order \in
     {o \in Bijection(DOMAIN results, DOMAIN results) : IsStable(results, o)}}

(* A fresh TaskResult of the loop names the client; the one before the loop  *)
(* has the task id u32::MAX and no client.                                   *)
EmptyTaskResult == [task |-> MaxTask, client |-> FALSE, list |-> <<>>]
NewTaskResult(p) == [task |-> task_id[p], client |-> TRUE, list |-> <<p>>]

-----------------------------------------------------------------------------
(* The raw socket is open from PingInbound::new on. *)
Arrive(p) ==
  /\ main # "exited"
  /\ ~ Contains(arrived, p)
  /\ socket' = Append(socket, p)
  /\ arrived' = Append(arrived, p)
  /\ UNCHANGED <<task_id, main, shut, receiverVars, processor, result_queue, closed,
                 senderVars>>

Start ==
  /\ main = "new"
  /\ main' = "running"
  /\ receiver' = "running"
  /\ processor' = "running"
  /\ transmitter' = "sleeping"
  /\ UNCHANGED <<task_id, socketVars, chan, parked, result_queue, closed, rq, tr,
                 batches, transmitted, failed, wakes>>

-----------------------------------------------------------------------------
(***************************************************************************)
(* The receiver thread.  Its sends wait while the processor lags behind.   *)
(***************************************************************************)
Receive ==
  /\ receiver = "running"
  /\ parked = <<>>
  /\ socket # <<>>
  /\ socket' = Tail(socket)
  /\ chan' = Channel!Enqueue(chan, Head(socket))
  /\ parked' = Channel!ParkIfFull(chan, parked, Head(socket))
  /\ UNCHANGED <<task_id, main, shut, arrived, receiver, processor, result_queue,
                 closed, senderVars>>

(* On a socket that is shut down recv returns 0 when nothing is buffered. *)
ReceiverEnds ==
  /\ receiver = "running"
  /\ parked = <<>>
  /\ shut /\ socket = <<>>
  /\ receiver' = "ended"
  /\ UNCHANGED <<task_id, main, socketVars, chan, parked, processor, result_queue,
                 closed, senderVars>>

(* An error of recv ends the thread as well, and nobody notices. *)
ReceiveFails ==
  /\ receiver = "running"
  /\ parked = <<>>
  /\ receiver' = "failed"
  /\ UNCHANGED <<task_id, main, socketVars, chan, parked, processor, result_queue,
                 closed, senderVars>>

-----------------------------------------------------------------------------
(***************************************************************************)
(* The processor thread.                                                   *)
(***************************************************************************)
(* A faulty variant: packets of other programs are collected as well. *)
ProcessUnchecked ==
  /\ processor = "running"
  /\ chan # <<>>
  /\ chan' = Tail(chan)
  /\ parked' = Channel!UnparkOne(parked)
  /\ result_queue' = Append(result_queue, Head(chan))
  /\ UNCHANGED <<task_id, main, socketVars, receiver, processor, closed, senderVars>>

Process ==
  /\ processor = "running"
  /\ chan # <<>>
  /\ chan' = Tail(chan)
  /\ parked' = Channel!UnparkOne(parked)
  /\ result_queue' = IF task_id[Head(chan)] = NoPayload
                       THEN result_queue
                       ELSE Append(result_queue, Head(chan))
  /\ UNCHANGED <<task_id, main, socketVars, receiver, processor, closed, senderVars>>

(* The only sender is the receiver thread's. *)
ProcessorEnds ==
  /\ processor = "running"
  /\ receiver \in {"failed", "ended"} /\ chan = <<>>
  /\ processor' = "ended"
  /\ UNCHANGED <<task_id, main, socketVars, receiverVars, result_queue, closed,
                 senderVars>>

-----------------------------------------------------------------------------
(***************************************************************************)
(* The transmitter thread.                                                 *)
(***************************************************************************)

(* A faulty variant: the results are not sorted. *)
WakeUnsorted ==
  /\ transmitter = "sleeping" /\ ~ closed
  /\ result_queue # <<>>
  /\ rq' = result_queue
  /\ result_queue' = <<>>
  /\ tr' = EmptyTaskResult
  /\ transmitter' = "grouping"
  /\ wakes' = wakes + 1
  /\ UNCHANGED <<task_id, main, socketVars, receiverVars, processor, closed, batches,
                 transmitted, failed>>

(* After its sleep: swap the queue and sort what was in it.  With an empty   *)
(* queue the thread does nothing and sleeps again.                           *)
Wake ==
  /\ transmitter = "sleeping" /\ ~ closed
  /\ result_queue # <<>>
  /\ rq' \in SortedByTask(result_queue)
  /\ result_queue' = <<>>
  /\ tr' = EmptyTaskResult
  /\ transmitter' = "grouping"
  /\ wakes' = wakes + 1
  /\ UNCHANGED <<task_id, main, socketVars, receiverVars, processor, closed, batches,
                 transmitted, failed>>

(* A faulty variant: the thread does not look at the poison. *)
NeverEnds == transmitter = "sleeping" /\ closed /\ UNCHANGED vars

TransmitterEnds ==
  /\ transmitter = "sleeping" /\ closed
  /\ transmitter' = "ended"
  /\ UNCHANGED <<task_id, main, socketVars, receiverVars, processor, result_queue,
                 closed, rq, tr, batches, transmitted, failed, wakes>>

Fits == rq # <<>> /\ task_id[Head(rq)] = tr.task

AddToTaskResult ==
  /\ transmitter = "grouping"
  /\ Fits
  /\ tr' = [tr EXCEPT !.list = Append(@, Head(rq))]
  /\ rq' = Tail(rq)
  /\ UNCHANGED <<task_id, main, socketVars, receiverVars, processor, result_queue,
                 closed, transmitter, batches, transmitted, failed, wakes>>

(* A faulty variant: what is in the container is not sent first. *)
StartTaskResultUnsent ==
  /\ transmitter = "grouping"
  /\ rq # <<>> /\ ~ Fits
  /\ tr' = NewTaskResult(Head(rq))
  /\ rq' = Tail(rq)
  /\ UNCHANGED <<task_id, main, socketVars, receiverVars, processor, result_queue,
                 closed, transmitter, batches, transmitted, failed, wakes>>

(* The old container is empty, or sent: it is replaced. *)
StartTaskResult ==
  /\ transmitter = "grouping"
  /\ rq # <<>> /\ ~ Fits
  /\ tr.list = <<>>
  /\ tr' = NewTaskResult(Head(rq))
  /\ rq' = Tail(rq)
  /\ UNCHANGED <<task_id, main, socketVars, receiverVars, processor, result_queue,
                 closed, transmitter, batches, transmitted, failed, wakes>>

(* A faulty variant: the thread panics when a call fails. *)
TransmitOrPanic(success) ==
  /\ transmitter = "grouping"
  /\ ~ Fits
  /\ tr.list # <<>>
  /\ tr' = [tr EXCEPT !.list = <<>>]
  /\ IF success
       THEN /\ batches' = Append(batches, [wake |-> wakes, task |-> tr.task,
                                           client |-> tr.client, list |-> tr.list])
            /\ transmitted' = transmitted \o tr.list
            /\ UNCHANGED <<failed, transmitter>>
       ELSE /\ failed' = failed \cup ToSet(tr.list)
            /\ transmitter' = "ended"
            /\ UNCHANGED <<batches, transmitted>>
  /\ UNCHANGED <<task_id, main, socketVars, receiverVars, processor, result_queue,
                 closed, rq, wakes>>

(* A container that has results and cannot take the next one is sent.  When  *)
(* the call fails its results are dropped.                                   *)
Transmit(success) ==
  /\ transmitter = "grouping"
  /\ ~ Fits
  /\ tr.list # <<>>
  /\ tr' = [tr EXCEPT !.list = <<>>]
  /\ IF success
       THEN /\ batches' = Append(batches, [wake |-> wakes, task |-> tr.task,
                                           client |-> tr.client, list |-> tr.list])
            /\ transmitted' = transmitted \o tr.list
            /\ UNCHANGED failed
       ELSE /\ failed' = failed \cup ToSet(tr.list)
            /\ UNCHANGED <<batches, transmitted>>
  /\ UNCHANGED <<task_id, main, socketVars, receiverVars, processor, result_queue,
                 closed, transmitter, rq, wakes>>

Sleep ==
  /\ transmitter = "grouping"
  /\ rq = <<>> /\ tr.list = <<>>
  /\ transmitter' = "sleeping"
  /\ UNCHANGED <<task_id, main, socketVars, receiverVars, processor, result_queue,
                 closed, rq, tr, batches, transmitted, failed, wakes>>

-----------------------------------------------------------------------------
(***************************************************************************)
(* exit.  The raw socket is not connected, so shutdown returns the error   *)
(* that the code expects; it still wakes the receiver.                     *)
(***************************************************************************)
ShutdownSocket ==
  /\ main = "running"
  /\ main' = "shut"
  /\ shut' = TRUE
  /\ UNCHANGED <<task_id, socket, arrived, receiverVars, processor, result_queue,
                 closed, senderVars>>

ClosePoison ==
  /\ main = "shut"
  /\ main' = "joining"
  /\ closed' = TRUE
  /\ UNCHANGED <<task_id, socketVars, receiverVars, processor, result_queue, senderVars>>

JoinThreads ==
  /\ main = "joining"
  /\ receiver \in {"failed", "ended"} /\ processor = "ended" /\ transmitter = "ended"
  /\ main' = "exited"
  /\ UNCHANGED <<task_id, socketVars, receiverVars, processor, result_queue, closed,
                 senderVars>>

-----------------------------------------------------------------------------
Init ==
  /\ task_id \in [Packets -> TaskIds \cup {NoPayload}]
  /\ main = "new"
  /\ socket = <<>> /\ arrived = <<>>
  /\ shut = FALSE
  /\ receiver = "new"
  /\ chan = <<>> /\ parked = <<>>
  /\ processor = "new"
  /\ result_queue = <<>>
  /\ closed = FALSE
  /\ transmitter = "new"
  /\ rq = <<>>
  /\ tr = EmptyTaskResult
  /\ batches = <<>> /\ transmitted = <<>> /\ failed = {} /\ wakes = 0

ReceiverStep == Receive \/ ReceiverEnds \/ ReceiveFails
ProcessorStep == Process \/ ProcessorEnds
TransmitterStep ==
  \/ Wake
  \/ TransmitterEnds
  \/ AddToTaskResult
  \/ StartTaskResult
  \/ \E success \in BOOLEAN : Transmit(success)
  \/ Sleep
MainStep == Start \/ ShutdownSocket \/ ClosePoison \/ JoinThreads

Exited == main = "exited" /\ UNCHANGED vars

Next ==
  \/ \E p \in Packets : Arrive(p)
  \/ ReceiverStep
  \/ ProcessorStep
  \/ TransmitterStep
  \/ MainStep
  \/ Exited

Spec == Init /\ [][Next]_vars

(***************************************************************************)
(* Fairness: the operating system runs the threads, the sleep ends, and a  *)
(* call of send_result returns or fails (ResultFeed!EveryReportAnswered).  *)
(* Nobody is bound to send packets or to stop the client, and recv is not  *)
(* bound to fail.                                                          *)
(***************************************************************************)
Fairness ==
  /\ WF_vars(Start)
  /\ WF_vars(Receive \/ ReceiverEnds)
  /\ WF_vars(ProcessorStep)
  /\ WF_vars(TransmitterStep)
  /\ WF_vars(ClosePoison)
  /\ WF_vars(JoinThreads)

FairSpec == Spec /\ Fairness

-----------------------------------------------------------------------------
(***************************************************************************)
(* Safety.                                                                 *)
(***************************************************************************)

(* The packets on their way to the server, and those that have got there,    *)
(* the one that is or was first at the server first.                         *)
Line == transmitted \o (tr.list \o (rq \o (result_queue \o (chan \o socket))))

CameBefore(p, q) ==
  \E j, k \in 1 .. Len(arrived) : j < k /\ arrived[j] = p /\ arrived[k] = q

(* No reply is lost, duplicated or overtaken by a later one of its task on   *)
(* its way from the socket to the server, across three threads and the swap  *)
(* of the queue; only those in a failed call are missing.                    *)
RepliesKeepTheirPlace ==
  LET line == Line IN
  /\ \A j, k \in 1 .. Len(line) : j < k =>
       /\ line[j] # line[k]
       /\ task_id[line[j]] = task_id[line[k]] => CameBefore(line[j], line[k])
  /\ \A p \in Packets : task_id[p] # NoPayload =>
       (p \in ToSet(line) <=> p \in ToSet(arrived) \ failed)

(* A TaskResult that is sent has results, all of the task it names, and it   *)
(* names its client.  One wake-up sends one TaskResult for each task.  Line  *)
(* 162 makes an exception of the client when the task id is u32::MAX.        *)
OneBatchPerTask ==
  \A k \in 1 .. Len(batches) :
    /\ batches[k].list # <<>>
    /\ \A p \in ToSet(batches[k].list) : task_id[p] = batches[k].task
    /\ batches[k].client \/ batches[k].task = MaxTask
    /\ \A j \in 1 .. k - 1 :
         batches[j].wake = batches[k].wake => batches[j].task # batches[k].task

(***************************************************************************)
(* Liveness.                                                               *)
(***************************************************************************)

(* Every reply that arrives is transmitted, or its call fails, unless the    *)
(* client is stopped or recv has failed.                                     *)
RepliesAreTransmitted ==
  \A p \in Packets :
    Contains(arrived, p) /\ task_id[p] \in TaskIds
      ~> \/ p \in failed \cup ToSet(transmitted)
         \/ shut \/ receiver = "failed"

(* exit returns: each of the threads ends.                                   *)
ExitReturns == main = "shut" ~> main = "exited"

=============================================================================
