----------------------------- MODULE ResultFeed -----------------------------
(***************************************************************************)
(* The result side of the server (src/server/mod.rs): the subscription     *)
(* list, the streams that carry results to the cli (subscribe_result: a    *)
(* channel and its forwarder), and the handlers send_result, which puts a  *)
(* client's results on every subscribed stream, one after another, and     *)
(* task_finished, which ends the streams of a task.                        *)
(*                                                                         *)
(* A feed is one subscribe_result call, a report one send_result call.  A  *)
(* report stands for the results it carries.                               *)
(***************************************************************************)
EXTENDS Integers, FiniteSets, SequencesExt

CONSTANTS
  Feeds,          \* the subscribe_result calls
  Reports,        \* the send_result calls
  Tasks,          \* the task ids; task_finished is called once for each
  ResultBuffer,   \* the argument of channel(..) in subscribe_result: 1
  Queue           \* Queue[x]: the completion queue of the feed or report x, or
                  \* of the task_finished call of the task x

ASSUME ConstantsAssumption ==
  /\ ResultBuffer \in Nat \ {0}
  /\ Feeds \cap Reports = {}

VARIABLES
  subscription_list,  \* subscription_list[t]: the feeds listed for task t;
                      \* empty when the map has no entry for t
  finished,           \* finished[t]: whether task_finished was called for t
  (* the feeds *)
  phase,              \* phase[f]: new, serving, ended or failed
  topic,              \* topic[f]: the task that f subscribes to
  cli,                \* cli[f]: whether the cli at the other end exists
  chan,               \* chan[f]: the channel of f, oldest report first
  parked,             \* parked[f]: the reports whose sender is parked on it
  sink,               \* sink[f]: what the forwarder has taken and the cli not
                      \* received, the report being written first
  completed,          \* completed[f]: whether the server has seen the
                      \* completion of the last write that the cli received
  (* the reports *)
  pc,                 \* pc[r]: how far the handler of r has got
  task_id,            \* task_id[r]: the task r has results for
  subscribers,        \* subscribers[r]: what get_subscribers returned to r
  todo,               \* todo[r]: those of them r has not been sent to
  (* history *)
  accepted,           \* accepted[f]: the reports ever enqueued on f
  received,           \* received[f]: those its cli received
  earlier             \* earlier[r]: the reports replied to before r began

feedVars    == <<phase, topic, cli>>
streamVars  == <<sink, completed, received>>
channelVars == <<chan, parked, accepted, streamVars>>
reportVars  == <<pc, task_id, subscribers, todo, earlier>>
vars == <<subscription_list, finished, feedVars, channelVars, reportVars>>

Channel == INSTANCE BoundedChannel WITH Buffer <- ResultBuffer

Running(r) == pc[r] \in {"sending", "waiting"}

(* A handler that blocks keeps the thread of its completion queue busy. *)
QueueIsFree(x) == \A r \in Reports : Running(r) => Queue[r] # Queue[x]

Holds(r, f) == \E k \in 1 .. Len(subscribers[r]) : subscribers[r][k] = f
Listed(f) == \E k \in 1 .. Len(subscription_list[topic[f]]) :
               subscription_list[topic[f]][k] = f

-----------------------------------------------------------------------------
(***************************************************************************)
(* The subscription list.  Each operator is one method; the lock it takes  *)
(* makes it one step.                                                      *)
(***************************************************************************)

register_subscriber(t, f) ==
  subscription_list' = [subscription_list EXCEPT ![t] = Append(@, f)]

(* A faulty variant: the subscribers of every task. *)
AllSubscribers(t) ==
  FoldSet(LAMBDA u, s : s \o subscription_list[u], <<>>, Tasks)

get_subscribers(t) == subscription_list[t]

disconnect_subscribers(t) ==
  subscription_list' = [subscription_list EXCEPT ![t] = <<>>]

-----------------------------------------------------------------------------
(***************************************************************************)
(* subscribe_result and the forwarder of a feed.                           *)
(***************************************************************************)

SubscribeResult(f) ==
  /\ phase[f] = "new"
  /\ QueueIsFree(f)
  /\ register_subscriber(topic[f], f)
  /\ phase' = [phase EXCEPT ![f] = "serving"]
  /\ UNCHANGED <<finished, topic, cli, channelVars, reportVars>>

(* The sink has one write in flight, the forwarder buffers one report more. *)
SinkSlots == 2
Occupied(f) == Len(sink[f]) + (IF completed[f] THEN 0 ELSE 1)

(* A faulty variant: the forwarder replaces a report it still buffers. *)
ForwardOverwriting(f) ==
  /\ phase[f] = "serving"
  /\ chan[f] # <<>>
  /\ sink' = [sink EXCEPT ![f] = <<Head(chan[f])>>]
  /\ chan' = [chan EXCEPT ![f] = Tail(@)]
  /\ parked' = [parked EXCEPT ![f] = Channel!UnparkOne(@)]
  /\ UNCHANGED <<subscription_list, finished, feedVars, completed, accepted,
                 received, reportVars>>

(* A faulty variant: the forwarder writes the newest report first. *)
ForwardNewest(f) ==
  /\ phase[f] = "serving"
  /\ chan[f] # <<>>
  /\ Occupied(f) < SinkSlots
  /\ sink' = [sink EXCEPT ![f] = Append(@, Last(chan[f]))]
  /\ chan' = [chan EXCEPT ![f] = Front(@)]
  /\ parked' = [parked EXCEPT ![f] = Channel!UnparkOne(@)]
  /\ UNCHANGED <<subscription_list, finished, feedVars, completed, accepted,
                 received, reportVars>>

Forward(f) ==
  /\ phase[f] = "serving"
  /\ chan[f] # <<>>
  /\ Occupied(f) < SinkSlots
  /\ sink' = [sink EXCEPT ![f] = Append(@, Head(chan[f]))]
  /\ chan' = [chan EXCEPT ![f] = Tail(@)]
  /\ parked' = [parked EXCEPT ![f] = Channel!UnparkOne(@)]
  /\ UNCHANGED <<subscription_list, finished, feedVars, completed, accepted,
                 received, reportVars>>

(* The cli reads the report that is being written; or the cli is gone and    *)
(* the report leaves the server for nobody.                                  *)
WriteReceived(f) ==
  /\ phase[f] = "serving"
  /\ sink[f] # <<>> /\ completed[f]
  /\ sink' = [sink EXCEPT ![f] = Tail(@)]
  /\ completed' = [completed EXCEPT ![f] = FALSE]
  /\ received' = IF cli[f] THEN [received EXCEPT ![f] = Append(@, Head(sink[f]))]
                           ELSE received
  /\ UNCHANGED <<subscription_list, finished, feedVars, chan, parked, accepted,
                 reportVars>>

WriteCompletes(f) ==
  /\ phase[f] = "serving"
  /\ QueueIsFree(f)
  /\ ~ completed[f]
  /\ completed' = [completed EXCEPT ![f] = TRUE]
  /\ UNCHANGED <<subscription_list, finished, feedVars, chan, parked, accepted,
                 sink, received, reportVars>>

(* A faulty variant: the end of the task ends the stream, whatever the       *)
(* handlers that have looked the feed up still hold.                         *)
EndWithList(f) ==
  /\ phase[f] = "serving"
  /\ ~ Listed(f)
  /\ chan[f] = <<>> /\ Occupied(f) = 0
  /\ phase' = [phase EXCEPT ![f] = "ended"]
  /\ UNCHANGED <<subscription_list, finished, topic, cli, channelVars, reportVars>>

(* A faulty variant: the end of the task is not passed on. *)
EndNever(f) == FALSE /\ phase[f] = "serving" /\ UNCHANGED vars

(* The last sender is gone, in the list and in the handlers, the channel is  *)
(* empty and everything is written: the forwarder closes the sink.           *)
StreamEnds(f) ==
  /\ phase[f] = "serving"
  /\ ~ Listed(f)
  /\ \A r \in Reports : Running(r) => ~ Holds(r, f)
  /\ chan[f] = <<>> /\ Occupied(f) = 0
  /\ phase' = [phase EXCEPT ![f] = "ended"]
  /\ UNCHANGED <<subscription_list, finished, topic, cli, channelVars, reportVars>>

(* The sink reports that the cli is gone.  The forwarder's future ends, and  *)
(* the receiver is dropped with it: every parked sender is unparked.  The    *)
(* feed stays listed.                                                        *)
StreamFails(f) ==
  /\ phase[f] = "serving"
  /\ QueueIsFree(f)
  /\ ~ cli[f]
  /\ phase' = [phase EXCEPT ![f] = "failed"]
  /\ chan' = [chan EXCEPT ![f] = <<>>]
  /\ parked' = [parked EXCEPT ![f] = <<>>]
  /\ sink' = [sink EXCEPT ![f] = <<>>]
  /\ completed' = [completed EXCEPT ![f] = TRUE]
  /\ UNCHANGED <<subscription_list, finished, topic, cli, accepted, received, reportVars>>

(* The cli process ends before its stream does, or the network to it is cut. *)
CliLeaves(f) ==
  /\ phase[f] = "serving"
  /\ cli[f]
  /\ cli' = [cli EXCEPT ![f] = FALSE]
  /\ UNCHANGED <<subscription_list, finished, phase, topic, channelVars, reportVars>>

-----------------------------------------------------------------------------
(***************************************************************************)
(* send_result, run by report r.  The subscribers are copied under the     *)
(* read lock; then each of the copies is cloned, sent to and waited for.   *)
(* The copies live until the last of them is done.                         *)
(***************************************************************************)

SendResultLookup(r) ==
  /\ pc[r] = "idle"
  /\ QueueIsFree(r)
  /\ subscribers' = [subscribers EXCEPT ![r] = get_subscribers(task_id[r])]
  /\ todo' = [todo EXCEPT ![r] = get_subscribers(task_id[r])]
  /\ earlier' = [earlier EXCEPT ![r] = {q \in Reports : pc[q] = "replied"}]
  /\ pc' = [pc EXCEPT ![r] = "sending"]
  /\ UNCHANGED <<subscription_list, finished, feedVars, channelVars, task_id>>

(* A faulty variant: a subscriber that is gone makes the handler give up. *)
SendGivingUp(r) ==
  LET f == Head(todo[r]) IN
  /\ pc[r] = "sending" /\ todo[r] # <<>>
  /\ IF phase[f] = "serving"
       THEN /\ chan' = [chan EXCEPT ![f] = Channel!Enqueue(@, r)]
            /\ parked' = [parked EXCEPT ![f] = Channel!ParkIfFull(chan[f], @, r)]
            /\ accepted' = [accepted EXCEPT ![f] = Append(@, r)]
            /\ pc' = [pc EXCEPT ![r] = "waiting"]
            /\ UNCHANGED todo
       ELSE /\ todo' = [todo EXCEPT ![r] = <<>>]
            /\ UNCHANGED <<chan, parked, accepted, pc>>
  /\ UNCHANGED <<subscription_list, finished, feedVars, streamVars, task_id,
                 subscribers, earlier>>

(* Send to the next subscriber; the error for one that is gone is dropped. *)
SendResultToNext(r) ==
  LET f == Head(todo[r]) IN
  /\ pc[r] = "sending" /\ todo[r] # <<>>
  /\ IF phase[f] = "serving"
       THEN /\ chan' = [chan EXCEPT ![f] = Channel!Enqueue(@, r)]
            /\ parked' = [parked EXCEPT ![f] = Channel!ParkIfFull(chan[f], @, r)]
            /\ accepted' = [accepted EXCEPT ![f] = Append(@, r)]
            /\ pc' = [pc EXCEPT ![r] = "waiting"]
            /\ UNCHANGED todo
       ELSE /\ todo' = [todo EXCEPT ![r] = Tail(@)]
            /\ UNCHANGED <<chan, parked, accepted, pc>>
  /\ UNCHANGED <<subscription_list, finished, feedVars, streamVars, task_id,
                 subscribers, earlier>>

(* The sender is not parked, or no longer: go on with the next subscriber. *)
SendResultWait(r) ==
  /\ pc[r] = "waiting"
  /\ ~ Channel!IsParked(parked[Head(todo[r])], r)
  /\ todo' = [todo EXCEPT ![r] = Tail(@)]
  /\ pc' = [pc EXCEPT ![r] = "sending"]
  /\ UNCHANGED <<subscription_list, finished, feedVars, channelVars, task_id,
                 subscribers, earlier>>

SendResultReply(r) ==
  /\ pc[r] = "sending" /\ todo[r] = <<>>
  /\ pc' = [pc EXCEPT ![r] = "replied"]
  /\ UNCHANGED <<subscription_list, finished, feedVars, channelVars, task_id,
                 subscribers, todo, earlier>>

TaskFinished(t) ==
  /\ ~ finished[t]
  /\ QueueIsFree(t)
  /\ disconnect_subscribers(t)
  /\ finished' = [finished EXCEPT ![t] = TRUE]
  /\ UNCHANGED <<feedVars, channelVars, reportVars>>

-----------------------------------------------------------------------------
Init ==
  /\ subscription_list = [t \in Tasks |-> <<>>]
  /\ finished = [t \in Tasks |-> FALSE]
  /\ phase = [f \in Feeds |-> "new"]
  /\ topic \in [Feeds -> Tasks]
  /\ cli = [f \in Feeds |-> TRUE]
  /\ chan = [f \in Feeds |-> <<>>]
  /\ parked = [f \in Feeds |-> <<>>]
  /\ sink = [f \in Feeds |-> <<>>]
  /\ completed = [f \in Feeds |-> TRUE]
  /\ pc = [r \in Reports |-> "idle"]
  /\ task_id \in [Reports -> Tasks]
  /\ subscribers = [r \in Reports |-> <<>>]
  /\ todo = [r \in Reports |-> <<>>]
  /\ accepted = [f \in Feeds |-> <<>>]
  /\ received = [f \in Feeds |-> <<>>]
  /\ earlier = [r \in Reports |-> {}]

FeedStep(f) ==
  \/ SubscribeResult(f)
  \/ Forward(f)
  \/ WriteReceived(f)
  \/ WriteCompletes(f)
  \/ StreamEnds(f)
  \/ StreamFails(f)
  \/ CliLeaves(f)

ReportStep(r) ==
  \/ SendResultLookup(r)
  \/ SendResultToNext(r)
  \/ SendResultWait(r)
  \/ SendResultReply(r)

(* Every call of the model is used up, and no stream has anything to write:  *)
(* a stream that was opened after the end of its task waits for ever.        *)
Quiescent ==
  /\ \A f \in Feeds : phase[f] # "new" /\ chan[f] = <<>> /\ Occupied(f) = 0
  /\ \A r \in Reports : pc[r] = "replied"
  /\ \A t \in Tasks : finished[t]
  /\ UNCHANGED vars

Next ==
  \/ \E f \in Feeds : FeedStep(f)
  \/ \E r \in Reports : ReportStep(r)
  \/ \E t \in Tasks : TaskFinished(t)
  \/ Quiescent

Spec == Init /\ [][Next]_vars

(***************************************************************************)
(* Fairness.  The tokio runtime polls the forwarders, the gRPC threads run *)
(* the handlers, and a cli that exists reads its stream (cli/mod.rs,       *)
(* wait().for_each).  A write to a cli that is gone fails at the latest    *)
(* when the transport stops accepting writes.  Nobody is bound to          *)
(* subscribe, to report, to finish or to leave.                            *)
(***************************************************************************)
Fairness ==
  /\ \A f \in Feeds :
       /\ WF_vars(Forward(f))
       /\ WF_vars(WriteReceived(f))
       /\ WF_vars(WriteCompletes(f))
       /\ WF_vars(StreamEnds(f))
  /\ \A r \in Reports :
       /\ WF_vars(SendResultToNext(r))
       /\ WF_vars(SendResultWait(r))
       /\ WF_vars(SendResultReply(r))

FairSpec == Spec /\ Fairness

-----------------------------------------------------------------------------
(* Every variable has its type, and a handler that waits waits for a feed. *)
TypeOK ==
  /\ subscription_list \in [Tasks -> Seq(Feeds)]
  /\ finished \in [Tasks -> BOOLEAN]
  /\ phase \in [Feeds -> {"new", "serving", "ended", "failed"}]
  /\ topic \in [Feeds -> Tasks]
  /\ cli \in [Feeds -> BOOLEAN]
  /\ chan \in [Feeds -> Seq(Reports)]
  /\ parked \in [Feeds -> Seq(Reports)]
  /\ sink \in [Feeds -> Seq(Reports)]
  /\ completed \in [Feeds -> BOOLEAN]
  /\ pc \in [Reports -> {"idle", "sending", "waiting", "replied"}]
  /\ task_id \in [Reports -> Tasks]
  /\ subscribers \in [Reports -> Seq(Feeds)]
  /\ todo \in [Reports -> Seq(Feeds)]
  /\ accepted \in [Feeds -> Seq(Reports)]
  /\ received \in [Feeds -> Seq(Reports)]
  /\ earlier \in [Reports -> SUBSET Reports]
  /\ \A r \in Reports : pc[r] = "waiting" => todo[r] # <<>>

-----------------------------------------------------------------------------
(***************************************************************************)
(* Safety.                                                                 *)
(***************************************************************************)

Positions(r, seq) == {k \in 1 .. Len(seq) : seq[k] = r}

(* A stream ends only when nothing can be put on it any more: everything     *)
(* accepted for it has been written, no handler that looked it up before the *)
(* end of the task is still on its way, and the task is finished.            *)
EndedFeedIsComplete ==
  \A f \in Feeds : phase[f] = "ended" =>
    /\ cli[f] => received[f] = accepted[f]
    /\ \A r \in Reports : Running(r) => ~ Holds(r, f)
    /\ finished[topic[f]]

(* A report that is acknowledged was put exactly once on the feed of every   *)
(* cli that was subscribed to its task when it came, and on no other; a      *)
(* subscriber that is gone costs the others nothing.                         *)
ReportReachesItsSubscribers ==
  \A r \in Reports, f \in Feeds :
    LET copies == Cardinality(Positions(r, accepted[f]))
    IN  /\ copies <= 1
        /\ copies = 1 => Holds(r, f) /\ task_id[r] = topic[f]
        /\ pc[r] = "replied" /\ Holds(r, f) /\ cli[f] => copies = 1

(* A client sends a report when the one before it has been acknowledged.     *)
(* Every cli then receives its reports in the order in which it sent them,   *)
(* although they pass through different handler threads.                     *)
ReportsKeepTheirOrder ==
  \A f \in Feeds, r \in Reports :
    \A q \in earlier[r] :
      \A j \in Positions(q, received[f]), k \in Positions(r, received[f]) : j < k

(* The handlers parked on a feed are those of the reports beyond its buffer, *)
(* in order, and they are reports on its own task: a slow cli delays nobody  *)
(* else, and what the server buffers for it is bounded.                      *)
OwnReportsWait ==
  \A f \in Feeds :
    /\ Len(parked[f]) = IF Len(chan[f]) > ResultBuffer
                          THEN Len(chan[f]) - ResultBuffer ELSE 0
    /\ \A k \in 1 .. Len(parked[f]) :
         /\ parked[f][k] = chan[f][ResultBuffer + k]
         /\ pc[parked[f][k]] = "waiting" /\ task_id[parked[f][k]] = topic[f]

(***************************************************************************)
(* Refinement: a feed delivers in order and completely.                    *)
(***************************************************************************)
feedStatus ==
  [f \in Feeds |-> IF ~ cli[f] THEN "broken"
                   ELSE IF phase[f] = "ended" THEN "complete" ELSE "open"]

Delivery == INSTANCE OrderedDelivery WITH
  Receivers <- Feeds, Messages <- Reports,
  delivered <- received, status <- feedStatus

(* The feeds implement ordered delivery. *)
FeedsDeliverInOrder == Delivery!Spec

-----------------------------------------------------------------------------
(***************************************************************************)
(* Liveness.                                                               *)
(***************************************************************************)

(* Every report is acknowledged: no cli, slow or gone, blocks a client for   *)
(* ever.                                                                     *)
EveryReportAnswered ==
  \A r \in Reports : pc[r] # "idle" ~> pc[r] = "replied"

(* When its task is finished the stream of a subscribed cli ends, and with   *)
(* it the cli.                                                               *)
FinishedFeedsEnd ==
  \A f \in Feeds : phase[f] = "serving" /\ ~ Listed(f) ~> phase[f] # "serving"
=============================================================================
