------------------------- MODULE MeasurementProofs -------------------------
(***************************************************************************)
(* Proofs about a measurement in time and about its messages.              *)
(*                                                                         *)
(* Measurement: its type invariant, that a cli which subscribes within the *)
(* wait is told of the end, and that a cli whose stream ends has printed   *)
(* every reply that was in time.                                           *)
(*                                                                         *)
(* MessageFlow: every message is read back from its bytes, so that pings   *)
(* and results are what was scheduled and what was replied, and fields of  *)
(* newer versions survive.  What PingPath assumes of payloads.             *)
(***************************************************************************)
EXTENDS Measurement, MessageFlow, PingPayloads, SequenceFacts, TLAPS

-----------------------------------------------------------------------------
(***************************************************************************)
(* The inductive invariants.                                               *)
(***************************************************************************)

(* The wait of a task has not begun before its thread waits, and a cli that  *)
(* has not called has no task.                                               *)
WaitIsAhead ==
  \A k \in Clis :
    /\ task[k] \in {"none", "queued", "pinging"} => remaining[k] = Wait
    /\ cli[k] = "idle" => task[k] = "none"

(* What has passed of the wait of a task has passed since its cli was to be  *)
(* told of its acceptance.                                                   *)
LagCoversWait ==
  \A k \in Clis :
    cli[k] \in {"calling", "accepted"} /\ task[k] = "waiting"
      => lag[k] + remaining[k] >= Wait

(* Only a cli that has subscribed is in the subscription list; it leaves the *)
(* list with the end of its task, and its stream ends after that.            *)
ListFollowsTask ==
  \A k \in Clis :
    /\ k \in listed => cli[k] \in {"subscribed", "cut", "gone"}
    /\ cli[k] \in {"subscribed", "ended"} /\ k \notin listed => task[k] = "finished"
    /\ cli[k] = "ended" => feed[k] = {}

(* A transmitter is late only once its sleep is over, and only a running     *)
(* client holds replies.                                                     *)
RoundsAreRegular ==
  \A c \in Clients :
    /\ timer[c] > 0 => late[c] = 0
    /\ inbox[c] # {} => alive[c]

(* An address is pinged once, and its reply arrives once. *)
RepliesComeOnce ==
  /\ flying \cap owed = {}
  /\ \A r \in flying \cup owed : r[2] \notin unpinged[r[1]]

(* The time until what client c holds is sent, if it is in its batch or in   *)
(* its inbox: the rest of the round, or with the next round.                 *)
BatchDue(c) == Delay - late[c]
InboxDue(c) == IF mode[c] = "asleep" THEN timer[c] + (Delay - late[c])
                                     ELSE (Delay - late[c]) + Round + Delay

(* A reply that is owed and still at a client is sent before its task ends.  *)
OwedIsInTime ==
  \A c \in Clients : \A r \in owed :
    /\ r \in inbox[c] \cup batch[c] => task[r[1]] # "finished"
    /\ r \in batch[c] /\ task[r[1]] = "waiting" => remaining[r[1]] > BatchDue(c)
    /\ r \in inbox[c] /\ task[r[1]] = "waiting" => remaining[r[1]] > InboxDue(c)

(* A reply that is owed to a cli that goes on is at a client, on its way to  *)
(* the cli, or printed.                                                      *)
Held(r) == \E c \in Clients : r \in inbox[c] \cup batch[c]
Sent(r) == \E message \in feed[r[1]] : r \in message
OwedIsSomewhere ==
  \A r \in owed :
    cli[r[1]] \notin {"refused", "panicked", "cut", "gone"}
      => Held(r) \/ Sent(r) \/ r \in printed[r[1]]

-----------------------------------------------------------------------------
(***************************************************************************)
(* Types.                                                                  *)
(***************************************************************************)
LEMMA TypeInit == Init => TypeOK
<1> SUFFICES ASSUME Init PROVE TypeOK
  OBVIOUS
<1> USE MeasurementAssumption DEF Init, CliStates, TaskStates, Underway
<1>1. remaining \in [Clis -> 0 .. Wait] /\ lag \in [Clis -> 0 .. Wait]
  OBVIOUS
<1>2. late \in [Clients -> 0 .. Delay]
  OBVIOUS
<1>3. QED
  BY <1>1, <1>2 DEF TypeOK

LEMMA TypeCliNext == ASSUME TypeOK, NEW k \in Clis, CliNext(k) PROVE TypeOK'
<1> USE MeasurementAssumption DEF TypeOK, TaskStates, CliStates, Underway,
                                  taskVars, cliVars, clientVars, serverVars
<1>1. CASE CallDoTask(k)
  BY <1>1 DEF CallDoTask
<1>2. CASE AcceptTask(k)
  BY <1>2 DEF AcceptTask
<1>3. CASE Acknowledged(k)
  BY <1>3 DEF Acknowledged
<1>4. CASE Refused(k)
  BY <1>4 DEF Refused
<1>5. CASE DoTaskFails(k)
  BY <1>5 DEF DoTaskFails
<1>6. CASE Subscribe(k)
  BY <1>6 DEF Subscribe
<1>7. CASE PrintResults(k)
  BY <1>7 DEF PrintResults
<1>8. CASE End(k)
  BY <1>8 DEF End
<1>9. CASE StreamFails(k)
  BY <1>9 DEF StreamFails
<1>10. CASE CliKilled(k)
  BY <1>10 DEF CliKilled
<1>11. QED
  BY <1>1, <1>2, <1>3, <1>4, <1>5, <1>6, <1>7, <1>8, <1>9, <1>10 DEF CliNext

LEMMA TypePingNext == ASSUME TypeOK, NEW k \in Clis, PingNext(k) PROVE TypeOK'
<1> USE DEF TypeOK, TaskStates, Underway, taskVars, cliVars, clientVars, serverVars
<1>1. CASE StartPing(k)
  BY <1>1 DEF StartPing
<1>2. CASE PingPanics(k)
  BY <1>2 DEF PingPanics
<1>3. CASE StartWait(k)
  BY <1>3 DEF StartWait
<1>4. CASE TaskFinished(k)
  BY <1>4 DEF TaskFinished
<1>5. CASE TaskFinishedFails(k)
  BY <1>5 DEF TaskFinishedFails
<1>6. ASSUME NEW a \in Targets, PingTarget(k, a) PROVE TypeOK'
  BY <1>6 DEF PingTarget, Replies
<1>7. QED
  BY <1>1, <1>2, <1>3, <1>4, <1>5, <1>6 DEF PingNext

LEMMA TypeClientNext == ASSUME TypeOK, NEW c \in Clients, ClientNext(c) PROVE TypeOK'
<1> USE MeasurementAssumption DEF TypeOK, taskVars, cliVars, clientVars, serverVars
<1>1. ASSUME NEW r \in flying, ReplyArrives(c, r) PROVE TypeOK'
  BY <1>1 DEF ReplyArrives
<1>2. CASE BeginRound(c)
  BY <1>2 DEF BeginRound
<1>3. CASE EndRound(c)
  BY <1>3 DEF EndRound
<1>4. CASE ClientKilled(c)
  BY <1>4 DEF ClientKilled, TaskStates
<1>5. ASSUME NEW k \in Clis, SendResult(c, k) PROVE TypeOK'
  BY <1>5 DEF SendResult, OfTask
<1>6. ASSUME NEW k \in Clis, SendResultFails(c, k) PROVE TypeOK'
  BY <1>6 DEF SendResultFails, OfTask
<1>7. QED
  BY <1>1, <1>2, <1>3, <1>4, <1>5, <1>6 DEF ClientNext

LEMMA LessFacts ==
  \A n \in Nat : Less(n) \in Nat /\ Less(n) <= n /\ (n > 0 => Less(n) = n - 1)
BY DEF Less

LEMMA TypeTick == TypeOK /\ Tick => TypeOK'
<1> SUFFICES ASSUME TypeOK, Tick PROVE TypeOK'
  OBVIOUS
<1> USE MeasurementAssumption DEF TypeOK, Tick, serverVars
<1>1. timer' \in [Clients -> 0 .. Round]
  BY LessFacts
<1>2. late' \in [Clients -> 0 .. Delay]
  OBVIOUS
<1>3. remaining' \in [Clis -> 0 .. Wait]
  BY LessFacts
<1>4. lag' \in [Clis -> 0 .. Wait]
  OBVIOUS
<1>5. \A c \in Clients : mode'[c] = "sending" => alive'[c] /\ timer'[c] = 0
  BY DEF Less
<1>6. QED
  BY <1>1, <1>2, <1>3, <1>4, <1>5

LEMMA TypeNext == TypeOK /\ [Next]_vars => TypeOK'
<1>1. TypeOK /\ UNCHANGED vars => TypeOK'
  BY DEF TypeOK, vars, taskVars, cliVars, clientVars, serverVars
<1>2. QED
  BY <1>1, TypeCliNext, TypePingNext, TypeClientNext, TypeTick DEF Next

(* Every variable of a measurement keeps its type; a transmitter sends       *)
(* nothing in its sleep, and is never more than Delay late.                  *)
THEOREM TypeCorrect == Spec => []TypeOK
BY TypeInit, TypeNext, PTL DEF Spec

-----------------------------------------------------------------------------
(***************************************************************************)
(* A cli that subscribes within the wait is not too late.                  *)
(***************************************************************************)
LagInv == WaitIsAhead /\ LagCoversWait /\ PromptCliIsNotTooLate

LEMMA LagInit == Init => LagInv
BY DEF Init, LagInv, WaitIsAhead, LagCoversWait, PromptCliIsNotTooLate

(* The steps of the clients change neither the cli programs nor the waits. *)
LEMMA ClientFrame ==
  ASSUME NEW c \in Clients, ClientNext(c)
  PROVE  /\ UNCHANGED <<cli, lag, printed, unpinged, remaining, poisoned, listed>>
         /\ \A k \in Clis : \/ task'[k] = task[k]
                            \/ task[k] \in Underway /\ task'[k] = "lost"
BY DEF ClientNext, ReplyArrives, BeginRound, EndRound, ClientKilled, SendResult,
       SendResultFails, cliVars, taskVars, serverVars

LEMMA LagNext == TypeOK /\ LagInv /\ [Next]_vars => LagInv'
<1> SUFFICES ASSUME TypeOK, LagInv, [Next]_vars PROVE LagInv'
  OBVIOUS
<1> USE MeasurementAssumption DEF LagInv, WaitIsAhead, LagCoversWait, PromptCliIsNotTooLate, TypeOK
<1>1. ASSUME NEW k \in Clis, CliNext(k) PROVE LagInv'
  <2> USE DEF taskVars
  <2>1. CASE CallDoTask(k)
    BY <2>1 DEF CallDoTask
  <2>2. CASE AcceptTask(k)
    BY <2>2 DEF AcceptTask, cliVars
  <2>3. CASE Acknowledged(k)
    BY <2>3 DEF Acknowledged
  <2>4. CASE Refused(k)
    BY <2>4 DEF Refused
  <2>5. CASE DoTaskFails(k)
    BY <2>5 DEF DoTaskFails
  <2>6. CASE Subscribe(k)
    BY <2>6 DEF Subscribe
  <2>7. CASE PrintResults(k)
    BY <2>7 DEF PrintResults
  <2>8. CASE End(k)
    BY <2>8 DEF End
  <2>9. CASE StreamFails(k)
    BY <2>9 DEF StreamFails
  <2>10. CASE CliKilled(k)
    BY <2>10 DEF CliKilled
  <2>11. QED
    BY <1>1, <2>1, <2>2, <2>3, <2>4, <2>5, <2>6, <2>7, <2>8, <2>9, <2>10 DEF CliNext
<1>2. ASSUME NEW k \in Clis, PingNext(k) PROVE LagInv'
  <2> USE DEF cliVars
  <2>1. CASE StartPing(k)
    BY <2>1 DEF StartPing
  <2>2. CASE PingPanics(k)
    BY <2>2 DEF PingPanics
  <2>3. CASE StartWait(k)
    BY <2>3 DEF StartWait
  <2>4. CASE TaskFinished(k)
    BY <2>4 DEF TaskFinished
  <2>5. CASE TaskFinishedFails(k)
    BY <2>5 DEF TaskFinishedFails
  <2>6. ASSUME NEW a \in Targets, PingTarget(k, a) PROVE LagInv'
    BY <2>6 DEF PingTarget
  <2>7. QED
    BY <1>2, <2>1, <2>2, <2>3, <2>4, <2>5, <2>6 DEF PingNext
<1>3. ASSUME NEW c \in Clients, ClientNext(c) PROVE LagInv'
  BY <1>3, ClientFrame DEF Underway
<1>4. CASE Tick
  <2>1. WaitIsAhead'
    BY <1>4 DEF Tick
  <2>2. ASSUME NEW k \in Clis, cli[k] \in {"calling", "accepted"}, task[k] = "waiting"
        PROVE  lag'[k] + remaining'[k] >= Wait
    BY <1>4, <2>2, LessFacts DEF Tick
  <2>3. PromptCliIsNotTooLate'
    BY <1>4 DEF Tick
  <2>4. QED
    BY <1>4, <2>1, <2>2, <2>3 DEF Tick
<1>5. CASE UNCHANGED vars
  BY <1>5 DEF vars, cliVars, taskVars
<1>6. QED
  BY <1>1, <1>2, <1>3, <1>4, <1>5 DEF Next

(* A cli that subscribes within the ten seconds that a ping thread waits     *)
(* before it reports the end of its task, however long pinging has taken, is *)
(* in the subscription list when the report comes.                           *)
THEOREM SubscribersAreInTime == Spec => []PromptCliIsNotTooLate
<1>1. Init => TypeOK /\ LagInv
  BY TypeInit, LagInit
<1>2. TypeOK /\ LagInv /\ [Next]_vars => (TypeOK /\ LagInv)'
  BY TypeNext, LagNext
<1>3. LagInv => PromptCliIsNotTooLate
  BY DEF LagInv
<1>4. QED
  BY <1>1, <1>2, <1>3, PTL DEF Spec

-----------------------------------------------------------------------------
(***************************************************************************)
(* The subscription list.                                                  *)
(***************************************************************************)
LEMMA ListInit == Init => ListFollowsTask
BY DEF Init, ListFollowsTask

LEMMA ListNext == TypeOK /\ WaitIsAhead /\ ListFollowsTask /\ [Next]_vars => ListFollowsTask'
<1> SUFFICES ASSUME TypeOK, WaitIsAhead, ListFollowsTask, [Next]_vars PROVE ListFollowsTask'
  OBVIOUS
<1> USE DEF TypeOK, ListFollowsTask
<1>1. ASSUME NEW k \in Clis, CliNext(k) PROVE ListFollowsTask'
  <2> USE DEF taskVars, serverVars
  <2>1. CASE CallDoTask(k)
    BY <2>1 DEF CallDoTask
  <2>2. CASE AcceptTask(k)
    BY <2>2 DEF AcceptTask, cliVars
  <2>3. CASE Acknowledged(k)
    BY <2>3 DEF Acknowledged
  <2>4. CASE Refused(k)
    BY <2>4 DEF Refused
  <2>5. CASE DoTaskFails(k)
    BY <2>5 DEF DoTaskFails
  <2>6. CASE Subscribe(k)
    BY <2>6 DEF Subscribe
  <2>7. CASE PrintResults(k)
    BY <2>7 DEF PrintResults
  <2>8. CASE End(k)
    BY <2>8 DEF End
  <2>9. CASE StreamFails(k)
    BY <2>9 DEF StreamFails
  <2>10. CASE CliKilled(k)
    BY <2>10 DEF CliKilled
  <2>11. QED
    BY <1>1, <2>1, <2>2, <2>3, <2>4, <2>5, <2>6, <2>7, <2>8, <2>9, <2>10 DEF CliNext
<1>2. ASSUME NEW k \in Clis, PingNext(k) PROVE ListFollowsTask'
  <2>1. CASE TaskFinished(k)
    BY <2>1 DEF TaskFinished, cliVars
  <2>2. CASE ~ TaskFinished(k)
    <3>1. UNCHANGED <<cliVars, serverVars>>
      BY <1>2, <2>2 DEF PingNext, StartPing, PingPanics, StartWait, TaskFinishedFails, PingTarget
    <3>2. task[k] # "finished" /\ \A j \in Clis \ {k} : task'[j] = task[j]
      BY <1>2, <2>2 DEF PingNext, StartPing, PingPanics, StartWait, TaskFinishedFails, PingTarget
    <3>3. QED
      BY <3>1, <3>2 DEF cliVars, serverVars
  <2>3. QED
    BY <2>1, <2>2
<1>3. ASSUME NEW c \in Clients, ClientNext(c) PROVE ListFollowsTask'
  <2>1. \A k \in Clis : task[k] = "finished" => task'[k] = "finished"
    BY <1>3, ClientFrame DEF Underway
  <2>2. \A k \in Clis : cli[k] # "subscribed" => feed'[k] = feed[k]
    BY <1>3 DEF ClientNext, ReplyArrives, BeginRound, EndRound, ClientKilled, SendResult,
                SendResultFails, serverVars
  <2>3. QED
    BY <1>3, <2>1, <2>2, ClientFrame
<1>4. CASE Tick \/ UNCHANGED vars
  BY <1>4 DEF Tick, vars, cliVars, taskVars, serverVars
<1>5. QED
  BY <1>1, <1>2, <1>3, <1>4 DEF Next

-----------------------------------------------------------------------------
(***************************************************************************)
(* What is owed is in time.                                                *)
(***************************************************************************)
LEMMA RoundsInit == Init => RoundsAreRegular
BY DEF Init, RoundsAreRegular

(* The steps of the cli programs and of the ping threads leave the           *)
(* transmitters alone, and each moves one task.                              *)
LEMMA CliFrame ==
  ASSUME TypeOK, NEW k \in Clis, CliNext(k)
  PROVE  /\ UNCHANGED <<unpinged, remaining, clientVars, flying, owed>>
         /\ \A j \in Clis : task'[j] = task[j] \/ task'[j] \in {"queued", "lost"}
         /\ \A j \in Clis : task[j] = "finished" => task'[j] = "finished"
BY DEF TypeOK, CliNext, CallDoTask, AcceptTask, Acknowledged, Refused, DoTaskFails,
       Subscribe, PrintResults, End, StreamFails, CliKilled, taskVars

LEMMA PingFrame ==
  ASSUME TypeOK, NEW k \in Clis, PingNext(k)
  PROVE  /\ UNCHANGED <<cliVars, remaining, clientVars, feed, owed>>
         /\ \A j \in Clis : task'[j] = "waiting" => task[j] \in {"pinging", "waiting"}
         /\ \A j \in Clis : task'[j] = "finished" =>
              task[j] = "finished" \/ (task[j] = "waiting" /\ remaining[j] = 0)
         /\ \A j \in Clis : task[j] = "finished" => task'[j] = "finished"
<1>1. UNCHANGED <<cliVars, remaining, clientVars, feed, owed>>
  BY DEF PingNext, StartPing, PingPanics, StartWait, TaskFinished, TaskFinishedFails,
         PingTarget, serverVars
<1>2. /\ \A j \in Clis \ {k} : task'[j] = task[j]
      /\ \/ task'[k] = task[k] /\ task[k] = "pinging"
         \/ task[k] = "queued" /\ task'[k] \in {"pinging", "failed"}
         \/ task[k] = "pinging" /\ task'[k] = "waiting"
         \/ task[k] = "waiting" /\ remaining[k] = 0 /\ task'[k] \in {"finished", "failed"}
  <2>1. task \in [Clis -> TaskStates]
    BY DEF TypeOK
  <2>2. QED
    BY <2>1 DEF PingNext, StartPing, PingPanics, StartWait, TaskFinished,
                TaskFinishedFails, PingTarget
<1>3. QED
  BY <1>1, <1>2

LEMMA RoundsNext == TypeOK /\ RoundsAreRegular /\ [Next]_vars => RoundsAreRegular'
<1> SUFFICES ASSUME TypeOK, RoundsAreRegular, [Next]_vars PROVE RoundsAreRegular'
  OBVIOUS
<1> USE MeasurementAssumption DEF TypeOK, RoundsAreRegular, clientVars
<1>1. ASSUME NEW c \in Clients, ClientNext(c) PROVE RoundsAreRegular'
  <2>1. ASSUME NEW r \in flying, ReplyArrives(c, r) PROVE RoundsAreRegular'
    BY <2>1 DEF ReplyArrives
  <2>2. CASE BeginRound(c)
    BY <2>2 DEF BeginRound
  <2>3. CASE EndRound(c)
    BY <2>3 DEF EndRound
  <2>4. CASE ClientKilled(c)
    BY <2>4 DEF ClientKilled
  <2>5. ASSUME NEW k \in Clis, SendResult(c, k) \/ SendResultFails(c, k)
        PROVE  RoundsAreRegular'
    BY <2>5 DEF SendResult, SendResultFails
  <2>6. QED
    BY <1>1, <2>1, <2>2, <2>3, <2>4, <2>5 DEF ClientNext
<1>2. CASE Tick
  BY <1>2, LessFacts DEF Tick
<1>3. CASE UNCHANGED clientVars
  BY <1>3
<1>4. QED
  BY <1>1, <1>2, <1>3, CliFrame, PingFrame DEF Next, vars

LEMMA OnceInit == Init => RepliesComeOnce
BY DEF Init, RepliesComeOnce

LEMMA OnceNext == TypeOK /\ RepliesComeOnce /\ [Next]_vars => RepliesComeOnce'
<1> SUFFICES ASSUME TypeOK, RepliesComeOnce, [Next]_vars PROVE RepliesComeOnce'
  OBVIOUS
<1> USE DEF TypeOK, RepliesComeOnce
<1>1. ASSUME NEW k \in Clis, NEW a \in Targets, PingTarget(k, a) PROVE RepliesComeOnce'
  BY <1>1 DEF PingTarget, Replies
<1>2. ASSUME NEW c \in Clients, NEW r \in flying, ReplyArrives(c, r) PROVE RepliesComeOnce'
  BY <1>2 DEF ReplyArrives, taskVars
<1>3. ASSUME UNCHANGED <<flying, unpinged>>, owed' \subseteq owed PROVE RepliesComeOnce'
  BY <1>3
<1>4. ASSUME NEW k \in Clis, CliNext(k) PROVE RepliesComeOnce'
  BY <1>3, <1>4, CliFrame
<1>5. ASSUME NEW k \in Clis, PingNext(k) PROVE RepliesComeOnce'
  BY <1>1, <1>3, <1>5 DEF PingNext, StartPing, PingPanics, StartWait, TaskFinished,
                          TaskFinishedFails
<1>6. ASSUME NEW c \in Clients, ClientNext(c) PROVE RepliesComeOnce'
  BY <1>2, <1>3, <1>6 DEF ClientNext, BeginRound, EndRound, ClientKilled, SendResult,
                          SendResultFails, taskVars
<1>7. QED
  BY <1>3, <1>4, <1>5, <1>6 DEF Next, Tick, vars, taskVars

LEMMA OwedInit == Init => OwedIsInTime /\ OwedIsSomewhere
BY DEF Init, OwedIsInTime, OwedIsSomewhere

(* What is due before the end of the wait is due before it is over. *)
LEMMA DueFacts ==
  ASSUME TypeOK, NEW c \in Clients
  PROVE  /\ BatchDue(c) \in Nat /\ InboxDue(c) \in Nat
         /\ InboxDue(c) <= Round + 2 * Delay
BY MeasurementAssumption DEF TypeOK, BatchDue, InboxDue

LEMMA OwedReplies ==
  ASSUME TypeOK, NEW r \in Replies PROVE r[1] \in Clis /\ remaining[r[1]] \in Nat
BY MeasurementAssumption DEF TypeOK, Replies

LEMMA InTimeClients ==
  ASSUME TypeOK, RoundsAreRegular, RepliesComeOnce, OwedIsInTime,
         NEW c \in Clients, ClientNext(c)
  PROVE  OwedIsInTime'
<1> USE MeasurementAssumption DEF OwedIsInTime
<1>0. \A r \in owed : r \in Replies /\ r[1] \in Clis
  BY OwedReplies DEF TypeOK
<1>1. ASSUME NEW r \in flying, ReplyArrives(c, r) PROVE OwedIsInTime'
  <2>1. UNCHANGED <<task, remaining, batch, mode, timer, late>>
    BY <1>1 DEF ReplyArrives, taskVars
  <2>2. \A d \in Clients : BatchDue(d)' = BatchDue(d) /\ InboxDue(d)' = InboxDue(d)
    BY <2>1 DEF BatchDue, InboxDue
  <2>3. /\ inbox' = [inbox EXCEPT ![c] = @ \cup {r}]
        /\ owed' = IF OnTime(r[1]) THEN owed \cup {r} ELSE owed
    BY <1>1 DEF ReplyArrives
  <2>4. ASSUME NEW s \in owed', NEW d \in Clients, s \in inbox'[d] \cup batch[d]
        PROVE  \/ s \in owed /\ s \in inbox[d] \cup batch[d] /\ (inbox'[d] = inbox[d] \/ s # r)
               \/ s = r /\ OnTime(s[1])
    BY <2>3, <2>4 DEF TypeOK, RepliesComeOnce
  <2>5. ASSUME NEW d \in Clients, OnTime(r[1])
        PROVE  /\ task[r[1]] # "finished"
               /\ task[r[1]] = "waiting" => /\ remaining[r[1]] > BatchDue(d)
                                            /\ remaining[r[1]] > InboxDue(d)
    <3>1. remaining[r[1]] \in Nat /\ BatchDue(d) <= Delay
      BY OwedReplies DEF TypeOK, BatchDue
    <3>2. QED
      BY <2>5, <3>1, DueFacts DEF OnTime
  <2>6. \A d \in Clients, s \in owed : s # r => (s \in inbox'[d] <=> s \in inbox[d])
    BY <2>3 DEF TypeOK
  <2>7. QED
    BY <2>1, <2>2, <2>4, <2>5, <2>6
<1>2. CASE BeginRound(c)
  BY <1>2, <1>0 DEF BeginRound, TypeOK, BatchDue, InboxDue, taskVars
<1>3. CASE EndRound(c)
  BY <1>3, <1>0, OwedReplies DEF EndRound, TypeOK, BatchDue, InboxDue, taskVars
<1>4. CASE ClientKilled(c)
  BY <1>4, <1>0, OwedReplies DEF ClientKilled, TypeOK, BatchDue, InboxDue, Underway
<1>5. ASSUME NEW k \in Clis, SendResult(c, k) \/ SendResultFails(c, k)
      PROVE  OwedIsInTime'
  <2>1. UNCHANGED <<task, remaining, inbox, mode, timer, late>>
    BY <1>5 DEF SendResult, SendResultFails, taskVars
  <2>2. \A d \in Clients : BatchDue(d)' = BatchDue(d) /\ InboxDue(d)' = InboxDue(d)
    BY <2>1 DEF BatchDue, InboxDue
  <2>3. owed' \subseteq owed /\ \A d \in Clients : batch'[d] \subseteq batch[d]
    BY <1>5 DEF SendResult, SendResultFails, TypeOK
  <2>4. QED
    BY <2>1, <2>2, <2>3
<1>6. QED
  BY <1>1, <1>2, <1>3, <1>4, <1>5 DEF ClientNext

LEMMA InTimeNext ==
  TypeOK /\ WaitIsAhead /\ RoundsAreRegular /\ RepliesComeOnce /\ OwedIsInTime /\ [Next]_vars
    => OwedIsInTime'
<1> SUFFICES ASSUME TypeOK, WaitIsAhead, RoundsAreRegular, RepliesComeOnce, OwedIsInTime,
                    [Next]_vars
             PROVE  OwedIsInTime'
  OBVIOUS
<1> USE MeasurementAssumption DEF OwedIsInTime
<1>0. \A r \in owed : r \in Replies /\ r[1] \in Clis
  BY OwedReplies DEF TypeOK
<1>1. ASSUME NEW k \in Clis, CliNext(k) PROVE OwedIsInTime'
  BY <1>0, <1>1, CliFrame DEF BatchDue, InboxDue, clientVars
<1>2. ASSUME NEW k \in Clis, PingNext(k) PROVE OwedIsInTime'
  <2>1. UNCHANGED <<remaining, inbox, batch, mode, timer, late, owed>>
    BY <1>2, PingFrame DEF clientVars
  <2>2. \A d \in Clients : BatchDue(d)' = BatchDue(d) /\ InboxDue(d)' = InboxDue(d)
    BY <2>1 DEF BatchDue, InboxDue
  <2>3. ASSUME NEW d \in Clients, NEW r \in owed, r \in inbox[d] \cup batch[d]
        PROVE  task'[r[1]] # "finished"
    BY <1>0, <1>2, <2>3, PingFrame, DueFacts
  <2>4. ASSUME NEW d \in Clients, NEW r \in owed, task'[r[1]] = "waiting"
        PROVE  /\ r \in batch[d] => remaining[r[1]] > BatchDue(d)
               /\ r \in inbox[d] => remaining[r[1]] > InboxDue(d)
    <3>1. CASE task[r[1]] = "waiting"
      BY <3>1
    <3>2. CASE task[r[1]] = "pinging"
      <4>1. remaining[r[1]] = Wait
        BY <1>0, <3>2 DEF WaitIsAhead
      <4>2. BatchDue(d) <= Delay
        BY DEF TypeOK, BatchDue
      <4>3. QED
        BY <4>1, <4>2, DueFacts
    <3>3. QED
      BY <1>0, <1>2, <2>4, <3>1, <3>2, PingFrame
  <2>5. QED
    BY <2>1, <2>2, <2>3, <2>4
<1>3. ASSUME NEW c \in Clients, ClientNext(c) PROVE OwedIsInTime'
  BY <1>3, InTimeClients
<1>4. CASE Tick
  <2>1. UNCHANGED <<task, inbox, batch, mode, alive, owed>>
    BY <1>4 DEF Tick
  <2>2. ASSUME NEW d \in Clients, NEW r \in owed, r \in batch[d], task[r[1]] = "waiting"
        PROVE  remaining'[r[1]] > BatchDue(d)'
    <3>1. mode[d] = "sending" /\ alive[d] /\ timer[d] = 0
      BY <2>2 DEF TypeOK
    <3>2. QED
      BY <1>0, <1>4, <2>2, <3>1, OwedReplies, LessFacts DEF Tick, TypeOK, BatchDue
  <2>3. ASSUME NEW d \in Clients, NEW r \in owed, r \in inbox[d], task[r[1]] = "waiting"
        PROVE  remaining'[r[1]] > InboxDue(d)'
    <3>1. alive[d] /\ remaining[r[1]] > InboxDue(d)
      BY <2>3 DEF RoundsAreRegular
    <3>2. remaining'[r[1]] = remaining[r[1]] - 1
      BY <1>0, <1>4, <2>3, <3>1, OwedReplies, DueFacts, LessFacts DEF Tick
    <3>3. InboxDue(d)' = InboxDue(d) - 1
      BY <1>4, <3>1, LessFacts DEF Tick, TypeOK, InboxDue
    <3>4. QED
      BY <1>0, <3>1, <3>2, <3>3, OwedReplies, DueFacts
  <2>4. QED
    BY <2>1, <2>2, <2>3
<1>5. CASE UNCHANGED vars
  BY <1>5 DEF vars, taskVars, clientVars, BatchDue, InboxDue
<1>6. QED
  BY <1>1, <1>2, <1>3, <1>4, <1>5 DEF Next

-----------------------------------------------------------------------------
(***************************************************************************)
(* What is owed is printed.                                                *)
(***************************************************************************)

(* A cli that goes on. *)
GoesOn(k) == cli[k] \notin {"refused", "panicked", "cut", "gone"}

LEMMA SomewhereCli ==
  ASSUME TypeOK, OwedIsSomewhere, NEW k \in Clis, CliNext(k)
  PROVE  OwedIsSomewhere'
<1> USE DEF OwedIsSomewhere
<1>1. UNCHANGED <<inbox, batch, owed>>
  BY CliFrame DEF clientVars
<1>2. \A r : Held(r)' = Held(r)
  BY <1>1 DEF Held
<1>3. \A r \in owed : r[1] \in Clis
  BY OwedReplies DEF TypeOK
<1>4. CASE PrintResults(k)
  <2>1. PICK message \in feed[k] :
          /\ feed' = [feed EXCEPT ![k] = @ \ {message}]
          /\ printed' = [printed EXCEPT ![k] = @ \cup message]
    BY <1>4 DEF PrintResults
  <2>2. UNCHANGED cli
    BY <1>4 DEF PrintResults
  <2>3. ASSUME NEW r \in owed, Sent(r)
        PROVE  Sent(r)' \/ r \in printed'[r[1]]
    <3>1. PICK other \in feed[r[1]] : r \in other
      BY <2>3 DEF Sent
    <3>2. CASE r[1] = k /\ other = message
      BY <2>1, <3>1, <3>2 DEF TypeOK
    <3>3. CASE r[1] # k \/ other # message
      <4>1. other \in feed'[r[1]]
        BY <1>3, <2>1, <3>1, <3>3 DEF TypeOK
      <4>2. QED
        BY <3>1, <4>1 DEF Sent
    <3>4. QED
      BY <3>2, <3>3
  <2>4. \A r \in owed : r \in printed[r[1]] => r \in printed'[r[1]]
    BY <1>3, <2>1 DEF TypeOK
  <2>5. QED
    BY <1>1, <1>2, <2>2, <2>3, <2>4
<1>5. CASE ~ PrintResults(k)
  <2>1. UNCHANGED printed
    BY <1>5 DEF CliNext, CallDoTask, AcceptTask, Acknowledged, Refused, DoTaskFails,
                Subscribe, End, StreamFails, CliKilled, cliVars
  <2>2. \A j \in Clis : GoesOn(j)' => GoesOn(j) /\ feed'[j] = feed[j]
    BY <1>5 DEF CliNext, CallDoTask, AcceptTask, Acknowledged, Refused, DoTaskFails,
                Subscribe, End, StreamFails, CliKilled, cliVars, serverVars, GoesOn, TypeOK
  <2>3. \A r \in owed : GoesOn(r[1])' => GoesOn(r[1]) /\ (Sent(r) => Sent(r)')
    BY <1>3, <2>2 DEF Sent
  <2>4. QED
    BY <1>1, <1>2, <2>1, <2>3 DEF GoesOn
<1>6. QED
  BY <1>4, <1>5

LEMMA SomewhereClient ==
  ASSUME TypeOK, ListFollowsTask, OwedIsInTime, OwedIsSomewhere,
         NEW c \in Clients, ClientNext(c)
  PROVE  OwedIsSomewhere'
<1> USE DEF OwedIsSomewhere
<1>0. UNCHANGED <<cli, printed>>
  BY ClientFrame
<1>1. ASSUME NEW r \in flying, ReplyArrives(c, r) PROVE OwedIsSomewhere'
  <2>1. /\ inbox' = [inbox EXCEPT ![c] = @ \cup {r}]
        /\ owed' \subseteq owed \cup {r}
        /\ UNCHANGED <<batch, feed>>
    BY <1>1 DEF ReplyArrives, serverVars
  <2>2. Held(r)' /\ \A s : Held(s) => Held(s)'
    BY <2>1 DEF Held, TypeOK
  <2>3. \A s : Sent(s) => Sent(s)'
    BY <2>1 DEF Sent
  <2>4. QED
    BY <1>0, <2>1, <2>2, <2>3
<1>2. CASE BeginRound(c)
  <2>1. \A s : Held(s) => Held(s)'
    BY <1>2 DEF BeginRound, Held, TypeOK
  <2>2. UNCHANGED <<feed, owed>>
    BY <1>2 DEF BeginRound, serverVars
  <2>3. QED
    BY <1>0, <2>1, <2>2 DEF Sent
<1>3. CASE EndRound(c)
  BY <1>0, <1>3 DEF EndRound, Held, Sent, serverVars
<1>4. CASE ClientKilled(c)
  <2>1. /\ inbox' = [inbox EXCEPT ![c] = {}] /\ batch' = [batch EXCEPT ![c] = {}]
        /\ owed' = owed \ (inbox[c] \cup batch[c]) /\ UNCHANGED feed
    BY <1>4 DEF ClientKilled, serverVars
  <2>2. \A s \in owed' : Held(s) => Held(s)'
    BY <2>1 DEF Held, TypeOK
  <2>3. QED
    BY <1>0, <2>1, <2>2 DEF Sent
<1>5. ASSUME NEW k \in Clis, SendResultFails(c, k) PROVE OwedIsSomewhere'
  <2>1. /\ batch' = [batch EXCEPT ![c] = @ \ OfTask(k, batch[c])]
        /\ owed' = owed \ OfTask(k, batch[c]) /\ UNCHANGED <<inbox, feed>>
    BY <1>5 DEF SendResultFails, serverVars
  <2>2. \A s \in owed' : Held(s) => Held(s)'
    BY <2>1 DEF Held, TypeOK
  <2>3. QED
    BY <1>0, <2>1, <2>2 DEF Sent
<1>6. ASSUME NEW k \in Clis, SendResult(c, k) PROVE OwedIsSomewhere'
  <2> DEFINE message == OfTask(k, batch[c])
  <2>1. /\ batch' = [batch EXCEPT ![c] = @ \ message] /\ UNCHANGED inbox
        /\ feed' = IF k \in listed /\ cli[k] = "subscribed"
                   THEN [feed EXCEPT ![k] = @ \cup {message}] ELSE feed
        /\ owed' = IF k \in listed \/ task[k] = "finished" THEN owed ELSE owed \ message
    BY <1>6 DEF SendResult
  <2>2. \A s : s \in message <=> s \in batch[c] /\ s[1] = k
    BY DEF OfTask
  <2> HIDE DEF message
  <2>3. \A s : s \notin message => (Held(s) => Held(s)')
    BY <2>1 DEF Held, TypeOK
  <2>4. \A s : Sent(s) => Sent(s)'
    <3>1. \A j : feed[j] \subseteq feed'[j]
      BY <2>1 DEF TypeOK
    <3>2. QED
      BY <3>1 DEF Sent
  <2>5. ASSUME NEW s \in owed', s \in message, GoesOn(s[1]) PROVE Sent(s)'
    <3>1. s \in batch[c] /\ s[1] = k /\ s \in owed
      BY <2>1, <2>2, <2>5
    <3>2. task[k] # "finished"
      BY <3>1 DEF OwedIsInTime
    <3>3. k \in listed
      BY <2>1, <2>5, <3>2
    <3>4. cli[k] = "subscribed"
      BY <2>5, <3>1, <3>3 DEF ListFollowsTask, GoesOn
    <3>5. message \in feed'[k]
      BY <2>1, <3>3, <3>4 DEF TypeOK
    <3>6. QED
      BY <2>5, <3>1, <3>5 DEF Sent
  <2>6. owed' \subseteq owed
    BY <2>1
  <2>7. QED
    BY <1>0, <2>3, <2>4, <2>5, <2>6 DEF GoesOn
<1>7. QED
  BY <1>1, <1>2, <1>3, <1>4, <1>5, <1>6 DEF ClientNext

LEMMA SomewhereNext ==
  TypeOK /\ ListFollowsTask /\ OwedIsInTime /\ OwedIsSomewhere /\ [Next]_vars
    => OwedIsSomewhere'
<1> SUFFICES ASSUME TypeOK, ListFollowsTask, OwedIsInTime, OwedIsSomewhere, [Next]_vars
             PROVE  OwedIsSomewhere'
  OBVIOUS
<1>1. ASSUME NEW k \in Clis, PingNext(k) PROVE OwedIsSomewhere'
  BY <1>1, PingFrame DEF OwedIsSomewhere, Held, Sent, cliVars, clientVars
<1>2. CASE Tick \/ UNCHANGED vars
  BY <1>2 DEF Tick, vars, cliVars, clientVars, serverVars, OwedIsSomewhere, Held, Sent
<1>3. QED
  BY <1>1, <1>2, SomewhereCli, SomewhereClient DEF Next

IInv ==
  TypeOK /\ LagInv /\ ListFollowsTask /\ RoundsAreRegular /\ RepliesComeOnce
  /\ OwedIsInTime /\ OwedIsSomewhere

(* Once its task is finished nothing that is owed is at a client, and once   *)
(* its stream has ended nothing is on its way: all is printed.               *)
LEMMA NothingIsLeft == IInv => EndedMeansComplete
<1> SUFFICES ASSUME IInv, NEW k \in Clis, cli[k] = "ended"
             PROVE  task[k] = "finished" /\ OfTask(k, owed) \subseteq printed[k]
  BY DEF EndedMeansComplete
<1>1. task[k] = "finished" /\ feed[k] = {}
  BY DEF IInv, ListFollowsTask
<1>2. ASSUME NEW r \in OfTask(k, owed) PROVE r \in printed[k]
  <2>1. r \in owed /\ r[1] = k
    BY DEF OfTask
  <2>2. ~ Held(r) /\ ~ Sent(r)
    BY <1>1, <2>1 DEF IInv, OwedIsInTime, Held, Sent
  <2>3. QED
    BY <2>1, <2>2 DEF IInv, OwedIsSomewhere
<1>3. QED
  BY <1>1, <1>2

(* When the stream of a cli ends without an error, its task is finished and  *)
(* the cli has printed every reply that was in time: the ten seconds of the  *)
(* ping thread outlast the five of the transmitters, at whichever clients    *)
(* the replies arrive and in whatever order programs, calls and clocks move. *)
THEOREM EndedCliHasEverything == Spec => []EndedMeansComplete
<1>1. Init => IInv
  BY TypeInit, LagInit, ListInit, RoundsInit, OnceInit, OwedInit DEF IInv
<1>2. IInv /\ [Next]_vars => IInv'
  BY TypeNext, LagNext, ListNext, RoundsNext, OnceNext, InTimeNext, SomewhereNext
     DEF IInv, LagInv
<1>3. QED
  BY <1>1, <1>2, NothingIsLeft, PTL DEF Spec

-----------------------------------------------------------------------------
(***************************************************************************)
(* Messages: the codec.  Varints, the fields on the wire and what reads    *)
(* them back.                                                              *)
(***************************************************************************)

(* Varints.                                                                  *)
LEMMA DivideBy128 ==
  ASSUME NEW v \in Nat, ~ (v < 128)
  PROVE  /\ v \div 128 \in Nat /\ v \div 128 < v
         /\ v % 128 \in 0 .. 127 /\ 128 + (v % 128) \in Byte
         /\ v = (v % 128) + 128 * (v \div 128)
<1>1. v \div 128 \in Nat
  OBVIOUS
<1>2. v % 128 \in 0 .. 127
  OBVIOUS
<1>3. v = 128 * (v \div 128) + (v % 128)
  OBVIOUS
<1>4. v \div 128 < v
  OBVIOUS
<1>5. QED
  BY <1>1, <1>2, <1>3, <1>4 DEF Byte

(* The bytes of a varint, defined by recursion on its value, exist.          *)
LEMMA VarintIsDefined ==
  /\ Varint \in [Nat -> Seq(Byte)]
  /\ \A v \in Nat :
       Varint[v] = IF v < 128 THEN <<v>> ELSE <<128 + (v % 128)>> \o Varint[v \div 128]
<1> DEFINE below == [v \in Nat |-> IF v < 128 THEN {} ELSE {v \div 128}]
           rank == [v \in Nat |-> v]
           made(v, g) == IF v < 128 THEN <<v>> ELSE <<128 + (v % 128)>> \o g[v \div 128]
           step == [v \in Nat |-> [g \in [below[v] -> Seq(Byte)] |-> made(v, g)]]
<1>1. rank \in [Nat -> Nat] /\ below \in [Nat -> SUBSET Nat]
  BY DivideBy128
<1>2. \A v \in Nat : \A y \in below[v] : rank[y] < rank[v]
  BY DivideBy128
<1>3. ASSUME NEW v \in Nat, NEW g \in [below[v] -> Seq(Byte)]
      PROVE  made(v, g) \in Seq(Byte)
  <2>1. CASE v < 128
    BY <2>1 DEF Byte
  <2>2. CASE ~ (v < 128)
    <3>1. 128 + (v % 128) \in Byte /\ below[v] = {v \div 128}
      BY <2>2, DivideBy128
    <3>2. <<128 + (v % 128)>> \in Seq(Byte) /\ g[v \div 128] \in Seq(Byte)
      <4> HIDE DEF below
      <4>1. QED
        BY <3>1
    <3>3. PICK a \in Seq(Byte), b \in Seq(Byte) : a = <<128 + (v % 128)>> /\ b = g[v \div 128]
      BY <3>2
    <3>4. a \o b \in Seq(Byte)
      BY ConcatProperties
    <3>5. QED
      BY <2>2, <3>3, <3>4
  <2>3. QED
    BY <2>1, <2>2
<1>4. \A v \in Nat : \A g \in [below[v] -> Seq(Byte)] : step[v][g] = made(v, g)
  <2> HIDE DEF made, below
  <2>1. QED
    BY Zenon
<1>5. \A v \in Nat : \A g \in [below[v] -> Seq(Byte)] : step[v][g] \in Seq(Byte)
  <2> HIDE DEF made, below, step
  <2>1. QED
    BY <1>3, <1>4
<1>6. Recursive(Nat, Seq(Byte), below, step)
  <2> HIDE DEF step, below, rank
  <2>1. QED
    BY <1>1, <1>2, <1>5, RecursionByRank
<1>7. PICK f \in [Nat -> Seq(Byte)] : f = [v \in Nat |-> step[v][[y \in below[v] |-> f[y]]]]
  <2> HIDE DEF step, below
  <2>1. QED
    BY <1>6 DEF Recursive
<1>8. ASSUME NEW v \in Nat
      PROVE  step[v][[y \in below[v] |-> f[y]]]
               = IF v < 128 THEN <<v>> ELSE <<128 + (v % 128)>> \o f[v \div 128]
  <2>1. below[v] \subseteq Nat
    BY <1>1
  <2>2. PICK g : g = [y \in below[v] |-> f[y]]
    OBVIOUS
  <2>3. g \in [below[v] -> Seq(Byte)]
    <3> HIDE DEF below
    <3>1. QED
      BY <2>1, <2>2
  <2>4. step[v][g] = made(v, g)
    <3> HIDE DEF made, below, step
    <3>1. QED
      BY <1>4, <2>3
  <2>5. ~ (v < 128) => g[v \div 128] = f[v \div 128]
    BY <2>2
  <2>6. made(v, g) = IF v < 128 THEN <<v>> ELSE <<128 + (v % 128)>> \o f[v \div 128]
    <3> HIDE DEF below, step
    <3>1. QED
      BY <2>5
  <2> HIDE DEF step, made, below
  <2>7. QED
    BY <2>2, <2>4, <2>6
<1>9. f = [v \in Nat |-> IF v < 128 THEN <<v>> ELSE <<128 + (v % 128)>> \o f[v \div 128]]
  <2> HIDE DEF step, below
  <2>1. QED
    BY <1>7, <1>8, ZenonT(60)
<1>10. Varint = [v \in Nat |-> IF v < 128 THEN <<v>> ELSE <<128 + (v % 128)>> \o Varint[v \div 128]]
  BY <1>9, ZenonT(60) DEF Varint
<1>11. \A v \in Nat :
         Varint[v] = IF v < 128 THEN <<v>> ELSE <<128 + (v % 128)>> \o Varint[v \div 128]
  BY <1>10, Zenon
<1> DEFINE T == {v \in Nat : Varint[v] \in Seq(Byte)}
<1>12. ASSUME NEW v \in Nat, \A y \in Nat : rank[y] < rank[v] => y \in T PROVE v \in T
  <2>1. CASE v < 128
    <3>1. <<v>> \in Seq(Byte)
      BY <2>1 DEF Byte
    <3>2. QED
      BY <1>11, <2>1, <3>1
  <2>2. CASE ~ (v < 128)
    <3>1. v \div 128 \in Nat /\ v \div 128 < v /\ 128 + (v % 128) \in Byte
      BY <2>2, DivideBy128
    <3>2. <<128 + (v % 128)>> \in Seq(Byte) /\ Varint[v \div 128] \in Seq(Byte)
      BY <1>12, <3>1
    <3>3. PICK a \in Seq(Byte), b \in Seq(Byte) : a = <<128 + (v % 128)>> /\ b = Varint[v \div 128]
      BY <3>2
    <3>4. a \o b \in Seq(Byte)
      BY ConcatProperties
    <3>5. Varint[v] = a \o b
      BY <1>11, <2>2, <3>3
    <3>6. QED
      BY <3>4, <3>5
  <2>3. QED
    BY <2>1, <2>2
<1>13. Nat \subseteq T
  <2> HIDE DEF rank, T
  <2>1. QED
    BY <1>1, <1>12, InductionByRank, ZenonT(60)
<1>14. Varint \in [Nat -> Seq(Byte)]
  <2>1. \A v \in Nat : Varint[v] \in Seq(Byte)
    BY <1>13
  <2>2. Varint = [v \in Nat |-> Varint[v]]
    BY <1>10
  <2>3. QED
    BY <2>1, <2>2
<1>15. QED
  BY <1>11, <1>14

(* So does the number of them.                                               *)
LEMMA VarintSizeIsDefined ==
  \A v \in Nat : VarintSize[v] = IF v < 128 THEN 1 ELSE 1 + VarintSize[v \div 128]
<1> DEFINE below == [v \in Nat |-> IF v < 128 THEN {} ELSE {v \div 128}]
           rank == [v \in Nat |-> v]
           made(v, g) == IF v < 128 THEN 1 ELSE 1 + g[v \div 128]
           step == [v \in Nat |-> [g \in [below[v] -> Nat] |-> made(v, g)]]
<1>1. rank \in [Nat -> Nat] /\ below \in [Nat -> SUBSET Nat]
  BY DivideBy128
<1>2. \A v \in Nat : \A y \in below[v] : rank[y] < rank[v]
  BY DivideBy128
<1>3. ASSUME NEW v \in Nat, NEW g \in [below[v] -> Nat]
      PROVE  made(v, g) \in Nat
  <2>1. CASE v < 128
    BY <2>1
  <2>2. CASE ~ (v < 128)
    <3>1. below[v] = {v \div 128}
      BY <2>2
    <3>2. g[v \div 128] \in Nat
      <4> HIDE DEF below
      <4>1. QED
        BY <3>1
    <3>3. QED
      BY <2>2, <3>2
  <2>3. QED
    BY <2>1, <2>2
<1>4. \A v \in Nat : \A g \in [below[v] -> Nat] : step[v][g] = made(v, g)
  <2> HIDE DEF made, below
  <2>1. QED
    BY Zenon
<1>5. \A v \in Nat : \A g \in [below[v] -> Nat] : step[v][g] \in Nat
  <2> HIDE DEF made, below, step
  <2>1. QED
    BY <1>3, <1>4
<1>6. Recursive(Nat, Nat, below, step)
  <2> HIDE DEF step, below, rank
  <2>1. QED
    BY <1>1, <1>2, <1>5, RecursionByRank
<1>7. PICK f \in [Nat -> Nat] : f = [v \in Nat |-> step[v][[y \in below[v] |-> f[y]]]]
  <2> HIDE DEF step, below
  <2>1. QED
    BY <1>6 DEF Recursive
<1>8. ASSUME NEW v \in Nat
      PROVE  step[v][[y \in below[v] |-> f[y]]] = IF v < 128 THEN 1 ELSE 1 + f[v \div 128]
  <2>1. below[v] \subseteq Nat
    BY <1>1
  <2>2. PICK g : g = [y \in below[v] |-> f[y]]
    OBVIOUS
  <2>3. g \in [below[v] -> Nat]
    <3> HIDE DEF below
    <3>1. QED
      BY <2>1, <2>2
  <2>4. step[v][g] = made(v, g)
    <3> HIDE DEF made, below, step
    <3>1. QED
      BY <1>4, <2>3
  <2>5. ~ (v < 128) => g[v \div 128] = f[v \div 128]
    BY <2>2
  <2>6. made(v, g) = IF v < 128 THEN 1 ELSE 1 + f[v \div 128]
    <3> HIDE DEF below, step
    <3>1. QED
      BY <2>5
  <2> HIDE DEF step, made, below
  <2>7. QED
    BY <2>2, <2>4, <2>6
<1>9. f = [v \in Nat |-> IF v < 128 THEN 1 ELSE 1 + f[v \div 128]]
  <2> HIDE DEF step, below
  <2>1. QED
    BY <1>7, <1>8, Zenon
<1>10. VarintSize = [v \in Nat |-> IF v < 128 THEN 1 ELSE 1 + VarintSize[v \div 128]]
  BY <1>9, Zenon DEF VarintSize
<1>11. QED
  BY <1>10, Zenon

(* Reading a varint.                                                         *)
ResultsOf(v) == {Ok(v, left) : left \in Seq(Byte)}
Results == {Error} \cup (UNION {ResultsOf(v) : v \in Nat})

(* A byte is a number.                                                       *)
LEMMA ByteIsNat == ASSUME NEW b \in Byte PROVE b \in Nat
BY DEF Byte

(* Reading ends in an error or with a value and what is left of the bytes.   *)
LEMMA ErrorIsResult == Error \in Results
BY Zenon DEF Results

(* A value and the bytes left make a result.                                 *)
LEMMA OkIsResult ==
  ASSUME NEW v \in Nat, NEW left \in Seq(Byte)
  PROVE  Ok(v, left) \in Results
<1>1. Ok(v, left) \in ResultsOf(v)
  BY Zenon DEF ResultsOf
<1>2. QED
  BY <1>1, Zenon DEF Results

(* A result that is no error is a value and the bytes left.                  *)
LEMMA ResultCases ==
  ASSUME NEW r \in Results, r # Error
  PROVE  \E v \in Nat, left \in Seq(Byte) : r = Ok(v, left)
<1>1. PICK v \in Nat : r \in ResultsOf(v)
  BY DEF Results
<1>2. PICK left \in Seq(Byte) : r = Ok(v, left)
  BY <1>1 DEF ResultsOf
<1>3. QED
  BY <1>2

(* The sequence of one byte.                                                 *)
LEMMA OneByte ==
  ASSUME NEW b \in Byte
  PROVE  /\ <<b>> \in Seq(Byte) /\ <<b>> # <<>> /\ Len(<<b>>) = 1
         /\ Head(<<b>>) = b /\ Tail(<<b>>) = <<>>
<1>1. <<b>> \in Seq(Byte) /\ <<b>> # <<>> /\ Len(<<b>>) = 1
  OBVIOUS
<1>2. Head(<<b>>) = b
  OBVIOUS
<1>3. Tail(<<b>>) = <<>>
  OBVIOUS
<1>4. QED
  BY <1>1, <1>2, <1>3

(* read_raw_varint, defined by recursion on the bytes, exists.               *)
LEMMA ReadVarintIsDefined ==
  \A bytes \in Seq(Byte) :
    ReadVarint[bytes] =
      IF bytes = <<>> THEN Error
      ELSE IF Head(bytes) < 128 THEN Ok(Head(bytes), Tail(bytes))
      ELSE IF ReadVarint[Tail(bytes)].ok
           THEN Ok(Head(bytes) - 128 + 128 * ReadVarint[Tail(bytes)].value,
                   ReadVarint[Tail(bytes)].left)
           ELSE Error
<1> DEFINE below == [b \in Seq(Byte) |->
                       IF b = <<>> THEN {} ELSE IF Head(b) < 128 THEN {} ELSE {Tail(b)}]
           rank == [b \in Seq(Byte) |-> Len(b)]
           longer(b, more) ==
             IF more.ok THEN Ok(Head(b) - 128 + 128 * more.value, more.left) ELSE Error
           read(b, more) ==
             IF b = <<>> THEN Error
             ELSE IF Head(b) < 128 THEN Ok(Head(b), Tail(b)) ELSE longer(b, more)
           step == [b \in Seq(Byte) |-> [g \in [below[b] -> Results] |-> read(b, g[Tail(b)])]]
<1>1. ASSUME NEW b \in Seq(Byte), b # <<>>
      PROVE  Tail(b) \in Seq(Byte) /\ Len(Tail(b)) < Len(b) /\ Head(b) \in Byte
  <2>1. Tail(b) \in Seq(Byte) /\ Len(Tail(b)) = Len(b) - 1 /\ Head(b) \in Byte
    BY <1>1, HeadTailProperties
  <2>2. Len(b) \in Nat
    BY LenProperties
  <2>3. QED
    BY <2>1, <2>2
<1>2. /\ rank \in [Seq(Byte) -> Nat]
      /\ below \in [Seq(Byte) -> SUBSET Seq(Byte)]
      /\ \A b \in Seq(Byte) : \A y \in below[b] : rank[y] < rank[b]
  <2>1. \A b \in Seq(Byte) : Len(b) \in Nat
    BY LenProperties
  <2>2. ASSUME NEW b \in Seq(Byte), NEW y \in below[b]
        PROVE  y \in Seq(Byte) /\ rank[y] < rank[b]
    <3>1. b # <<>> /\ y = Tail(b)
      BY Zenon
    <3>2. y \in Seq(Byte) /\ Len(y) < Len(b)
      BY <1>1, <3>1
    <3>3. QED
      BY <3>2
  <2>3. rank \in [Seq(Byte) -> Nat]
    BY <2>1
  <2>4. \A b \in Seq(Byte) : below[b] \subseteq Seq(Byte)
    <3> HIDE DEF below, rank
    <3>1. QED
      BY <2>2
  <2>5. below = [b \in Seq(Byte) |-> below[b]]
    BY Zenon
  <2> HIDE DEF below, rank
  <2>6. QED
    BY <2>2, <2>3, <2>4, <2>5
<1>3. ASSUME NEW b \in Seq(Byte), NEW g \in [below[b] -> Results]
      PROVE  read(b, g[Tail(b)]) \in Results
  <2>1. CASE b = <<>>
    <3>1. read(b, g[Tail(b)]) = Error
      BY <2>1
    <3>2. QED
      BY <3>1, ErrorIsResult
  <2>2. CASE b # <<>> /\ Head(b) < 128
    <3>1. Head(b) \in Nat /\ Tail(b) \in Seq(Byte)
      BY <1>1, <2>2, ByteIsNat
    <3>2. read(b, g[Tail(b)]) = Ok(Head(b), Tail(b))
      BY <2>2
    <3>3. QED
      BY <3>1, <3>2, OkIsResult
  <2>3. CASE b # <<>> /\ ~ (Head(b) < 128)
    <3>1. below[b] = {Tail(b)}
      BY <2>3
    <3>2. g[Tail(b)] \in Results
      <4> HIDE DEF below
      <4>1. QED
        BY <3>1
    <3>3. read(b, g[Tail(b)]) = longer(b, g[Tail(b)])
      BY <2>3
    <3>4. PICK more \in Results : more = g[Tail(b)]
      BY <3>2
    <3>5. longer(b, more) \in Results
      <4>1. PICK h \in Nat : h = Head(b) /\ ~ (h < 128)
        BY <1>1, <2>3, ByteIsNat
      <4>2. CASE more = Error
        <5>1. longer(b, more) = Error
          BY <4>2 DEF Error
        <5>2. QED
          BY <5>1, ErrorIsResult
      <4>3. CASE more # Error
        <5>1. PICK v \in Nat, left \in Seq(Byte) : more = Ok(v, left)
          BY <4>3, ResultCases
        <5>2. more.ok /\ more.value = v /\ more.left = left
          BY <5>1 DEF Ok
        <5>3. longer(b, more) = Ok(h - 128 + 128 * v, left)
          BY <4>1, <5>2
        <5>4. h - 128 + 128 * v \in Nat
          BY <4>1
        <5>5. QED
          BY <5>3, <5>4, OkIsResult
      <4>4. QED
        BY <4>2, <4>3
    <3> HIDE DEF longer, read
    <3>6. QED
      BY <3>3, <3>4, <3>5
  <2> HIDE DEF read
  <2>4. QED
    BY <2>1, <2>2, <2>3
<1> HIDE DEF longer
<1>4. \A b \in Seq(Byte) : \A g \in [below[b] -> Results] : step[b][g] = read(b, g[Tail(b)])
  <2> HIDE DEF read, below
  <2>1. QED
    BY Zenon
<1>5. \A b \in Seq(Byte) : \A g \in [below[b] -> Results] : step[b][g] \in Results
  <2> HIDE DEF read, below, step
  <2>1. QED
    BY <1>3, <1>4
<1>6. Recursive(Seq(Byte), Results, below, step)
  <2> HIDE DEF step, below, rank
  <2>1. QED
    BY <1>2, <1>5, RecursionByRank
<1>7. PICK f \in [Seq(Byte) -> Results] :
        f = [b \in Seq(Byte) |-> step[b][[y \in below[b] |-> f[y]]]]
  <2> HIDE DEF step, below
  <2>1. QED
    BY <1>6 DEF Recursive
<1>8. ASSUME NEW b \in Seq(Byte)
      PROVE  step[b][[y \in below[b] |-> f[y]]] = read(b, f[Tail(b)])
  <2>1. below[b] \subseteq Seq(Byte)
    BY <1>2
  <2>2. PICK g : g = [y \in below[b] |-> f[y]]
    OBVIOUS
  <2>3. g \in [below[b] -> Results]
    <3> HIDE DEF below
    <3>1. QED
      BY <2>1, <2>2
  <2>4. step[b][g] = read(b, g[Tail(b)])
    <3> HIDE DEF read, below, step
    <3>1. QED
      BY <1>4, <2>3
  <2>5. b # <<>> /\ ~ (Head(b) < 128) => g[Tail(b)] = f[Tail(b)]
    BY <2>2
  <2>6. read(b, g[Tail(b)]) = read(b, f[Tail(b)])
    <3> HIDE DEF below, step
    <3>1. QED
      BY <2>5
  <2> HIDE DEF step, read, below
  <2>7. QED
    BY <2>2, <2>4, <2>6
<1>9. f = [b \in Seq(Byte) |-> read(b, f[Tail(b)])]
  <2> HIDE DEF step, below, read
  <2>1. QED
    BY <1>7, <1>8, ZenonT(60)
<1>10. ReadVarint = [b \in Seq(Byte) |-> read(b, ReadVarint[Tail(b)])]
  BY <1>9 DEF ReadVarint, longer
<1>11. \A b \in Seq(Byte) : ReadVarint[b] = read(b, ReadVarint[Tail(b)])
  <2> HIDE DEF read
  <2>1. QED
    BY <1>10, Zenon
<1>12. QED
  BY <1>11, Zenon DEF longer

(* What has been written as a varint is read from it.                        *)
LEMMA VarintIsRead ==
  ASSUME NEW v \in Nat
  PROVE  /\ Varint[v] \in Seq(Byte) /\ Varint[v] # <<>> /\ Len(Varint[v]) = VarintSize[v]
         /\ \A rest \in Seq(Byte) : ReadVarint[Varint[v] \o rest] = Ok(v, rest)
<1> DEFINE rank == [n \in Nat |-> n]
           T == {n \in Nat : /\ Varint[n] # <<>> /\ Len(Varint[n]) = VarintSize[n]
                             /\ \A rest \in Seq(Byte) : ReadVarint[Varint[n] \o rest] = Ok(n, rest)}
<1>1. ASSUME NEW n \in Nat, \A y \in Nat : rank[y] < rank[n] => y \in T PROVE n \in T
  <2>1. CASE n < 128
    <3>1. Varint[n] = <<n>> /\ VarintSize[n] = 1
      BY <2>1, VarintIsDefined, VarintSizeIsDefined, ZenonT(60)
    <3>2. PICK a \in Seq(Byte) : a = <<n>> /\ a # <<>> /\ Len(a) = 1 /\ Head(a) = n /\ Tail(a) = <<>>
      <4>1. n \in Byte
        BY <2>1 DEF Byte
      <4>2. QED
        BY <4>1, OneByte
    <3>3. ASSUME NEW rest \in Seq(Byte) PROVE ReadVarint[a \o rest] = Ok(n, rest)
      <4>1. a \o rest # <<>> /\ Head(a \o rest) = n /\ Tail(a \o rest) = <<>> \o rest
        BY <3>2, TakeFirst
      <4>2. <<>> \o rest = rest /\ a \o rest \in Seq(Byte)
        BY ConcatEmptySeq, ConcatProperties
      <4>3. PICK b \in Seq(Byte) : b = a \o rest
        BY <4>2
      <4>4. ReadVarint[b] = Ok(n, rest)
        BY <2>1, <4>1, <4>2, <4>3, ReadVarintIsDefined
      <4>5. QED
        BY <4>3, <4>4
    <3>4. QED
      BY <3>1, <3>2, <3>3
  <2>2. CASE ~ (n < 128)
    <3>1. PICK q \in Nat, r \in 0 .. 127 : /\ q = n \div 128 /\ r = n % 128 /\ q < n
                                            /\ 128 + r \in Byte /\ n = r + 128 * q
      BY <2>2, DivideBy128
    <3>2. PICK a \in Seq(Byte) :
            a = <<128 + r>> /\ a # <<>> /\ Len(a) = 1 /\ Head(a) = 128 + r /\ Tail(a) = <<>>
      BY <3>1, OneByte, ZenonT(60)
    <3>3. PICK c \in Seq(Byte) : c = Varint[q]
      BY VarintIsDefined
    <3>4. Varint[n] = a \o c /\ VarintSize[n] = 1 + VarintSize[q]
      BY <2>2, <3>1, <3>2, <3>3, VarintIsDefined, VarintSizeIsDefined, ZenonT(60)
    <3>5. /\ c # <<>> /\ Len(c) = VarintSize[q]
          /\ \A rest \in Seq(Byte) : ReadVarint[c \o rest] = Ok(q, rest)
      BY <1>1, <3>1, <3>3
    <3>6. a \o c # <<>> /\ Len(a \o c) = VarintSize[n]
      <4>1. Len(a \o c) = Len(a) + Len(c)
        BY ConcatProperties
      <4>2. Len(a \o c) = VarintSize[n]
        BY <3>2, <3>4, <3>5, <4>1
      <4>3. a \o c # <<>>
        BY <3>2, TakeFirst
      <4>4. QED
        BY <4>2, <4>3
    <3>7. ASSUME NEW rest \in Seq(Byte) PROVE ReadVarint[(a \o c) \o rest] = Ok(n, rest)
      <4>1. PICK t \in Seq(Byte) : t = c \o rest
        BY ConcatProperties
      <4>2. (a \o c) \o rest = a \o t
        BY <4>1, ConcatAssociative, SMTT(60)
      <4>3. a \o t # <<>> /\ Head(a \o t) = 128 + r /\ Tail(a \o t) = <<>> \o t
        BY <3>2, TakeFirst
      <4>4. <<>> \o t = t /\ a \o t \in Seq(Byte)
        BY ConcatEmptySeq, ConcatProperties
      <4>5. PICK b \in Seq(Byte) : b = a \o t /\ b # <<>> /\ Head(b) = 128 + r /\ Tail(b) = t
        BY <4>3, <4>4
      <4>6. ReadVarint[t] = Ok(q, rest)
        BY <3>5, <4>1
      <4>7. ReadVarint[t].ok /\ ReadVarint[t].value = q /\ ReadVarint[t].left = rest
        BY <4>6 DEF Ok
      <4>8. ~ (Head(b) < 128) /\ Head(b) - 128 + 128 * q = n
        <5>1. ~ (128 + r < 128) /\ (128 + r) - 128 + 128 * q = n
          BY <3>1
        <5>2. QED
          BY <4>5, <5>1
      <4>9. ReadVarint[b] = Ok(Head(b) - 128 + 128 * ReadVarint[Tail(b)].value, ReadVarint[Tail(b)].left)
        BY <4>5, <4>7, <4>8, ReadVarintIsDefined, Zenon
      <4>10. QED
        BY <4>2, <4>5, <4>7, <4>8, <4>9
    <3>8. QED
      BY <3>4, <3>6, <3>7
  <2>3. QED
    BY <2>1, <2>2
<1>2. Nat \subseteq T
  <2>1. rank \in [Nat -> Nat]
    OBVIOUS
  <2> HIDE DEF rank, T
  <2>2. QED
    BY <1>1, <2>1, InductionByRank
<1>3. QED
  BY <1>2, VarintIsDefined

(* Strings of bytes are among the values of a bytes field.                   *)
LEMMA ByteStrings == ASSUME NEW a \in Seq(Byte) PROVE a \in Bytes
<1>1. Byte \subseteq Nat
  BY DEF Byte
<1>2. QED
  BY <1>1, SeqMonotonic DEF Bytes

(* The value of a length-delimited field is read as it was written.          *)
LEMMA LengthDelimitedIsRead ==
  ASSUME NEW b \in Seq(Byte), NEW rest \in Seq(Byte)
  PROVE  /\ Varint[Len(b)] \o b \in Seq(Byte)
         /\ Len(Varint[Len(b)] \o b) = VarintSize[Len(b)] + Len(b)
         /\ ReadBytes((Varint[Len(b)] \o b) \o rest) = Ok(b, rest)
<1>1. PICK n \in Nat : n = Len(b)
  BY LenProperties
<1>2. PICK a \in Seq(Byte) : /\ a = Varint[n] /\ Len(a) = VarintSize[n]
                             /\ \A r \in Seq(Byte) : ReadVarint[a \o r] = Ok(n, r)
  BY VarintIsRead
<1>3. a \o b \in Seq(Byte) /\ Len(a \o b) = Len(a) + Len(b)
  BY ConcatProperties
<1>4. PICK t \in Seq(Byte) : t = b \o rest /\ Len(t) = n + Len(rest) /\ Len(rest) \in Nat
  BY <1>1, ConcatProperties, LenProperties
<1>5. (a \o b) \o rest = a \o t
  BY <1>4, ConcatAssociative, SMTT(60)
<1>6. ReadVarint[a \o t] = Ok(n, t)
  BY <1>2
<1>7. SubSeq(t, 1, n) = b
  <2>1. b \in Bytes /\ rest \in Bytes
    BY ByteStrings
  <2>2. Cut(Join(b, rest), 1, n) = Cut(b, 1, n) /\ Cut(b, 1, n) = b
    BY <1>1, <2>1, CutFirst, CutAll
  <2>3. QED
    BY <1>4, <2>2 DEF Cut, Join
<1>8. SubSeq(t, n + 1, Len(t)) = rest
  <2>1. b \in Bytes /\ rest \in Bytes
    BY ByteStrings
  <2>2. Cut(Join(b, rest), Len(b) + 1, Len(b) + Len(rest)) = rest
    BY <2>1, CutSecond
  <2>3. QED
    BY <1>1, <1>4, <2>2 DEF Cut, Join
<1>9. PICK c : c = a \o t
  OBVIOUS
<1>10. ReadBytes(c) = Ok(SubSeq(t, 1, n), SubSeq(t, n + 1, Len(t)))
  <2>1. ReadVarint[c].ok /\ ReadVarint[c].value = n /\ ReadVarint[c].left = t
    BY <1>6, <1>9 DEF Ok
  <2>2. n <= Len(t)
    BY <1>4
  <2>3. QED
    BY <2>1, <2>2, Zenon DEF ReadBytes
<1>11. ReadBytes((a \o b) \o rest) = Ok(b, rest)
  BY <1>5, <1>7, <1>8, <1>9, <1>10, Zenon
<1>12. QED
  BY <1>1, <1>2, <1>3, <1>11

(* What a field on the wire is made of.                                      *)
IsOnWire(f) ==
  /\ f.number \in 1 .. 15
  /\ \/ f.wire_type = WireTypeVarint /\ f.value \in Nat
     \/ f.wire_type = WireTypeLengthDelimited /\ f.value \in Seq(Byte) /\ f.size = Len(f.value)

(* A tag is one byte, and the number and wire type read from it are its      *)
(* own.                                                                      *)
LEMMA TagIsRead ==
  ASSUME NEW n \in 1 .. 15, NEW w \in {0, 2}
  PROVE  /\ Tag(n, w) \in Seq(Byte) /\ Tag(n, w) # <<>> /\ Len(Tag(n, w)) = 1
         /\ (8 * n + w) \div 8 = n /\ (8 * n + w) % 8 = w
         /\ \A rest \in Seq(Byte) : ReadVarint[Tag(n, w) \o rest] = Ok(8 * n + w, rest)
<1>1. PICK t \in Nat : t = 8 * n + w /\ t < 128 /\ t \in Byte /\ t \div 8 = n /\ t % 8 = w
  <2>1. 8 * n + w \in Nat /\ 8 * n + w < 128 /\ (8 * n + w) \div 8 = n /\ (8 * n + w) % 8 = w
    OBVIOUS
  <2>2. 8 * n + w \in Byte
    BY <2>1 DEF Byte
  <2>3. QED
    BY <2>1, <2>2
<1>2. Varint[t] = <<t>>
  BY <1>1, VarintIsDefined
<1>3. Tag(n, w) = Varint[t]
  BY <1>1, <1>2 DEF Tag
<1>4. /\ <<t>> \in Seq(Byte) /\ <<t>> # <<>> /\ Len(<<t>>) = 1
  BY <1>1, OneByte
<1>5. \A rest \in Seq(Byte) : ReadVarint[Varint[t] \o rest] = Ok(t, rest)
  BY VarintIsRead
<1>6. QED
  BY <1>1, <1>2, <1>3, <1>4, <1>5

(* The number, the wire type and the value of a field are read as they were   *)
(* written, and SizeOf counts the bytes.                                     *)
Raw(f, bytes, rest) ==
  LET tag == ReadVarint[bytes] IN
  /\ tag.ok /\ tag.value \div 8 = f.number /\ tag.value % 8 = f.wire_type
  /\ ReadRaw(f.wire_type, tag.left) = Ok(f.value, rest)

(* A field on the wire is read back, and leaves what follows it.             *)
LEMMA FieldIsRead ==
  ASSUME NEW f, IsOnWire(f)
  PROVE  /\ BytesOf(f) \in Seq(Byte) /\ BytesOf(f) # <<>> /\ Len(BytesOf(f)) = SizeOf(f)
         /\ \A rest \in Seq(Byte) : Raw(f, BytesOf(f) \o rest, rest)
<1>0. PICK v : v = f.value
  OBVIOUS
<1>1. PICK n \in 1 .. 15, w \in {0, 2} :
        n = f.number /\ w = f.wire_type /\ v = f.value
  BY <1>0 DEF IsOnWire, WireTypeVarint, WireTypeLengthDelimited
<1>2. PICK a \in Seq(Byte) :
        /\ a = Tag(n, w) /\ a # <<>> /\ Len(a) = 1
        /\ \A rest \in Seq(Byte) : ReadVarint[a \o rest] = Ok(8 * n + w, rest)
  BY TagIsRead
<1>3. (8 * n + w) \div 8 = n /\ (8 * n + w) % 8 = w
  BY TagIsRead
<1>4. PICK b \in Seq(Byte) :
        /\ BytesOf(f) = a \o b /\ SizeOf(f) = 1 + Len(b)
        /\ \A rest \in Seq(Byte) : ReadRaw(w, b \o rest) = Ok(v, rest)
  <2>1. CASE w = 0
    <3>1. v \in Nat
      BY <1>1, <2>1 DEF IsOnWire, WireTypeVarint, WireTypeLengthDelimited
    <3>2. /\ Varint[v] \in Seq(Byte) /\ Len(Varint[v]) = VarintSize[v]
          /\ \A rest \in Seq(Byte) : ReadVarint[Varint[v] \o rest] = Ok(v, rest)
      BY <3>1, VarintIsRead
    <3>3. BytesOf(f) = a \o Varint[v] /\ SizeOf(f) = 1 + VarintSize[v]
      BY <1>1, <1>2, <2>1 DEF BytesOf, SizeOf, WireTypeVarint
    <3>4. \A c : ReadRaw(w, c) = ReadVarint[c]
      BY <2>1 DEF ReadRaw, WireTypeVarint, WireTypeLengthDelimited
    <3>5. QED
      BY <3>2, <3>3, <3>4, ZenonT(60)
  <2>2. CASE w = 2
    <3>1. v \in Seq(Byte) /\ f.size = Len(v)
      BY <1>1, <2>2 DEF IsOnWire, WireTypeVarint, WireTypeLengthDelimited
    <3>2. PICK b : b = Varint[Len(v)] \o v
      OBVIOUS
    <3>3. /\ b \in Seq(Byte) /\ Len(b) = VarintSize[Len(v)] + Len(v)
          /\ \A rest \in Seq(Byte) : ReadBytes(b \o rest) = Ok(v, rest)
      <4>1. <<>> \in Seq(Byte)
        BY EmptySeq
      <4>2. QED
        BY <3>1, <3>2, <4>1, LengthDelimitedIsRead
    <3>4. BytesOf(f) = a \o b /\ SizeOf(f) = 1 + (VarintSize[Len(v)] + Len(v))
      <4>1. w # WireTypeVarint
        BY <2>2 DEF WireTypeVarint
      <4>2. QED
        BY <1>1, <1>2, <3>1, <3>2, <4>1, Zenon DEF BytesOf, SizeOf
    <3>5. \A c : ReadRaw(w, c) = ReadBytes(c)
      BY <2>2 DEF ReadRaw, WireTypeVarint, WireTypeLengthDelimited
    <3>6. QED
      BY <3>3, <3>4, <3>5
  <2>3. QED
    BY <2>1, <2>2
<1>5. /\ a \o b \in Seq(Byte) /\ a \o b # <<>> /\ Len(a \o b) = 1 + Len(b)
  <2>1. a \o b \in Seq(Byte) /\ Len(a \o b) = Len(a) + Len(b)
    BY ConcatProperties
  <2>2. a \o b # <<>>
    BY <1>2, TakeFirst
  <2>3. QED
    BY <1>2, <2>1, <2>2
<1>6. ASSUME NEW rest \in Seq(Byte) PROVE Raw(f, (a \o b) \o rest, rest)
  <2>1. PICK t \in Seq(Byte) : t = b \o rest
    BY ConcatProperties
  <2>2. PICK c : c = (a \o b) \o rest /\ c = a \o t
    <3>1. (a \o b) \o rest = a \o (b \o rest)
      BY ConcatAssociative, SMTT(60)
    <3>2. QED
      BY <2>1, <3>1
  <2>3. ReadVarint[c] = Ok(8 * n + w, t)
    BY <1>2, <2>2
  <2>4. ReadVarint[c].ok /\ ReadVarint[c].value = 8 * n + w /\ ReadVarint[c].left = t
    BY <2>3 DEF Ok
  <2>5. ReadRaw(w, t) = Ok(v, rest)
    BY <1>4, <2>1
  <2>6. Raw(f, c, rest)
    BY <1>1, <1>3, <2>4, <2>5, Zenon DEF Raw
  <2>7. QED
    BY <2>2, <2>6
<1>7. QED
  BY <1>4, <1>5, <1>6

-----------------------------------------------------------------------------
(***************************************************************************)
(* The bytes of a message are those of its fields, and merge_from takes    *)
(* its rounds until none are left.                                         *)
(***************************************************************************)

(* left[k] is what remains of the bytes after the first k fields.            *)
Remaining(fields, left) ==
  /\ left \in [0 .. Len(fields) -> Seq(Byte)]
  /\ left[Len(fields)] = <<>>
  /\ \A k \in 1 .. Len(fields) : left[k - 1] = BytesOf(fields[k]) \o left[k]

FieldsOnWire(fields) ==
  Len(fields) \in Nat /\ \A k \in 1 .. Len(fields) : IsOnWire(fields[k])

(* A message serialises to the bytes of its fields, and its computed size is  *)
(* the number of these bytes.                                                *)
LEMMA SerialisedIsDefined ==
  ASSUME NEW m, NEW nested, FieldsOnWire(OnWire(m, nested))
  PROVE  \E left : /\ Remaining(OnWire(m, nested), left)
                   /\ Serialised(m, nested) = [size |-> Len(left[0]), bytes |-> left[0]]
<1>1. PICK F : F = OnWire(m, nested)
  OBVIOUS
<1>2. PICK N \in Nat : N = Len(F)
  BY <1>1 DEF FieldsOnWire
<1> DEFINE last(k) == F[N - k + 1]
           Sizes(s) == s = [k \in 0 .. N |-> IF k = 0 THEN 0 ELSE SizeOf(last(k)) + s[k - 1]]
           Texts(b) == b = [k \in 0 .. N |-> IF k = 0 THEN <<>> ELSE BytesOf(last(k)) \o b[k - 1]]
           size == CHOOSE s : Sizes(s)
           bytes == CHOOSE b : Texts(b)
<1>3. Serialised(m, nested) = [size |-> size[N], bytes |-> bytes[N]]
  BY <1>1, <1>2, Zenon DEF Serialised, SizeAndBytes
<1>4. ASSUME NEW k \in 1 .. N
      PROVE  /\ BytesOf(last(k)) \in Seq(Byte)
             /\ Len(BytesOf(last(k))) = SizeOf(last(k)) /\ SizeOf(last(k)) \in Nat
  <2>1. PICK i \in 1 .. N : i = N - k + 1
    BY <1>2, SMTT(60)
  <2>2. IsOnWire(F[i])
    BY <1>1, <1>2 DEF FieldsOnWire
  <2>3. BytesOf(F[i]) \in Seq(Byte) /\ Len(BytesOf(F[i])) = SizeOf(F[i])
    BY <2>2, FieldIsRead
  <2>4. Len(BytesOf(F[i])) \in Nat
    BY <2>3, LenProperties
  <2>5. QED
    BY <2>1, <2>3, <2>4
<1> HIDE DEF last
<1>5. Sizes(size)
  <2> DEFINE step == [k \in 1 .. N |-> [x \in Nat |-> SizeOf(last(k)) + x]]
  <2>1. step \in [1 .. N -> [Nat -> Nat]]
    BY <1>4
  <2>2. PICK f \in [0 .. N -> Nat] : f = [n \in 0 .. N |-> IF n = 0 THEN 0 ELSE step[n][f[n - 1]]]
    <3> HIDE DEF step
    <3>1. Stepwise(N, Nat, 0, step)
      BY <2>1, StepByStep
    <3>2. QED
      BY <3>1, Zenon DEF Stepwise
  <2>3. ASSUME NEW n \in 0 .. N
        PROVE  f[n] = IF n = 0 THEN 0 ELSE SizeOf(last(n)) + f[n - 1]
    <3>1. n # 0 => n \in 1 .. N /\ f[n - 1] \in Nat
      BY <1>2
    <3>2. n # 0 => step[n][f[n - 1]] = SizeOf(last(n)) + f[n - 1]
      BY <3>1
    <3>3. f[n] = IF n = 0 THEN 0 ELSE step[n][f[n - 1]]
      <4> HIDE DEF step
      <4>1. QED
        BY <2>2, Zenon
    <3> HIDE DEF step
    <3>4. QED
      BY <3>2, <3>3
  <2>4. f = [n \in 0 .. N |-> f[n]]
    BY <2>2
  <2>5. Sizes(f)
    <3> HIDE DEF step
    <3>1. QED
      BY <2>3, <2>4, Zenon
  <2> HIDE DEF Sizes
  <2>6. QED
    BY <2>5
<1>6. Texts(bytes)
  <2> DEFINE step == [k \in 1 .. N |-> [x \in Seq(Byte) |-> BytesOf(last(k)) \o x]]
  <2>1. step \in [1 .. N -> [Seq(Byte) -> Seq(Byte)]]
    <3>1. ASSUME NEW k \in 1 .. N, NEW x \in Seq(Byte) PROVE BytesOf(last(k)) \o x \in Seq(Byte)
      <4>1. PICK a \in Seq(Byte) : a = BytesOf(last(k))
        BY <1>4
      <4>2. QED
        BY <4>1, ConcatProperties
    <3>2. QED
      BY <3>1
  <2>2. PICK f \in [0 .. N -> Seq(Byte)] :
          f = [n \in 0 .. N |-> IF n = 0 THEN <<>> ELSE step[n][f[n - 1]]]
    <3> HIDE DEF step
    <3>1. <<>> \in Seq(Byte)
      BY EmptySeq
    <3>2. Stepwise(N, Seq(Byte), <<>>, step)
      BY <2>1, <3>1, StepByStep
    <3>3. QED
      BY <3>2, Zenon DEF Stepwise
  <2>3. ASSUME NEW n \in 0 .. N
        PROVE  f[n] = IF n = 0 THEN <<>> ELSE BytesOf(last(n)) \o f[n - 1]
    <3>1. n # 0 => n \in 1 .. N /\ f[n - 1] \in Seq(Byte)
      BY <1>2
    <3>2. n # 0 => step[n][f[n - 1]] = BytesOf(last(n)) \o f[n - 1]
      BY <3>1
    <3>3. f[n] = IF n = 0 THEN <<>> ELSE step[n][f[n - 1]]
      <4> HIDE DEF step
      <4>1. QED
        BY <2>2, Zenon
    <3> HIDE DEF step
    <3>4. QED
      BY <3>2, <3>3
  <2>4. f = [n \in 0 .. N |-> f[n]]
    BY <2>2
  <2>5. Texts(f)
    <3> HIDE DEF step
    <3>1. QED
      BY <2>3, <2>4, Zenon
  <2> HIDE DEF Texts
  <2>6. QED
    BY <2>5
<1> HIDE DEF size, bytes
<1>7. /\ size[0] = 0 /\ bytes[0] = <<>>
      /\ \A k \in 1 .. N : /\ size[k] = SizeOf(last(k)) + size[k - 1]
                           /\ bytes[k] = BytesOf(last(k)) \o bytes[k - 1]
  <2>1. \A n \in 0 .. N : size[n] = IF n = 0 THEN 0 ELSE SizeOf(last(n)) + size[n - 1]
    BY <1>5, Zenon
  <2>2. \A n \in 0 .. N : bytes[n] = IF n = 0 THEN <<>> ELSE BytesOf(last(n)) \o bytes[n - 1]
    BY <1>6, Zenon
  <2>3. 0 \in 0 .. N /\ \A k \in 1 .. N : k \in 0 .. N /\ k # 0
    BY <1>2
  <2> HIDE DEF Sizes, Texts
  <2>4. QED
    BY <2>1, <2>2, <2>3, Zenon
<1> HIDE DEF Sizes, Texts
<1> DEFINE T == {k \in 0 .. N : bytes[k] \in Seq(Byte) /\ Len(bytes[k]) = size[k]}
<1>8. 0 .. N \subseteq T
  <2>1. 0 \in T
    <3>1. <<>> \in Seq(Byte) /\ Len(<<>>) = 0
      BY EmptySeq
    <3>2. bytes[0] \in Seq(Byte) /\ Len(bytes[0]) = size[0]
      BY <1>7, <3>1, Zenon
    <3>3. 0 \in 0 .. N
      BY <1>2
    <3>4. QED
      BY <3>2, <3>3, Zenon
  <2>2. ASSUME NEW n \in 0 .. N, n \in T, n < N PROVE n + 1 \in T
    <3>1. PICK k \in 1 .. N : k = n + 1 /\ k - 1 = n
      <4>1. n + 1 \in 1 .. N /\ (n + 1) - 1 = n
        BY <1>2, <2>2
      <4>2. QED
        BY <4>1
    <3>2. PICK a \in Seq(Byte) : a = BytesOf(last(k)) /\ Len(a) = SizeOf(last(k))
      BY <1>4
    <3>3. PICK b \in Seq(Byte) : b = bytes[n] /\ Len(b) = size[n]
      BY <2>2
    <3>4. a \o b \in Seq(Byte) /\ Len(a \o b) = Len(a) + Len(b)
      BY ConcatProperties
    <3>5. bytes[k] = a \o b /\ size[k] = SizeOf(last(k)) + size[n]
      BY <1>7, <3>1, <3>2, <3>3
    <3>6. bytes[k] \in Seq(Byte) /\ Len(bytes[k]) = size[k]
      BY <3>2, <3>3, <3>4, <3>5
    <3>7. QED
      BY <1>2, <3>1, <3>6
  <2> HIDE DEF T
  <2>3. QED
    BY <2>1, <2>2, Induction
<1>9. \A k \in 0 .. N : bytes[k] \in Seq(Byte) /\ Len(bytes[k]) = size[k]
  BY <1>8
<1> HIDE DEF T
<1> DEFINE left == [k \in 0 .. N |-> bytes[N - k]]
<1>10. Remaining(F, left)
  <2>1. left \in [0 .. N -> Seq(Byte)]
    <3>1. \A k \in 0 .. N : N - k \in 0 .. N
      BY <1>2
    <3>2. QED
      BY <1>9, <3>1
  <2>2. left[N] = <<>>
    <3>1. N \in 0 .. N /\ N - N = 0
      BY <1>2
    <3>2. QED
      BY <1>7, <3>1
  <2>3. ASSUME NEW k \in 1 .. N PROVE left[k - 1] = BytesOf(F[k]) \o left[k]
    <3>1. PICK i \in 1 .. N : i = N - k + 1 /\ N - (k - 1) = i /\ N - k = i - 1 /\ N - i + 1 = k
      <4>1. /\ N - k + 1 \in 1 .. N /\ N - (k - 1) = N - k + 1
            /\ N - k = (N - k + 1) - 1 /\ N - (N - k + 1) + 1 = k
        BY <1>2
      <4>2. QED
        BY <4>1
    <3>2. k - 1 \in 0 .. N /\ k \in 0 .. N
      BY <1>2
    <3>3. left[k - 1] = bytes[i] /\ left[k] = bytes[i - 1]
      BY <3>1, <3>2
    <3>4. last(i) = F[k]
      BY <3>1 DEF last
    <3>5. bytes[i] = BytesOf(last(i)) \o bytes[i - 1]
      BY <1>7
    <3>6. QED
      BY <3>3, <3>4, <3>5
  <2> HIDE DEF left
  <2>4. QED
    BY <1>2, <2>1, <2>2, <2>3 DEF Remaining
<1>11. left[0] = bytes[N]
  BY <1>2
<1> HIDE DEF left
<1>12. Serialised(m, nested) = [size |-> Len(left[0]), bytes |-> left[0]]
  <2>1. N \in 0 .. N
    BY <1>2
  <2>2. size[N] = Len(bytes[N])
    BY <1>9, <2>1
  <2>3. QED
    BY <1>3, <1>11, <2>2
<1>13. QED
  BY <1>1, <1>10, <1>12

(* A field begins with its number and its wire type, and has a value.        *)
LEMMA FieldBegins ==
  ASSUME NEW f, IsOnWire(f)
  PROVE  Len(BytesOf(f)) > 1 /\ BytesOf(f)[1] = 8 * f.number + f.wire_type
<1>1. PICK n \in 1 .. 15, w \in {0, 2} : n = f.number /\ w = f.wire_type
  BY DEF IsOnWire, WireTypeVarint, WireTypeLengthDelimited
<1>2. PICK a \in Seq(Byte) : a = Tag(n, w) /\ a # <<>> /\ Len(a) = 1
  BY TagIsRead
<1>3. Head(a) = 8 * n + w
  BY <1>2 DEF Tag
<1>4. \E v \in Seq(Byte) : v # <<>> /\ BytesOf(f) = a \o v
  <2>1. CASE w = 0
    <3>1. f.value \in Nat
      BY <1>1, <2>1 DEF IsOnWire, WireTypeVarint, WireTypeLengthDelimited
    <3>2. PICK v \in Seq(Byte) : v = Varint[f.value] /\ v # <<>>
      BY <3>1, VarintIsRead
    <3>3. BytesOf(f) = a \o v
      BY <1>1, <1>2, <2>1, <3>2 DEF BytesOf, WireTypeVarint
    <3>4. QED
      BY <3>2, <3>3
  <2>2. CASE w = 2
    <3>1. f.value \in Seq(Byte) /\ f.size = Len(f.value)
      BY <1>1, <2>2 DEF IsOnWire, WireTypeVarint, WireTypeLengthDelimited
    <3>2. PICK u \in Seq(Byte) : u = f.value /\ Len(u) \in Nat
      BY <3>1, LenProperties
    <3>3. PICK l \in Seq(Byte) : l = Varint[Len(u)] /\ l # <<>>
      BY <3>2, VarintIsRead
    <3>4. PICK v \in Seq(Byte) : v = l \o u /\ v # <<>>
      <4>1. l \o u \in Seq(Byte) /\ l \o u # <<>>
        BY <3>3, TakeFirst, ConcatProperties
      <4>2. QED
        BY <4>1
    <3>5. BytesOf(f) = a \o v
      BY <1>1, <1>2, <2>2, <3>1, <3>2, <3>3, <3>4 DEF BytesOf, WireTypeVarint
    <3>6. QED
      BY <3>4, <3>5
  <2>3. QED
    BY <2>1, <2>2
<1>5. PICK v \in Seq(Byte) : v # <<>> /\ BytesOf(f) = a \o v
  BY <1>4
<1>6. Len(a \o v) = Len(a) + Len(v) /\ a \o v \in Seq(Byte)
  BY ConcatProperties
<1>7. Len(v) \in Nat /\ Len(v) # 0
  BY <1>5, EmptySeq, LenProperties
<1>8. Len(a \o v) > 1
  BY <1>2, <1>6, <1>7
<1>9. (a \o v)[1] = Head(a)
  <2>1. Head(a \o v) = Head(a) /\ a \o v # <<>>
    BY <1>2, TakeFirst
  <2>2. Head(a \o v) = (a \o v)[1]
    BY <1>6, <2>1, HeadTailProperties
  <2>3. QED
    BY <2>1, <2>2
<1>10. QED
  BY <1>1, <1>3, <1>5, <1>8, <1>9

(* x[k] is the message after k rounds of merge_from, left[k] what remains.   *)
Rounds(x, left, N, parsed) ==
  \A k \in 1 .. N :
    /\ left[k - 1] # <<>> /\ Len(left[k]) + 1 < Len(left[k - 1])
    /\ MergeField(x[k - 1], left[k - 1], parsed) = Ok(x[k], left[k])

(* The loop of merge_from ends with the last of its rounds.                  *)
LEMMA RoundsAreTaken ==
  ASSUME NEW x, NEW parsed, NEW N \in Nat, NEW left \in [0 .. N -> Seq(Byte)],
         Rounds(x, left, N, parsed), left[N] = <<>>
  PROVE  MergeFrom(x[0], left[0], parsed) = Ok(x[N], <<>>)
<1>1. \A k \in 0 .. N : left[k] \in Seq(Byte) /\ Len(left[k]) \in Nat
  <2>1. \A k \in 0 .. N : left[k] \in Seq(Byte)
    OBVIOUS
  <2>2. QED
    BY <2>1, LenProperties
<1>2. PICK B \in Nat, L \in Nat : B = Len(left[0]) /\ L = (B + 1) \div 2 /\ B <= 2 * L
  <2>1. Len(left[0]) \in Nat
    BY <1>1
  <2>2. ASSUME NEW n \in Nat PROVE (n + 1) \div 2 \in Nat /\ n <= 2 * ((n + 1) \div 2)
    OBVIOUS
  <2>3. QED
    BY <2>1, <2>2
<1>3. N <= L
  <2> DEFINE T == {k \in 0 .. N : Len(left[k]) + 2 * k <= B}
  <2>1. 0 \in T
    BY <1>1, <1>2
  <2>2. ASSUME NEW n \in 0 .. N, n \in T, n < N PROVE n + 1 \in T
    <3>1. n + 1 \in 1 .. N /\ (n + 1) - 1 = n
      BY <2>2
    <3>2. Len(left[n + 1]) + 1 < Len(left[n])
      BY <3>1 DEF Rounds
    <3>3. PICK a \in Nat, b \in Nat : a = Len(left[n]) /\ b = Len(left[n + 1])
      BY <1>1, <3>1, SMTT(60)
    <3>4. a + 2 * n <= B
      BY <2>2, <3>3
    <3>5. b + 1 < a
      BY <3>2, <3>3
    <3>6. PICK k \in Nat : k = n
      BY <2>2
    <3>7. b + 2 * (k + 1) <= B
      BY <3>4, <3>5, <3>6
    <3>8. Len(left[n + 1]) + 2 * (n + 1) <= B
      BY <3>3, <3>6, <3>7
    <3>9. n + 1 \in 0 .. N
      BY <2>2
    <3>10. QED
      BY <3>8, <3>9, Zenon
  <2>3. 0 .. N \subseteq T
    <3> HIDE DEF T
    <3>1. QED
      BY <2>1, <2>2, Induction
  <2>4. N \in T
    BY <2>3
  <2>5. Len(left[N]) \in Nat
    BY <1>1
  <2>6. 2 * N <= B
    BY <1>2, <2>4, <2>5
  <2>7. QED
    BY <1>2, <2>6
<1> DEFINE next(before) ==
             IF ~ before.ok \/ before.left = <<>> THEN before
             ELSE MergeField(before.value, before.left, parsed)
           Goes(a) == a = [k \in 0 .. L |-> IF k = 0 THEN Ok(x[0], left[0]) ELSE next(a[k - 1])]
           after == CHOOSE a : Goes(a)
           w == [k \in 0 .. L |-> IF k <= N THEN Ok(x[k], left[k]) ELSE Ok(x[N], <<>>)]
<1>4. MergeFrom(x[0], left[0], parsed) = after[L]
  BY <1>2, Zenon DEF MergeFrom
<1>5. ASSUME NEW k \in 1 .. L PROVE w[k] = next(w[k - 1])
  <2>1. k \in 0 .. L /\ k - 1 \in 0 .. L
    BY <1>2
  <2>2. CASE k <= N
    <3>1. k \in 1 .. N /\ k - 1 <= N
      BY <2>2
    <3>2. w[k] = Ok(x[k], left[k]) /\ w[k - 1] = Ok(x[k - 1], left[k - 1])
      BY <2>1, <2>2, <3>1
    <3>3. /\ left[k - 1] # <<>>
          /\ MergeField(x[k - 1], left[k - 1], parsed) = Ok(x[k], left[k])
      BY <3>1 DEF Rounds
    <3>4. w[k - 1].ok /\ w[k - 1].value = x[k - 1] /\ w[k - 1].left = left[k - 1]
      BY <3>2 DEF Ok
    <3> HIDE DEF w
    <3>5. QED
      BY <3>2, <3>3, <3>4
  <2>3. CASE ~ (k <= N)
    <3>1. w[k] = Ok(x[N], <<>>)
      BY <2>1, <2>3
    <3>2. w[k - 1] = Ok(x[N], <<>>)
      <4>1. CASE k - 1 <= N
        <5>1. k - 1 = N
          BY <2>3, <4>1
        <5>2. w[N] = Ok(x[N], left[N])
          BY <1>3, <1>2
        <5> HIDE DEF w
        <5>3. QED
          BY <5>1, <5>2
      <4>2. CASE ~ (k - 1 <= N)
        BY <2>1, <4>2
      <4>3. QED
        BY <4>1, <4>2
    <3>3. w[k - 1].ok /\ w[k - 1].left = <<>>
      BY <3>2 DEF Ok
    <3> HIDE DEF w
    <3>4. QED
      BY <3>1, <3>2, <3>3
  <2>4. QED
    BY <2>2, <2>3
<1>6. w[0] = Ok(x[0], left[0]) /\ w = [k \in 0 .. L |-> w[k]]
  BY <1>2
<1>7. w[L] = Ok(x[N], <<>>)
  BY <1>2, <1>3
<1> HIDE DEF w, next
<1>8. Goes(w)
  <2>1. \A k \in 0 .. L : w[k] = IF k = 0 THEN Ok(x[0], left[0]) ELSE next(w[k - 1])
    <3>1. \A k \in 0 .. L : k # 0 => k \in 1 .. L
      BY <1>2
    <3>2. QED
      BY <1>5, <1>6, <3>1
  <2>2. QED
    BY <1>6, <2>1, Zenon
<1>9. Goes(after)
  <2> HIDE DEF Goes
  <2>1. QED
    BY <1>8
<1>10. \A k \in 0 .. L : after[k] = IF k = 0 THEN Ok(x[0], left[0]) ELSE next(after[k - 1])
  <2> HIDE DEF after
  <2>1. QED
    BY <1>9, Zenon
<1> HIDE DEF Goes, after
<1>11. 0 .. L \subseteq {k \in 0 .. L : after[k] = w[k]}
  <2> DEFINE T == {k \in 0 .. L : after[k] = w[k]}
  <2>1. 0 \in T
    BY <1>2, <1>6, <1>10
  <2>2. ASSUME NEW n \in 0 .. L, n \in T, n < L PROVE n + 1 \in T
    <3>1. PICK k \in 1 .. L : k = n + 1 /\ k - 1 = n /\ k # 0 /\ k \in 0 .. L
      <4>1. n + 1 \in 1 .. L /\ (n + 1) - 1 = n /\ n + 1 # 0
        BY <1>2, <2>2
      <4>2. QED
        BY <1>2, <4>1
    <3>2. after[k] = next(after[n]) /\ w[k] = next(w[n])
      BY <1>5, <1>10, <3>1
    <3>3. after[n] = w[n]
      BY <2>2
    <3>4. after[k] = w[k]
      BY <3>2, <3>3
    <3>5. QED
      BY <3>1, <3>4
  <2> HIDE DEF T
  <2>3. 0 .. L \subseteq T
    BY <1>2, <2>1, <2>2, Induction
  <2>4. QED
    BY <2>3 DEF T
<1>12. after[L] = w[L]
  <2>1. L \in 0 .. L
    OBVIOUS
  <2>2. QED
    BY <1>11, <2>1
<1>13. QED
  BY <1>4, <1>7, <1>12

-----------------------------------------------------------------------------
(***************************************************************************)
(* Messages that are formed as the schema says.                            *)
(***************************************************************************)

(* The fields of the protocol.                                               *)
IsField(field) ==
  /\ field.kind \in {"uint", "bool", "bytes", "message"}
  /\ field.label \in {"plain", "singular", "repeated", "oneof"}
  /\ field.label \in {"singular", "repeated"} => field.kind = "message"
  /\ field.kind = "message" => field.label # "plain" /\ field.type \in DOMAIN Schema

IsFieldList(fields) ==
  /\ Len(fields) \in 0 .. 5 /\ DOMAIN fields = 1 .. Len(fields)
  /\ \A n \in DOMAIN fields : IsField(fields[n])

(* The message types of the schema.                                          *)
LEMMA Types ==
  DOMAIN Schema = {"Empty", "Ack", "TaskId", "ScheduleTask", "ClientList", "Client", "Task",
                   "Metadata", "Ping", "Address", "TaskResult", "Result", "PingResult",
                   "PingPayload"}
BY DEF Schema

(* The three ways a field of the schema is declared each give a field.       *)
LEMMA FieldKinds ==
  /\ \A kind \in {"uint", "bool", "bytes"} :
       IsField(PlainField(kind)) /\ IsField(OneofScalar(kind))
  /\ \A type \in DOMAIN Schema, label \in {"singular", "repeated", "oneof"} :
       IsField(MessageField(type, label))
BY DEF IsField, PlainField, OneofScalar, MessageField

(* Every message type is a list of fields, each with a number of one byte.   *)
LEMMA SchemaIsWellFormed == \A type \in DOMAIN Schema : IsFieldList(Schema[type])
<1>1. IsFieldList(Empty) /\ IsFieldList(TaskId)
  BY FieldKinds DEF IsFieldList, Empty, TaskId
<1>2. IsFieldList(Ack) /\ IsFieldList(Metadata) /\ IsFieldList(Address)
  BY FieldKinds DEF IsFieldList, Ack, Metadata, Address
<1>3. IsFieldList(ScheduleTask) /\ IsFieldList(ClientList) /\ IsFieldList(Result)
  BY FieldKinds, Types DEF IsFieldList, ScheduleTask, ClientList, Result
<1>4. IsFieldList(Client) /\ IsFieldList(Task) /\ IsFieldList(Ping)
  BY FieldKinds, Types DEF IsFieldList, Client, Task, Ping
<1>5. IsFieldList(TaskResult)
  BY FieldKinds, Types DEF IsFieldList, TaskResult
<1>6. IsFieldList(PingResult)
  BY FieldKinds, Types DEF IsFieldList, PingResult
<1>7. IsFieldList(PingPayload)
  BY FieldKinds, Types DEF IsFieldList, PingPayload
<1>8. QED
  BY <1>1, <1>2, <1>3, <1>4, <1>5, <1>6, <1>7, Types DEF Schema

(* A field of a message type is a field, and its tag is one byte.            *)
LEMMA SchemaField ==
  ASSUME NEW type \in DOMAIN Schema, NEW n \in DOMAIN Schema[type]
  PROVE  n \in 1 .. 15 /\ IsField(Schema[type][n])
BY SchemaIsWellFormed DEF IsFieldList

(* What a value of a field and its form on the wire have to do with each     *)
(* other.                                                                    *)
StandsFor(raw, field, v, parsed) ==
  /\ field.kind \in {"uint", "bytes"} => raw = v
  /\ field.kind = "bool" => v \in BOOLEAN /\ raw = IF v THEN 1 ELSE 0
  /\ field.kind = "message" => parsed[field.type][raw] = Ok(v, <<>>)

(* One round of merge_from reads a field that is known and stores its value. *)
LEMMA KnownIsMerged ==
  ASSUME NEW x, NEW parsed, x.type \in DOMAIN Schema, NEW n \in DOMAIN Schema[x.type],
         NEW v, NEW f, IsOnWire(f), f.number = n, f.wire_type = WireTypeOf(FieldOf(x, n)),
         StandsFor(f.value, FieldOf(x, n), v, parsed), NEW rest \in Seq(Byte)
  PROVE  MergeField(x, BytesOf(f) \o rest, parsed) = Ok(StoreField(x, n, v), rest)
<1>1. PICK bytes : bytes = BytesOf(f) \o rest /\ Raw(f, bytes, rest)
  BY FieldIsRead
<1>2. PICK field : field = FieldOf(x, n) /\ IsField(field)
  BY SchemaField DEF FieldOf
<1>3. PICK tag : tag = ReadVarint[bytes]
  OBVIOUS
<1>4. /\ tag.ok /\ tag.value \div 8 = n /\ tag.value % 8 = f.wire_type
      /\ ReadRaw(f.wire_type, tag.left) = Ok(f.value, rest)
  BY <1>1, <1>3 DEF Raw
<1>5. PICK raw : raw = Ok(f.value, rest) /\ raw.ok /\ raw.value = f.value /\ raw.left = rest
  <2>1. PICK raw : raw = Ok(f.value, rest)
    OBVIOUS
  <2>2. raw.ok /\ raw.value = f.value /\ raw.left = rest
    BY <2>1 DEF Ok
  <2>3. QED
    BY <2>1, <2>2
<1> DEFINE read ==
      IF ~ raw.ok \/ (n \in DOMAIN Schema[x.type] /\ f.wire_type # WireTypeOf(FieldOf(x, n))) THEN Error
      ELSE IF n \notin DOMAIN Schema[x.type] \/ FieldOf(x, n).kind \in {"uint", "bytes"} THEN raw
      ELSE IF FieldOf(x, n).kind = "bool" THEN Ok(raw.value # 0, raw.left)
      ELSE parsed[FieldOf(x, n).type][raw.value]
<1>6. MergeField(x, bytes, parsed) =
        IF ~ read.ok THEN Error
        ELSE Ok(IF n \in DOMAIN Schema[x.type] THEN StoreField(x, n, read.value)
                                ELSE KeepUnknown(x, n, f.wire_type, read.value),
                raw.left)
  BY <1>3, <1>4, <1>5, Zenon
     DEF MergeField, TaggedMerged, RawMerged, FieldRead, FieldStored
<1>7. read.ok /\ read.value = v
  <2>1. CASE field.kind \in {"uint", "bytes"}
    <3>1. read = raw /\ f.value = v
      BY <1>2, <1>5, <2>1 DEF StandsFor
    <3> HIDE DEF read
    <3>2. QED
      BY <1>5, <3>1
  <2>2. CASE field.kind = "bool"
    <3>1. read = Ok(raw.value # 0, raw.left)
      BY <1>2, <1>5, <2>2
    <3>2. v \in BOOLEAN /\ (raw.value # 0) = v
      BY <1>2, <1>5, <2>2 DEF StandsFor
    <3>3. read = Ok(v, raw.left)
      BY <3>1, <3>2
    <3> HIDE DEF read
    <3>4. QED
      BY <3>3 DEF Ok
  <2>3. CASE field.kind = "message"
    <3>1. read = parsed[field.type][raw.value]
      BY <1>2, <1>5, <2>3
    <3>2. parsed[field.type][f.value] = Ok(v, <<>>)
      BY <1>2, <2>3 DEF StandsFor
    <3>3. read = Ok(v, <<>>)
      BY <1>5, <3>1, <3>2
    <3> HIDE DEF read
    <3>4. QED
      BY <3>3 DEF Ok
  <2>4. QED
    BY <1>2, <2>1, <2>2, <2>3 DEF IsField
<1> HIDE DEF read
<1>8. QED
  BY <1>1, <1>5, <1>6, <1>7

(* It keeps a field that is not.                                             *)
LEMMA UnknownIsMerged ==
  ASSUME NEW x, NEW parsed, NEW f, IsOnWire(f), f.number \notin DOMAIN Schema[x.type],
         NEW rest \in Seq(Byte)
  PROVE  MergeField(x, BytesOf(f) \o rest, parsed)
           = Ok(KeepUnknown(x, f.number, f.wire_type, f.value), rest)
<1>1. PICK bytes : bytes = BytesOf(f) \o rest /\ Raw(f, bytes, rest)
  BY FieldIsRead
<1>2. PICK n : n = f.number /\ n \notin DOMAIN Schema[x.type]
  OBVIOUS
<1>3. PICK tag : tag = ReadVarint[bytes]
  OBVIOUS
<1>4. /\ tag.ok /\ tag.value \div 8 = n /\ tag.value % 8 = f.wire_type
      /\ ReadRaw(f.wire_type, tag.left) = Ok(f.value, rest)
  BY <1>1, <1>2, <1>3 DEF Raw
<1>5. PICK raw : raw = Ok(f.value, rest) /\ raw.ok /\ raw.value = f.value /\ raw.left = rest
  <2>1. PICK raw : raw = Ok(f.value, rest)
    OBVIOUS
  <2>2. raw.ok /\ raw.value = f.value /\ raw.left = rest
    BY <2>1 DEF Ok
  <2>3. QED
    BY <2>1, <2>2
<1> DEFINE read ==
      IF ~ raw.ok \/ (n \in DOMAIN Schema[x.type] /\ f.wire_type # WireTypeOf(FieldOf(x, n))) THEN Error
      ELSE IF n \notin DOMAIN Schema[x.type] \/ FieldOf(x, n).kind \in {"uint", "bytes"} THEN raw
      ELSE IF FieldOf(x, n).kind = "bool" THEN Ok(raw.value # 0, raw.left)
      ELSE parsed[FieldOf(x, n).type][raw.value]
<1>6. MergeField(x, bytes, parsed) =
        IF ~ read.ok THEN Error
        ELSE Ok(IF n \in DOMAIN Schema[x.type] THEN StoreField(x, n, read.value)
                                ELSE KeepUnknown(x, n, f.wire_type, read.value),
                raw.left)
  BY <1>3, <1>4, <1>5, Zenon
     DEF MergeField, TaggedMerged, RawMerged, FieldRead, FieldStored
<1>7. read = raw
  BY <1>2, <1>5
<1> HIDE DEF read
<1>8. QED
  BY <1>1, <1>2, <1>5, <1>6, <1>7

-----------------------------------------------------------------------------
(***************************************************************************)
(* What is written of a message, in the order of its fields.               *)
(***************************************************************************)

(* The messages that the accessors build.                                    *)
OneValue(field, v) ==
  /\ field.kind = "uint" => v \in Nat
  /\ field.kind = "bool" => v \in BOOLEAN
  /\ field.kind = "bytes" => v \in Seq(Byte)
  /\ field.kind = "message" => v.type = field.type

IsList(x) == \E S : x \in Seq(S)

FieldHolds(field, x) ==
  /\ field.label = "plain" => OneValue(field, x)
  /\ field.label \in {"singular", "repeated"} =>
       IsList(x) /\ \A k \in 1 .. Len(x) : OneValue(field, x[k])
  /\ field.label = "singular" => Len(x) <= 1

Slots(type) == {n \in DOMAIN Schema[type] : Schema[type][n].label # "oneof"}

IsUnknown(type, u) ==
  /\ u = [number |-> u.number, wire_type |-> u.wire_type, value |-> u.value]
  /\ u.number \notin DOMAIN Schema[type]
  /\ IsOnWire(UnknownOnWire(u))

HoldsFields(m) ==
  /\ m.fields = [n \in Slots(m.type) |-> m.fields[n]]
  /\ \A n \in Slots(m.type) : FieldHolds(Schema[m.type][n], m.fields[n])

HoldsOneof(m) ==
  \/ m.oneof = <<>>
  \/ \E n \in DOMAIN Schema[m.type] \ Slots(m.type) : \E v :
       m.oneof = <<n, v>> /\ OneValue(Schema[m.type][n], v)

HoldsUnknown(m) ==
  IsList(m.unknown) /\ \A k \in 1 .. Len(m.unknown) : IsUnknown(m.type, m.unknown[k])

Formed(m) ==
  /\ m.type \in DOMAIN Schema
  /\ m = [type |-> m.type, fields |-> m.fields, oneof |-> m.oneof, unknown |-> m.unknown]
  /\ HoldsFields(m) /\ HoldsOneof(m) /\ HoldsUnknown(m)

(* The length of a list is a number.                                         *)
LEMMA ListLength == ASSUME NEW x, IsList(x) PROVE Len(x) \in Nat
BY LenProperties DEF IsList

(* The empty list.                                                           *)
LEMMA EmptyList == IsList(<<>>) /\ Len(<<>>) = 0
BY EmptySeq DEF IsList

(* The list of one value.                                                    *)
LEMMA OneElement == ASSUME NEW v PROVE IsList(<<v>>) /\ Len(<<v>>) = 1 /\ <<v>>[1] = v
<1>1. <<v>> \in Seq({v}) /\ Len(<<v>>) = 1 /\ <<v>>[1] = v
  OBVIOUS
<1>2. QED
  BY <1>1 DEF IsList

(* What is written of a field.                                               *)
LEMMA WrittenValues ==
  ASSUME NEW m, Formed(m), NEW n \in DOMAIN Schema[m.type]
  PROVE  /\ Len(ValuesOf(m, n)) \in Nat
         /\ \A k \in 1 .. Len(ValuesOf(m, n)) : OneValue(FieldOf(m, n), ValuesOf(m, n)[k])
         /\ n \notin Slots(m.type) => Len(ValuesOf(m, n)) = 0
         /\ FieldOf(m, n).label # "repeated" => Len(ValuesOf(m, n)) <= 1
<1>1. PICK field : field = FieldOf(m, n) /\ field = Schema[m.type][n] /\ IsField(field)
  BY SchemaField DEF FieldOf, Formed
<1>2. DOMAIN m.fields = Slots(m.type)
  BY DEF Formed, HoldsFields
<1>3. CASE n \notin Slots(m.type)
  <2>1. ValuesOf(m, n) = <<>>
    BY <1>2, <1>3 DEF ValuesOf
  <2>2. QED
    BY <2>1, EmptyList
<1>4. CASE n \in Slots(m.type) /\ field.label \in {"singular", "repeated"}
  <2>1. ValuesOf(m, n) = m.fields[n]
    BY <1>1, <1>2, <1>4 DEF ValuesOf
  <2>2. FieldHolds(field, m.fields[n])
    BY <1>1, <1>4 DEF Formed, HoldsFields
  <2>3. /\ IsList(m.fields[n]) /\ \A k \in 1 .. Len(m.fields[n]) : OneValue(field, m.fields[n][k])
        /\ field.label = "singular" => Len(m.fields[n]) <= 1
    BY <1>4, <2>2 DEF FieldHolds
  <2>4. Len(m.fields[n]) \in Nat
    BY <2>3, ListLength
  <2>5. QED
    BY <1>1, <1>4, <2>1, <2>3, <2>4
<1>5. CASE n \in Slots(m.type) /\ field.label = "plain"
  <2>1. ValuesOf(m, n) = IF m.fields[n] = DefaultOf(field) THEN <<>> ELSE <<m.fields[n]>>
    BY <1>1, <1>2, <1>5 DEF ValuesOf
  <2>2. OneValue(field, m.fields[n])
    BY <1>1, <1>5 DEF Formed, HoldsFields, FieldHolds
  <2>3. CASE m.fields[n] = DefaultOf(field)
    BY <2>1, <2>3, <1>5, EmptyList
  <2>4. CASE m.fields[n] # DefaultOf(field)
    <3>1. PICK v : v = m.fields[n]
      OBVIOUS
    <3>2. PICK l : l = <<v>> /\ Len(l) = 1 /\ l[1] = v
      BY OneElement
    <3>3. ValuesOf(m, n) = l
      BY <2>1, <2>4, <3>1, <3>2
    <3>4. \A k \in 1 .. Len(l) : OneValue(field, l[k])
      BY <2>2, <3>1, <3>2
    <3>5. QED
      BY <1>1, <1>5, <3>2, <3>3, <3>4
  <2>5. QED
    BY <2>3, <2>4
<1>6. n \in Slots(m.type) => field.label \in {"singular", "repeated", "plain"}
  BY <1>1 DEF Slots, IsField
<1>7. QED
  BY <1>3, <1>4, <1>5, <1>6

(* The entries of a message that are written, field by field.                *)
EntriesOf(m, n) == {<<n, ValuesOf(m, n)[k]>> : k \in 1 .. Len(ValuesOf(m, n))}
Entries(m) == (UNION {EntriesOf(m, n) : n \in DOMAIN Schema[m.type]}) \cup {m.oneof}

UpTo(m, u) ==
  /\ u \in [0 .. Len(Schema[m.type]) -> Seq(Entries(m))]
  /\ u[0] = <<>>
  /\ \A n \in 1 .. Len(Schema[m.type]) : u[n] = u[n - 1] \o Numbered(n, ValuesOf(m, n))
  /\ Present(m) = u[Len(Schema[m.type])] \o OneofOf(m)

(* The values of a field, each with the field's number, are entries in       *)
(* their order.                                                              *)
LEMMA NumberedEntries ==
  ASSUME NEW m, Formed(m), NEW n \in DOMAIN Schema[m.type]
  PROVE  /\ Numbered(n, ValuesOf(m, n)) \in Seq(Entries(m))
         /\ Len(Numbered(n, ValuesOf(m, n))) = Len(ValuesOf(m, n))
         /\ \A k \in 1 .. Len(ValuesOf(m, n)) :
              Numbered(n, ValuesOf(m, n))[k] = <<n, ValuesOf(m, n)[k]>>
<1>1. PICK vs : vs = ValuesOf(m, n) /\ Len(vs) \in Nat
  BY WrittenValues
<1> DEFINE l == Len(vs)
<1>2. PICK s : s = [k \in 1 .. l |-> <<n, vs[k]>>]
  OBVIOUS
<1>3. Numbered(n, ValuesOf(m, n)) = s
  BY <1>1, <1>2 DEF Numbered
<1>4. \A k \in 1 .. l : <<n, vs[k]>> \in Entries(m)
  <2>1. \A k \in 1 .. l : <<n, vs[k]>> \in EntriesOf(m, n)
    BY <1>1 DEF EntriesOf
  <2>2. EntriesOf(m, n) \subseteq Entries(m)
    BY DEF Entries
  <2>3. QED
    BY <2>1, <2>2
<1>5. s \in [1 .. l -> Entries(m)]
  <2> HIDE DEF Entries
  <2>1. QED
    BY <1>2, <1>4
<1>6. s \in Seq(Entries(m))
  <2>1. Seq(Entries(m)) = UNION {[1 .. i -> Entries(m)] : i \in Nat}
    BY SeqDef
  <2>2. QED
    BY <1>1, <1>5, <2>1
<1>7. DOMAIN s = 1 .. Len(s) /\ Len(s) \in Nat /\ DOMAIN s = 1 .. l
  <2>1. DOMAIN s = 1 .. l
    BY <1>2
  <2>2. QED
    BY <1>6, <2>1, LenProperties
<1>8. Len(s) = l
  BY <1>1, <1>7
<1>9. QED
  BY <1>1, <1>2, <1>3, <1>6, <1>8

(* The entries up to each field, defined by recursion on its number, exist.  *)
LEMMA PresentIsDefined ==
  ASSUME NEW m, Formed(m)
  PROVE  \E u : UpTo(m, u)
<1>1. PICK L \in Nat : L = Len(Schema[m.type]) /\ DOMAIN Schema[m.type] = 1 .. L
  BY SchemaIsWellFormed DEF Formed, IsFieldList
<1> DEFINE Goes(g) == g = [n \in 0 .. L |-> IF n = 0 THEN <<>>
                                            ELSE g[n - 1] \o Numbered(n, ValuesOf(m, n))]
           upTo == CHOOSE g : Goes(g)
           E == Entries(m)
           step == [n \in 1 .. L |-> [x \in Seq(E) |-> x \o Numbered(n, ValuesOf(m, n))]]
<1>2. Present(m) = upTo[L] \o OneofOf(m)
  BY <1>1, Zenon DEF Present
<1> HIDE DEF E
<1>3. step \in [1 .. L -> [Seq(E) -> Seq(E)]]
  <2>1. ASSUME NEW n \in 1 .. L, NEW x \in Seq(E) PROVE x \o Numbered(n, ValuesOf(m, n)) \in Seq(E)
    <3>1. PICK a \in Seq(E) : a = Numbered(n, ValuesOf(m, n))
      BY <1>1, NumberedEntries DEF E
    <3>2. QED
      BY <3>1, ConcatProperties
  <2>2. QED
    BY <2>1
<1>4. PICK f \in [0 .. L -> Seq(E)] : f = [n \in 0 .. L |-> IF n = 0 THEN <<>> ELSE step[n][f[n - 1]]]
  <2> HIDE DEF step
  <2>1. <<>> \in Seq(E)
    BY EmptySeq
  <2>2. Stepwise(L, Seq(E), <<>>, step)
    BY <1>3, <2>1, StepByStep
  <2>3. QED
    BY <2>2, Zenon DEF Stepwise
<1>5. ASSUME NEW n \in 0 .. L
      PROVE  f[n] = IF n = 0 THEN <<>> ELSE f[n - 1] \o Numbered(n, ValuesOf(m, n))
  <2>1. n # 0 => n \in 1 .. L /\ f[n - 1] \in Seq(E)
    BY <1>1
  <2>2. n # 0 => step[n][f[n - 1]] = f[n - 1] \o Numbered(n, ValuesOf(m, n))
    BY <2>1
  <2>3. f[n] = IF n = 0 THEN <<>> ELSE step[n][f[n - 1]]
    <3> HIDE DEF step
    <3>1. QED
      BY <1>4, Zenon
  <2> HIDE DEF step
  <2>4. QED
    BY <2>2, <2>3
<1>6. f = [n \in 0 .. L |-> f[n]]
  BY <1>4
<1>7. Goes(f)
  <2> HIDE DEF step
  <2>1. QED
    BY <1>5, <1>6, Zenon
<1>8. Goes(upTo)
  <2> HIDE DEF Goes
  <2>1. QED
    BY <1>7
<1> HIDE DEF upTo
<1>9. \A n \in 0 .. L : upTo[n] = IF n = 0 THEN <<>> ELSE upTo[n - 1] \o Numbered(n, ValuesOf(m, n))
  BY <1>8, Zenon
<1>10. upTo = [n \in 0 .. L |-> upTo[n]]
  BY <1>8
<1> HIDE DEF Goes
<1>11. 0 .. L \subseteq {n \in 0 .. L : upTo[n] \in Seq(E)}
  <2> DEFINE T == {n \in 0 .. L : upTo[n] \in Seq(E)}
  <2>1. 0 \in T
    <3>1. <<>> \in Seq(E)
      BY EmptySeq
    <3>2. 0 \in 0 .. L
      BY <1>1
    <3>3. QED
      BY <1>9, <3>1, <3>2, Zenon
  <2>2. ASSUME NEW i \in 0 .. L, i \in T, i < L PROVE i + 1 \in T
    <3>1. PICK n \in 1 .. L : n = i + 1 /\ n - 1 = i /\ n # 0 /\ n \in 0 .. L
      <4>1. i + 1 \in 1 .. L /\ (i + 1) - 1 = i
        BY <1>1, <2>2
      <4>2. QED
        BY <1>1, <4>1
    <3>2. PICK a \in Seq(E) : a = Numbered(n, ValuesOf(m, n))
      BY <1>1, NumberedEntries DEF E
    <3>3. PICK b \in Seq(E) : b = upTo[i]
      BY <2>2
    <3>4. upTo[n] = b \o a /\ b \o a \in Seq(E)
      BY <1>9, <3>1, <3>2, <3>3, ConcatProperties
    <3>5. upTo[n] \in Seq(E)
      BY <3>4
    <3>6. QED
      BY <3>1, <3>5
  <2> HIDE DEF T
  <2>3. 0 .. L \subseteq T
    BY <1>1, <2>1, <2>2, Induction
  <2>4. QED
    BY <2>3 DEF T
<1>12. upTo \in [0 .. L -> Seq(E)]
  BY <1>10, <1>11
<1>13. upTo[0] = <<>> /\ \A n \in 1 .. L : upTo[n] = upTo[n - 1] \o Numbered(n, ValuesOf(m, n))
  <2>1. 0 \in 0 .. L /\ \A n \in 1 .. L : n \in 0 .. L /\ n # 0
    BY <1>1
  <2>2. QED
    BY <1>9, <2>1, Zenon
<1>14. UpTo(m, upTo)
  BY <1>1, <1>2, <1>12, <1>13, Zenon DEF UpTo, E
<1>15. QED
  BY <1>14

(* count[n] entries belong to the first n fields; the value of the oneof     *)
(* follows those of all fields.                                              *)
Counts(m, count) ==
  LET L == Len(Schema[m.type]) IN
  /\ count \in [0 .. L -> Nat] /\ count[0] = 0
  /\ \A n \in 1 .. L : count[n] = count[n - 1] + Len(ValuesOf(m, n))

Ascending(count, L) == \A i, j \in 0 .. L : i <= j => count[i] <= count[j]

Places(m, count) ==
  LET L == Len(Schema[m.type]) IN
  /\ \A n \in 1 .. L : \A j \in 1 .. Len(ValuesOf(m, n)) :
       Present(m)[count[n - 1] + j] = <<n, ValuesOf(m, n)[j]>>
  /\ \A k \in 1 .. count[L] : \E n \in 1 .. L : count[n - 1] < k /\ k <= count[n]

Ending(m, total) ==
  /\ Len(Present(m)) \in Nat
  /\ m.oneof = <<>> => Len(Present(m)) = total
  /\ m.oneof # <<>> => Len(Present(m)) = total + 1 /\ Present(m)[total + 1] = m.oneof

Positions(m, count) ==
  /\ Counts(m, count) /\ Ascending(count, Len(Schema[m.type]))
  /\ Places(m, count) /\ Ending(m, count[Len(Schema[m.type])])

(* Each entry has its place among those of its field, counted from 1.        *)
LEMMA PresentPositions ==
  ASSUME NEW m, Formed(m)
  PROVE  \E count : Positions(m, count)
<1>1. PICK L \in Nat : L = Len(Schema[m.type]) /\ DOMAIN Schema[m.type] = 1 .. L
  BY SchemaIsWellFormed DEF Formed, IsFieldList
<1>2. PICK u : UpTo(m, u)
  BY PresentIsDefined
<1>3. PICK E : E = Entries(m)
  OBVIOUS
<1>4. /\ u \in [0 .. L -> Seq(E)] /\ u[0] = <<>>
      /\ \A n \in 1 .. L : u[n] = u[n - 1] \o Numbered(n, ValuesOf(m, n))
      /\ Present(m) = u[L] \o OneofOf(m)
  BY <1>1, <1>2, <1>3 DEF UpTo
<1>5. \A n \in 0 .. L : u[n] \in Seq(E) /\ Len(u[n]) \in Nat
  <2>1. \A n \in 0 .. L : u[n] \in Seq(E)
    BY <1>4
  <2>2. QED
    BY <2>1, LenProperties
<1>6. \A n \in 1 .. L : Len(ValuesOf(m, n)) \in Nat
  BY <1>1, WrittenValues
<1>7. ASSUME NEW n \in 1 .. L
      PROVE  \E a \in Seq(E), b \in Seq(E) :
               /\ u[n] = a \o b /\ a = u[n - 1] /\ Len(u[n]) = Len(a) + Len(b)
               /\ Len(b) = Len(ValuesOf(m, n))
               /\ \A j \in 1 .. Len(b) : /\ b[j] = <<n, ValuesOf(m, n)[j]>>
                                         /\ u[n][Len(a) + j] = b[j]
  <2>1. n - 1 \in 0 .. L
    BY <1>1
  <2>2. PICK a \in Seq(E) : a = u[n - 1] /\ Len(a) \in Nat
    BY <1>5, <2>1
  <2>3. PICK b \in Seq(E) : /\ b = Numbered(n, ValuesOf(m, n)) /\ Len(b) = Len(ValuesOf(m, n))
                            /\ \A j \in 1 .. Len(b) : b[j] = <<n, ValuesOf(m, n)[j]>>
    BY <1>1, <1>3, NumberedEntries
  <2>4. u[n] = a \o b
    BY <1>4, <2>2, <2>3
  <2>5. /\ Len(a \o b) = Len(a) + Len(b)
        /\ \A j \in 1 .. Len(b) : (a \o b)[Len(a) + j] = b[j]
    BY Joined
  <2>6. PICK c : c = u[n] /\ c = a \o b
    BY <2>4
  <2>7. Len(c) = Len(a) + Len(b) /\ \A j \in 1 .. Len(b) : c[Len(a) + j] = b[j]
    BY <2>5, <2>6
  <2>8. \A j \in 1 .. Len(b) : b[j] = <<n, ValuesOf(m, n)[j]>> /\ u[n][Len(a) + j] = b[j]
    BY <2>3, <2>6, <2>7
  <2>9. u[n] = a \o b /\ a = u[n - 1] /\ Len(u[n]) = Len(a) + Len(b) /\ Len(b) = Len(ValuesOf(m, n))
    BY <2>2, <2>3, <2>6, <2>7
  <2>10. QED
    BY <2>8, <2>9, Zenon
<1>8. OneofOf(m) \in Seq(E)
  <2>1. CASE m.oneof = <<>>
    BY <2>1, EmptySeq DEF OneofOf
  <2>2. CASE m.oneof # <<>>
    <3>1. m.oneof \in E
      <4>1. m.oneof \in Entries(m)
        BY Zenon DEF Entries
      <4>2. QED
        BY <1>3, <4>1
    <3>2. PICK o \in E : o = m.oneof
      BY <3>1
    <3>3. <<o>> \in Seq(E)
      OBVIOUS
    <3>4. QED
      BY <2>2, <3>2, <3>3 DEF OneofOf
  <2>3. QED
    BY <2>1, <2>2
<1> DEFINE count == [n \in 0 .. L |-> Len(u[n])]
<1>9. Counts(m, count)
  <2>1. count \in [0 .. L -> Nat]
    BY <1>5
  <2>2. count[0] = 0
    <3>1. Len(u[0]) = 0
      BY <1>4, EmptyList
    <3>2. QED
      BY <1>1, <3>1
  <2>3. ASSUME NEW n \in 1 .. L PROVE count[n] = count[n - 1] + Len(ValuesOf(m, n))
    <3>1. Len(u[n]) = Len(u[n - 1]) + Len(ValuesOf(m, n))
      BY <1>7
    <3>2. n \in 0 .. L /\ n - 1 \in 0 .. L
      BY <1>1
    <3>3. QED
      BY <3>1, <3>2
  <2> HIDE DEF count
  <2>4. QED
    BY <1>1, <2>1, <2>2, <2>3 DEF Counts
<1>10. \A n \in 0 .. L : count[n] = Len(u[n]) /\ count[n] \in Nat
  BY <1>5
<1> HIDE DEF count
<1>11. Ascending(count, L)
  <2> DEFINE T == {j \in 0 .. L : \A i \in 0 .. L : i <= j => count[i] <= count[j]}
  <2>1. 0 \in T
    BY <1>1, <1>10
  <2>2. ASSUME NEW j \in 0 .. L, j \in T, j < L PROVE j + 1 \in T
    <3>1. PICK n \in 1 .. L : n = j + 1 /\ n - 1 = j
      <4>1. j + 1 \in 1 .. L /\ (j + 1) - 1 = j
        BY <1>1, <2>2
      <4>2. QED
        BY <4>1
    <3>2. count[n] = count[j] + Len(ValuesOf(m, n))
      BY <1>1, <1>9, <3>1 DEF Counts
    <3>3. count[j] <= count[n]
      BY <1>1, <1>6, <1>10, <3>1, <3>2
    <3>4. ASSUME NEW i \in 0 .. L, i <= n PROVE count[i] <= count[n]
      <4>1. CASE i = n
        BY <1>1, <1>10, <3>1, <4>1
      <4>2. CASE i # n
        <5>1. i <= j
          BY <3>1, <3>4, <4>2
        <5>2. count[i] <= count[j]
          BY <2>2, <5>1
        <5>3. QED
          BY <1>10, <3>1, <3>3, <5>2
      <4>3. QED
        BY <4>1, <4>2
    <3>5. QED
      BY <1>1, <3>1, <3>4
  <2>3. 0 .. L \subseteq T
    <3> HIDE DEF T
    <3>1. QED
      BY <1>1, <2>1, <2>2, Induction
  <2>4. QED
    BY <2>3 DEF Ascending
<1>12. ASSUME NEW n \in 0 .. L PROVE \E z \in Seq(E) : Present(m) = u[n] \o z
  <2> DEFINE T == {i \in 0 .. L : \E z \in Seq(E) : Present(m) = u[L - i] \o z}
  <2>1. 0 \in T
    <3>1. L - 0 = L
      BY <1>1
    <3>2. PICK z \in Seq(E) : z = OneofOf(m)
      BY <1>8
    <3>3. Present(m) = u[L - 0] \o z
      BY <1>4, <3>1, <3>2
    <3>4. 0 \in 0 .. L
      BY <1>1
    <3>5. QED
      BY <3>3, <3>4, Zenon
  <2>2. ASSUME NEW i \in 0 .. L, i \in T, i < L PROVE i + 1 \in T
    <3>1. PICK k \in 1 .. L : k = L - i /\ k - 1 = L - (i + 1)
      <4>1. L - i \in 1 .. L /\ (L - i) - 1 = L - (i + 1)
        BY <1>1, <2>2
      <4>2. QED
        BY <4>1
    <3>2. PICK z \in Seq(E) : Present(m) = u[k] \o z
      BY <2>2, <3>1
    <3>3. PICK a \in Seq(E), b \in Seq(E) : u[k] = a \o b /\ a = u[k - 1]
      BY <1>7
    <3>4. (a \o b) \o z = a \o (b \o z) /\ b \o z \in Seq(E)
      BY ConcatAssociative, ConcatProperties
    <3>5. Present(m) = u[L - (i + 1)] \o (b \o z)
      BY <3>1, <3>2, <3>3, <3>4
    <3>6. i + 1 \in 0 .. L
      BY <1>1, <2>2
    <3>7. QED
      BY <3>4, <3>5, <3>6
  <2>3. 0 .. L \subseteq T
    <3> HIDE DEF T
    <3>1. QED
      BY <1>1, <2>1, <2>2, Induction
  <2>4. L - n \in 0 .. L /\ L - (L - n) = n
    BY <1>1
  <2>5. QED
    BY <2>3, <2>4
<1>13. ASSUME NEW n \in 1 .. L, NEW j \in 1 .. Len(ValuesOf(m, n))
       PROVE  Present(m)[count[n - 1] + j] = <<n, ValuesOf(m, n)[j]>>
  <2>1. PICK a \in Seq(E), b \in Seq(E) :
          /\ u[n] = a \o b /\ a = u[n - 1] /\ Len(u[n]) = Len(a) + Len(b)
          /\ Len(b) = Len(ValuesOf(m, n))
          /\ \A i \in 1 .. Len(b) : /\ b[i] = <<n, ValuesOf(m, n)[i]>>
                                    /\ u[n][Len(a) + i] = b[i]
    BY <1>7
  <2>2. n \in 0 .. L /\ n - 1 \in 0 .. L
    BY <1>1
  <2>3. PICK z \in Seq(E) : Present(m) = u[n] \o z
    BY <1>12, <2>2
  <2>4. PICK c \in Seq(E) : c = u[n]
    BY <1>5, <2>2
  <2>5. \A i \in 1 .. Len(c) : (c \o z)[i] = c[i]
    BY Joined
  <2>6. Len(a) = count[n - 1] /\ Len(a) \in Nat /\ Len(b) \in Nat
    BY <1>6, <1>10, <2>1, <2>2
  <2>7. Len(a) + j \in 1 .. Len(c)
    BY <2>1, <2>4, <2>6, SMTT(60)
  <2>8. QED
    BY <2>1, <2>3, <2>4, <2>5, <2>6, <2>7
<1>14. ASSUME NEW k \in 1 .. count[L]
       PROVE  \E n \in 1 .. L : count[n - 1] < k /\ k <= count[n]
  <2>1. SUFFICES ASSUME \A n \in 1 .. L : ~ (count[n - 1] < k /\ k <= count[n]) PROVE FALSE
    OBVIOUS
  <2> DEFINE T == {n \in 0 .. L : count[n] < k}
  <2>2. L \in 0 .. L /\ k \in Nat
    BY <1>1, <1>10
  <2>3. 0 \in T
    <3>1. count[0] = 0
      BY <1>9 DEF Counts
    <3>2. QED
      BY <1>1, <1>10, <2>2, <3>1
  <2>4. ASSUME NEW i \in 0 .. L, i \in T, i < L PROVE i + 1 \in T
    <3>1. i + 1 \in 1 .. L /\ (i + 1) - 1 = i /\ i + 1 \in 0 .. L
      BY <1>1, <2>4
    <3>2. ~ (count[i] < k /\ k <= count[i + 1])
      BY <2>1, <3>1
    <3>3. QED
      BY <1>10, <2>2, <2>4, <3>1, <3>2
  <2>5. 0 .. L \subseteq T
    <3> HIDE DEF T
    <3>1. QED
      BY <1>1, <2>3, <2>4, Induction
  <2>6. count[L] < k
    BY <2>2, <2>5
  <2>7. QED
    BY <1>10, <2>2, <2>6
<1>15. Places(m, count)
  BY <1>1, <1>13, <1>14 DEF Places
<1>16. Ending(m, count[L])
  <2>1. PICK c \in Seq(E) : c = u[L] /\ Len(c) = count[L] /\ Len(c) \in Nat
    BY <1>1, <1>5, <1>10
  <2>2. CASE m.oneof = <<>>
    <3>1. Present(m) = c
      BY <1>4, <2>1, <2>2, ConcatEmptySeq DEF OneofOf
    <3>2. QED
      BY <2>1, <2>2, <3>1 DEF Ending
  <2>3. CASE m.oneof # <<>>
    <3>1. PICK d \in Seq(E) : d = <<m.oneof>> /\ Len(d) = 1 /\ d[1] = m.oneof
      BY <1>8, <2>3, OneElement DEF OneofOf
    <3>2. Present(m) = c \o d
      BY <1>4, <2>1, <2>3, <3>1 DEF OneofOf
    <3>3. Len(c \o d) = Len(c) + Len(d) /\ \A j \in 1 .. Len(d) : (c \o d)[Len(c) + j] = d[j]
      BY Joined
    <3>4. QED
      BY <2>1, <2>3, <3>1, <3>2, <3>3, SMTT(60) DEF Ending
  <2>4. QED
    BY <2>2, <2>3
<1>17. QED
  BY <1>1, <1>9, <1>11, <1>15, <1>16, Zenon DEF Positions

-----------------------------------------------------------------------------
(***************************************************************************)
(* What has been read of a message after each of its fields.               *)
(***************************************************************************)

(* How many of the entries from + 1 .. to are among the first k.             *)
Among(k, from, to) == IF k <= from THEN 0 ELSE IF k >= to THEN to - from ELSE k - from

(* The message as far as its first k fields on the wire make it up.          *)
PartOfField(m, count, n, k) ==
  IF FieldOf(m, n).label \in {"singular", "repeated"}
  THEN SubSeq(m.fields[n], 1, Among(k, count[n - 1], count[n]))
  ELSE IF k >= count[n] THEN m.fields[n] ELSE DefaultOf(FieldOf(m, n))

PartOf(m, count, k) ==
  [type |-> m.type,
   fields |-> [n \in Slots(m.type) |-> PartOfField(m, count, n, k)],
   oneof |-> IF k > count[Len(Schema[m.type])] THEN m.oneof ELSE <<>>,
   unknown |-> SubSeq(m.unknown, 1, Among(k, Len(Present(m)), Len(Present(m)) + Len(m.unknown)))]

(* A field with a place of its own holds a value of its kind, and starts     *)
(* with its default.                                                         *)
LEMMA SlotFacts ==
  ASSUME NEW m, Formed(m), NEW n \in Slots(m.type)
  PROVE  /\ n \in DOMAIN Schema[m.type] /\ n \in DOMAIN m.fields
         /\ IsField(FieldOf(m, n)) /\ FieldOf(m, n).label \in {"plain", "singular", "repeated"}
         /\ FieldHolds(FieldOf(m, n), m.fields[n])
         /\ DefaultOf(FieldOf(m, n)) = NewMessage(m.type).fields[n]
<1>1. n \in DOMAIN Schema[m.type] /\ n \in DOMAIN m.fields
  BY DEF Slots, Formed, HoldsFields
<1>2. IsField(FieldOf(m, n)) /\ FieldOf(m, n) = Schema[m.type][n]
  BY <1>1, SchemaField DEF Formed, FieldOf
<1>3. FieldOf(m, n).label \in {"plain", "singular", "repeated"}
  BY <1>2 DEF Slots, IsField
<1>4. FieldHolds(FieldOf(m, n), m.fields[n])
  BY <1>2 DEF Formed, HoldsFields
<1>5. NewMessage(m.type).fields = [i \in Slots(m.type) |-> DefaultOf(Schema[m.type][i])]
  BY DEF NewMessage, Slots
<1>6. QED
  BY <1>1, <1>2, <1>3, <1>4, <1>5

(* What the values of a field that are written say of it.                    *)
LEMMA SlotValues ==
  ASSUME NEW m, Formed(m), NEW n \in Slots(m.type)
  PROVE  /\ FieldOf(m, n).label \in {"singular", "repeated"} =>
              ValuesOf(m, n) = m.fields[n] /\ IsList(m.fields[n])
         /\ FieldOf(m, n).label = "plain" =>
              \/ Len(ValuesOf(m, n)) = 0 /\ m.fields[n] = DefaultOf(FieldOf(m, n))
              \/ Len(ValuesOf(m, n)) = 1 /\ ValuesOf(m, n)[1] = m.fields[n]
<1>1. n \in DOMAIN m.fields /\ FieldHolds(FieldOf(m, n), m.fields[n])
  BY SlotFacts
<1>2. CASE FieldOf(m, n).label \in {"singular", "repeated"}
  BY <1>1, <1>2 DEF ValuesOf, FieldHolds
<1>3. CASE FieldOf(m, n).label = "plain"
  <2>1. ValuesOf(m, n) = IF m.fields[n] = DefaultOf(FieldOf(m, n)) THEN <<>> ELSE <<m.fields[n]>>
    BY <1>1, <1>3 DEF ValuesOf
  <2>2. CASE m.fields[n] = DefaultOf(FieldOf(m, n))
    BY <1>3, <2>1, <2>2, EmptyList
  <2>3. CASE m.fields[n] # DefaultOf(FieldOf(m, n))
    <3>1. ValuesOf(m, n) = <<m.fields[n]>>
      BY <2>1, <2>3
    <3>2. Len(ValuesOf(m, n)) = 1 /\ ValuesOf(m, n)[1] = m.fields[n]
      BY <3>1, OneElement
    <3>3. QED
      BY <1>3, <3>2
  <2>4. QED
    BY <2>2, <2>3
<1>4. QED
  BY <1>2, <1>3, SlotFacts

(* The counts around a field.                                                *)
LEMMA CountFacts ==
  ASSUME NEW m, Formed(m), NEW count, Positions(m, count), NEW n \in DOMAIN Schema[m.type]
  PROVE  /\ count[n - 1] \in Nat /\ count[n] \in Nat /\ Len(ValuesOf(m, n)) \in Nat
         /\ count[n] = count[n - 1] + Len(ValuesOf(m, n))
         /\ count[Len(Schema[m.type])] \in Nat /\ count[n] <= count[Len(Schema[m.type])]
         /\ Len(Present(m)) \in Nat /\ count[Len(Schema[m.type])] <= Len(Present(m))
<1>1. PICK L \in Nat : L = Len(Schema[m.type]) /\ DOMAIN Schema[m.type] = 1 .. L
  BY SchemaIsWellFormed DEF Formed, IsFieldList
<1>2. n \in 1 .. L /\ n \in 0 .. L /\ n - 1 \in 0 .. L /\ L \in 0 .. L /\ n <= L
  BY <1>1
<1>3. count \in [0 .. L -> Nat] /\ count[n] = count[n - 1] + Len(ValuesOf(m, n))
  BY <1>1, <1>2 DEF Positions, Counts
<1>4. count[n] <= count[L]
  BY <1>1, <1>2 DEF Positions, Ascending
<1>5. Len(ValuesOf(m, n)) \in Nat
  BY WrittenValues
<1>6. Len(Present(m)) \in Nat /\ count[L] \in Nat /\ count[L] <= Len(Present(m))
  <2>1. count[L] \in Nat
    BY <1>2, <1>3
  <2>2. QED
    BY <1>1, <2>1 DEF Positions, Ending
<1>7. QED
  BY <1>1, <1>2, <1>3, <1>4, <1>5, <1>6

(* The first parts of a list.                                                *)
LEMMA FirstPart ==
  ASSUME NEW s, IsList(s)
  PROVE  /\ SubSeq(s, 1, 0) = <<>> /\ SubSeq(s, 1, Len(s)) = s /\ Len(s) \in Nat
         /\ \A j \in 1 .. Len(s) : Append(SubSeq(s, 1, j - 1), s[j]) = SubSeq(s, 1, j)
<1>1. PICK S : s \in Seq(S)
  BY DEF IsList
<1>2. SubSeq(s, 1, 0) = <<>>
  BY SubSeqEmpty
<1>3. SubSeq(s, 1, Len(s)) = s
  BY <1>1, SubSeqFull
<1>4. Len(s) \in Nat
  BY <1>1, LenProperties
<1>5. ASSUME NEW j \in 1 .. Len(s) PROVE Append(SubSeq(s, 1, j - 1), s[j]) = SubSeq(s, 1, j)
  <2>1. 1 \in 1 .. Len(s) /\ j \in 1 .. Len(s)
    BY <1>4
  <2>2. SubSeq(s, 1, j) = SubSeq(s, 1, j - 1) \o <<s[j]>>
    BY <1>1, <2>1, SubSeqRecursiveSecond
  <2>3. s[j] \in S /\ \A i \in 1 .. j - 1 : s[i] \in S
    <3>1. \A i \in 1 .. Len(s) : s[i] \in S
      BY <1>1, ElementOfSeq
    <3>2. QED
      BY <1>4, <3>1
  <2>4. SubSeq(s, 1, j - 1) \in Seq(S)
    BY <2>3, SubSeqProperties
  <2>5. QED
    BY <2>2, <2>3, <2>4, AppendIsConcat
<1>6. QED
  BY <1>2, <1>3, <1>4, <1>5

(* A field on the wire changes the field that it belongs to and no other.    *)
LEMMA PartOfFieldSteps ==
  ASSUME NEW m, Formed(m), NEW count, Positions(m, count), NEW n \in Slots(m.type),
         NEW k \in Nat \ {0}
  PROVE  /\ ~ (count[n - 1] < k /\ k <= count[n]) =>
              PartOfField(m, count, n, k) = PartOfField(m, count, n, k - 1)
         /\ count[n - 1] < k /\ k <= count[n] =>
              LET v == ValuesOf(m, n)[k - count[n - 1]] IN
              PartOfField(m, count, n, k) =
                CASE FieldOf(m, n).label = "repeated" -> Append(PartOfField(m, count, n, k - 1), v)
                  [] FieldOf(m, n).label = "singular" -> <<v>>
                  [] OTHER -> v
<1>1. PICK a \in Nat, b \in Nat, l \in Nat :
        a = count[n - 1] /\ b = count[n] /\ l = Len(ValuesOf(m, n)) /\ b = a + l
  BY SlotFacts, CountFacts, SMTT(60)
<1>2. CASE FieldOf(m, n).label \in {"singular", "repeated"}
  <2>1. PICK s : s = m.fields[n] /\ ValuesOf(m, n) = s /\ IsList(s) /\ Len(s) = l
    BY <1>1, <1>2, SlotValues
  <2>2. \A i : PartOfField(m, count, n, i) = SubSeq(s, 1, Among(i, a, b))
    BY <1>1, <1>2, <2>1 DEF PartOfField
  <2>3. CASE ~ (a < k /\ k <= b)
    <3>1. Among(k, a, b) = Among(k - 1, a, b)
      BY <1>1, <2>3 DEF Among
    <3>2. QED
      BY <1>1, <2>2, <2>3, <3>1
  <2>4. CASE a < k /\ k <= b
    <3>1. PICK j \in 1 .. l : j = k - a /\ Among(k, a, b) = j /\ Among(k - 1, a, b) = j - 1
      <4>1. k - a \in 1 .. l /\ Among(k, a, b) = k - a /\ Among(k - 1, a, b) = (k - a) - 1
        BY <1>1, <2>4 DEF Among
      <4>2. QED
        BY <4>1
    <3>2. PICK x : x = SubSeq(s, 1, j - 1) /\ SubSeq(s, 1, j) = Append(x, s[j])
      BY <2>1, <3>1, FirstPart, ZenonT(60)
    <3>3. PartOfField(m, count, n, k) = Append(x, s[j]) /\ PartOfField(m, count, n, k - 1) = x
      BY <2>2, <3>1, <3>2
    <3>4. FieldOf(m, n).label = "singular" => x = <<>> /\ Append(x, s[j]) = <<s[j]>>
      <4>1. SUFFICES ASSUME FieldOf(m, n).label = "singular" PROVE x = <<>> /\ Append(x, s[j]) = <<s[j]>>
        OBVIOUS
      <4>2. FieldHolds(FieldOf(m, n), s)
        BY <2>1, SlotFacts
      <4>3. l <= 1
        BY <2>1, <4>1, <4>2 DEF FieldHolds
      <4>4. j - 1 = 0
        BY <1>1, <3>1, <4>3
      <4>5. x = <<>>
        BY <2>1, <3>2, <4>4, FirstPart
      <4>6. QED
        BY <4>5
    <3>5. QED
      BY <1>1, <1>2, <2>1, <2>4, <3>1, <3>3, <3>4
  <2>5. QED
    BY <1>1, <2>3, <2>4
<1>3. CASE FieldOf(m, n).label = "plain"
  <2>1. \A i : PartOfField(m, count, n, i) = IF i >= b THEN m.fields[n] ELSE DefaultOf(FieldOf(m, n))
    BY <1>1, <1>3 DEF PartOfField
  <2>2. \/ l = 0 /\ m.fields[n] = DefaultOf(FieldOf(m, n))
        \/ l = 1 /\ ValuesOf(m, n)[1] = m.fields[n]
    BY <1>1, <1>3, SlotValues
  <2>3. CASE ~ (a < k /\ k <= b)
    <3>1. l = 0 \/ (k >= b <=> k - 1 >= b)
      BY <1>1, <2>2, <2>3
    <3>2. PartOfField(m, count, n, k) = PartOfField(m, count, n, k - 1)
      BY <2>1, <2>2, <3>1
    <3>3. QED
      BY <1>1, <2>3, <3>2
  <2>4. CASE a < k /\ k <= b
    <3>1. l = 1 /\ k - a = 1 /\ k >= b
      <4>1. l # 0
        BY <1>1, <2>4
      <4>2. l = 1
        BY <2>2, <4>1
      <4>3. QED
        BY <1>1, <2>4, <4>2
    <3>2. PartOfField(m, count, n, k) = m.fields[n] /\ ValuesOf(m, n)[k - a] = m.fields[n]
      BY <2>1, <2>2, <3>1
    <3>3. QED
      BY <1>1, <1>3, <2>4, <3>2
  <2>5. QED
    BY <1>1, <2>3, <2>4
<1>4. QED
  BY <1>2, <1>3, SlotFacts

(* Before the first field, the message is new.                               *)
LEMMA StartsNew ==
  ASSUME NEW m, Formed(m), NEW count, Positions(m, count)
  PROVE  PartOf(m, count, 0) = NewMessage(m.type)
<1>1. PICK L \in Nat : L = Len(Schema[m.type]) /\ count[L] \in Nat /\ Len(Present(m)) \in Nat
  <2>1. PICK L \in Nat : L = Len(Schema[m.type])
    BY SchemaIsWellFormed DEF Formed, IsFieldList
  <2>2. count[L] \in Nat
    BY <2>1 DEF Positions, Counts
  <2>3. QED
    BY <2>1, <2>2 DEF Positions, Ending
<1>2. ASSUME NEW n \in Slots(m.type)
      PROVE  PartOfField(m, count, n, 0) = DefaultOf(Schema[m.type][n])
  <2>1. PICK a \in Nat, b \in Nat, l \in Nat :
          a = count[n - 1] /\ b = count[n] /\ l = Len(ValuesOf(m, n)) /\ b = a + l
    BY SlotFacts, CountFacts, SMTT(60)
  <2>2. PICK field : field = FieldOf(m, n) /\ field = Schema[m.type][n]
    BY DEF FieldOf
  <2>3. CASE field.label \in {"singular", "repeated"}
    <3>1. IsList(m.fields[n])
      BY <2>2, <2>3, SlotValues
    <3>2. Among(0, a, b) = 0
      BY <2>1 DEF Among
    <3>3. PartOfField(m, count, n, 0) = SubSeq(m.fields[n], 1, 0)
      BY <2>1, <2>2, <2>3, <3>2 DEF PartOfField
    <3>4. SubSeq(m.fields[n], 1, 0) = <<>>
      BY <3>1, FirstPart
    <3>5. QED
      <4>1. DefaultOf(field) = <<>>
        <5>1. field.kind = "message"
          BY <2>2, <2>3, SlotFacts, ZenonT(60) DEF IsField
        <5>2. QED
          BY <2>3, <5>1 DEF DefaultOf
      <4>2. QED
        BY <2>2, <3>3, <3>4, <4>1
  <2>4. CASE field.label = "plain"
    <3>1. PartOfField(m, count, n, 0) = IF 0 >= b THEN m.fields[n] ELSE DefaultOf(field)
      BY <2>1, <2>2, <2>4 DEF PartOfField
    <3>2. l = 0 => m.fields[n] = DefaultOf(field)
      <4>1. \/ Len(ValuesOf(m, n)) = 0 /\ m.fields[n] = DefaultOf(FieldOf(m, n))
            \/ Len(ValuesOf(m, n)) = 1 /\ ValuesOf(m, n)[1] = m.fields[n]
        BY <2>2, <2>4, SlotValues
      <4>2. QED
        BY <2>1, <2>2, <4>1
    <3>3. 0 >= b => l = 0
      BY <2>1
    <3>4. QED
      BY <2>2, <3>1, <3>2, <3>3
  <2>5. QED
    BY <2>2, <2>3, <2>4, SlotFacts, ZenonT(60)
<1>3. SubSeq(m.unknown, 1, Among(0, Len(Present(m)), Len(Present(m)) + Len(m.unknown))) = <<>>
  <2>1. PICK p \in Nat, l \in Nat : p = Len(Present(m)) /\ l = Len(m.unknown) /\ IsList(m.unknown)
    BY <1>1, ListLength DEF Formed, HoldsUnknown
  <2>2. Among(0, p, p + l) = 0
    BY <2>1 DEF Among
  <2>3. QED
    BY <2>1, <2>2, FirstPart
<1>4. [n \in Slots(m.type) |-> PartOfField(m, count, n, 0)]
        = [n \in Slots(m.type) |-> DefaultOf(Schema[m.type][n])]
  BY <1>2
<1>5. NewMessage(m.type) = [type |-> m.type, oneof |-> <<>>, unknown |-> <<>>,
                            fields |-> [n \in Slots(m.type) |-> DefaultOf(Schema[m.type][n])]]
  BY DEF NewMessage, Slots
<1>6. (IF 0 > count[Len(Schema[m.type])] THEN m.oneof ELSE <<>>) = <<>>
  BY <1>1
<1>7. QED
  BY <1>3, <1>4, <1>5, <1>6 DEF PartOf

(* After the last one, it is the message that was written.                   *)
LEMMA EndsWhole ==
  ASSUME NEW m, Formed(m), NEW count, Positions(m, count)
  PROVE  PartOf(m, count, Len(Present(m)) + Len(m.unknown)) = m
<1>1. PICK L \in Nat : L = Len(Schema[m.type]) /\ count[L] \in Nat
  <2>1. PICK L \in Nat : L = Len(Schema[m.type])
    BY SchemaIsWellFormed DEF Formed, IsFieldList
  <2>2. count[L] \in Nat
    BY <2>1 DEF Positions, Counts
  <2>3. QED
    BY <2>1, <2>2 DEF Positions, Ending
<1>2. PICK p \in Nat, u \in Nat :
        /\ p = Len(Present(m)) /\ u = Len(m.unknown) /\ IsList(m.unknown)
        /\ m.oneof = <<>> => p = count[L]
        /\ m.oneof # <<>> => p = count[L] + 1
  <2>1. IsList(m.unknown) /\ Len(m.unknown) \in Nat
    BY ListLength DEF Formed, HoldsUnknown
  <2>2. Ending(m, count[L])
    BY <1>1 DEF Positions
  <2>3. QED
    BY <2>1, <2>2 DEF Ending
<1>3. PICK k \in Nat : k = p + u
  OBVIOUS
<1>4. ASSUME NEW n \in Slots(m.type)
      PROVE  PartOfField(m, count, n, k) = m.fields[n]
  <2>1. PICK a \in Nat, b \in Nat, l \in Nat :
          a = count[n - 1] /\ b = count[n] /\ l = Len(ValuesOf(m, n)) /\ b = a + l
    <3>1. n \in DOMAIN Schema[m.type]
      BY SlotFacts
    <3>2. /\ count[n - 1] \in Nat /\ count[n] \in Nat /\ Len(ValuesOf(m, n)) \in Nat
          /\ count[n] = count[n - 1] + Len(ValuesOf(m, n))
      BY <3>1, CountFacts
    <3>3. QED
      BY <3>2
  <2>2. k >= b
    <3>1. b <= count[L] /\ count[L] <= p
      <4>1. n \in DOMAIN Schema[m.type]
        BY SlotFacts
      <4>2. /\ count[n] <= count[Len(Schema[m.type])]
            /\ count[Len(Schema[m.type])] <= Len(Present(m))
        BY <4>1, CountFacts
      <4>3. QED
        BY <1>1, <1>2, <2>1, <4>2
    <3>2. QED
      BY <1>1, <1>2, <1>3, <2>1, <3>1
  <2>3. CASE FieldOf(m, n).label \in {"singular", "repeated"}
    <3>1. IsList(m.fields[n]) /\ l = Len(m.fields[n])
      BY <2>1, <2>3, SlotValues
    <3>2. Among(k, a, b) = l
      BY <1>3, <2>1, <2>2 DEF Among
    <3>3. PartOfField(m, count, n, k) = SubSeq(m.fields[n], 1, l)
      BY <2>1, <2>3, <3>2 DEF PartOfField
    <3>4. QED
      BY <3>1, <3>3, FirstPart
  <2>4. CASE FieldOf(m, n).label = "plain"
    BY <2>1, <2>2, <2>4 DEF PartOfField
  <2>5. QED
    BY <2>3, <2>4, SlotFacts
<1>5. SubSeq(m.unknown, 1, Among(k, p, p + u)) = m.unknown
  <2>1. Among(k, p, p + u) = u
    BY <1>3 DEF Among
  <2>2. QED
    BY <1>2, <2>1, FirstPart
<1>6. (IF k > count[L] THEN m.oneof ELSE <<>>) = m.oneof
  BY <1>1, <1>2, <1>3
<1>7. [n \in Slots(m.type) |-> PartOfField(m, count, n, k)] = m.fields
  <2>1. m.fields = [n \in Slots(m.type) |-> m.fields[n]]
    BY DEF Formed, HoldsFields
  <2>2. QED
    BY <1>4, <2>1, Zenon
<1>8. m = [type |-> m.type, fields |-> m.fields, oneof |-> m.oneof, unknown |-> m.unknown]
  BY DEF Formed
<1>9. PartOf(m, count, k) = [type |-> m.type, fields |-> m.fields, oneof |-> m.oneof, unknown |-> m.unknown]
  BY <1>1, <1>2, <1>5, <1>6, <1>7, Zenon DEF PartOf
<1>10. QED
  BY <1>2, <1>3, <1>8, <1>9

-----------------------------------------------------------------------------
(***************************************************************************)
(* Each round of merge_from reads the next field.                          *)
(***************************************************************************)

(* A message with its four parts.                                            *)
Message(t, f, o, u) == [type |-> t, fields |-> f, oneof |-> o, unknown |-> u]

(* The type of a message.                                                    *)
LEMMA MessageType ==
  ASSUME NEW t, NEW f, NEW o, NEW u, NEW x, x = Message(t, f, o, u)
  PROVE  x.type = t
BY DEF Message

(* A message whose oneof is replaced.                                        *)
LEMMA OneofChange ==
  ASSUME NEW t, NEW f, NEW o, NEW u, NEW x, x = Message(t, f, o, u), NEW w
  PROVE  [x EXCEPT !.oneof = w] = Message(t, f, w, u)
BY DEF Message

(* A message which keeps one more unknown field.                             *)
LEMMA UnknownAppend ==
  ASSUME NEW t, NEW f, NEW o, NEW u, NEW n, NEW w, NEW v
  PROVE  KeepUnknown(Message(t, f, o, u), n, w, v) =
           Message(t, f, o, Append(u, [number |-> n, wire_type |-> w, value |-> v]))
BY DEF KeepUnknown, Message

(* The part of a message which has been read after k fields is a message.    *)
LEMMA PartIsMessage ==
  ASSUME NEW m, NEW count, NEW k
  PROVE  PartOf(m, count, k) =
           Message(m.type, [n \in Slots(m.type) |-> PartOfField(m, count, n, k)],
                   IF k > count[Len(Schema[m.type])] THEN m.oneof ELSE <<>>,
                   SubSeq(m.unknown, 1,
                          Among(k, Len(Present(m)), Len(Present(m)) + Len(m.unknown))))
BY DEF PartOf, Message

(* Which field an entry belongs to.                                          *)
LEMMA EntryCases ==
  ASSUME NEW m, Formed(m), NEW count, Positions(m, count), NEW k \in 1 .. Len(Present(m))
  PROVE  \/ \E n \in Slots(m.type) :
              /\ count[n - 1] < k /\ k <= count[n] /\ k <= count[Len(Schema[m.type])]
              /\ k - count[n - 1] \in 1 .. Len(ValuesOf(m, n))
              /\ Present(m)[k] = <<n, ValuesOf(m, n)[k - count[n - 1]]>>
         \/ /\ k = count[Len(Schema[m.type])] + 1 /\ m.oneof # <<>> /\ Present(m)[k] = m.oneof
            /\ k = Len(Present(m))
<1>1. PICK L \in Nat : L = Len(Schema[m.type]) /\ DOMAIN Schema[m.type] = 1 .. L
  BY SchemaIsWellFormed DEF Formed, IsFieldList
<1>2. count[L] \in Nat /\ Ending(m, count[L]) /\ Places(m, count)
  BY <1>1 DEF Positions, Counts
<1>3. CASE k <= count[L]
  <2>1. PICK n \in 1 .. L : count[n - 1] < k /\ k <= count[n]
    BY <1>1, <1>2, <1>3 DEF Places
  <2>2. PICK a \in Nat, b \in Nat, l \in Nat :
          a = count[n - 1] /\ b = count[n] /\ l = Len(ValuesOf(m, n)) /\ b = a + l
    <3>1. n \in DOMAIN Schema[m.type]
      BY <1>1
    <3>2. /\ count[n - 1] \in Nat /\ count[n] \in Nat /\ Len(ValuesOf(m, n)) \in Nat
          /\ count[n] = count[n - 1] + Len(ValuesOf(m, n))
      BY <3>1, CountFacts
    <3>3. QED
      BY <3>2
  <2>3. PICK j \in 1 .. l : j = k - a /\ k = a + j
    <3>1. k - a \in 1 .. l /\ k = a + (k - a)
      BY <1>2, <2>1, <2>2, SMTT(60)
    <3>2. QED
      BY <3>1
  <2>4. n \in Slots(m.type)
    <3>1. l # 0
      BY <2>2, <2>3
    <3>2. n \in DOMAIN Schema[m.type]
      BY <1>1
    <3>3. QED
      BY <2>2, <3>1, <3>2, WrittenValues
  <2>5. Present(m)[a + j] = <<n, ValuesOf(m, n)[j]>>
    BY <1>1, <1>2, <2>2 DEF Places
  <2>6. Present(m)[k] = <<n, ValuesOf(m, n)[k - a]>> /\ k - a \in 1 .. l
    BY <2>3, <2>5
  <2>7. QED
    BY <1>1, <1>3, <2>1, <2>2, <2>4, <2>6
<1>4. CASE ~ (k <= count[L])
  <2>1. m.oneof # <<>> /\ k = count[L] + 1 /\ k = Len(Present(m))
    BY <1>2, <1>4 DEF Ending
  <2>2. Present(m)[k] = m.oneof
    BY <1>2, <2>1 DEF Ending
  <2>3. QED
    BY <1>1, <2>1, <2>2
<1>5. QED
  BY <1>3, <1>4

(* The value that is written of an entry is one that its field can have.     *)
LEMMA EntryValue ==
  ASSUME NEW m, Formed(m), NEW k \in 1 .. Len(Present(m))
  PROVE  /\ Present(m)[k] = <<Present(m)[k][1], Present(m)[k][2]>>
         /\ Present(m)[k][1] \in DOMAIN Schema[m.type]
         /\ OneValue(FieldOf(m, Present(m)[k][1]), Present(m)[k][2])
<1>1. PICK count : Positions(m, count)
  BY PresentPositions
<1>2. CASE \E n \in Slots(m.type) :
              /\ k - count[n - 1] \in 1 .. Len(ValuesOf(m, n))
              /\ Present(m)[k] = <<n, ValuesOf(m, n)[k - count[n - 1]]>>
  <2>1. PICK n \in Slots(m.type) :
              /\ k - count[n - 1] \in 1 .. Len(ValuesOf(m, n))
              /\ Present(m)[k] = <<n, ValuesOf(m, n)[k - count[n - 1]]>>
    BY <1>2
  <2>2. n \in DOMAIN Schema[m.type]
    BY DEF Slots
  <2>3. PICK v : v = ValuesOf(m, n)[k - count[n - 1]] /\ OneValue(FieldOf(m, n), v)
    BY <2>1, <2>2, WrittenValues
  <2>4. Present(m)[k] = <<n, v>>
    BY <2>1, <2>3
  <2>5. Present(m)[k][1] = n /\ Present(m)[k][2] = v
    BY <2>4
  <2>6. QED
    BY <2>2, <2>3, <2>4, <2>5
<1>3. CASE m.oneof # <<>> /\ Present(m)[k] = m.oneof
  <2>0. PICK n \in DOMAIN Schema[m.type] :
          \E v : m.oneof = <<n, v>> /\ OneValue(Schema[m.type][n], v)
    BY <1>3 DEF Formed, HoldsOneof
  <2>1. PICK v : m.oneof = <<n, v>> /\ OneValue(Schema[m.type][n], v)
    BY <2>0
  <2>2. Present(m)[k] = <<n, v>>
    BY <1>3, <2>1
  <2>3. Present(m)[k][1] = n /\ Present(m)[k][2] = v
    BY <2>2
  <2>4. QED
    BY <2>1, <2>2, <2>3 DEF FieldOf
<1>4. QED
  BY <1>1, <1>2, <1>3, EntryCases

(* Storing the entries one after another makes up the message.               *)
LEMMA EntryIsStored ==
  ASSUME NEW m, Formed(m), NEW count, Positions(m, count), NEW k \in 1 .. Len(Present(m))
  PROVE  StoreField(PartOf(m, count, k - 1), Present(m)[k][1], Present(m)[k][2])
           = PartOf(m, count, k)
<1>1. PICK L \in Nat, c \in Nat, p \in Nat :
        L = Len(Schema[m.type]) /\ c = count[L] /\ p = Len(Present(m)) /\ c <= p
  <2>1. PICK L \in Nat : L = Len(Schema[m.type])
    BY SchemaIsWellFormed DEF Formed, IsFieldList
  <2>2. count[L] \in Nat /\ Ending(m, count[L])
    BY <2>1 DEF Positions, Counts
  <2>3. Len(Present(m)) \in Nat /\ count[L] <= Len(Present(m))
    BY <2>2 DEF Ending
  <2>4. QED
    BY <2>1, <2>2, <2>3
<1>2. k \in Nat \ {0} /\ k <= p
  BY <1>1
<1>3. PICK x : x = PartOf(m, count, k - 1)
  OBVIOUS
<1>4. PICK u : /\ u = SubSeq(m.unknown, 1, Among(k - 1, p, p + Len(m.unknown)))
               /\ u = SubSeq(m.unknown, 1, Among(k, p, p + Len(m.unknown)))
  <2>1. Among(k, p, p + Len(m.unknown)) = 0 /\ Among(k - 1, p, p + Len(m.unknown)) = 0
    BY <1>1, <1>2 DEF Among
  <2>2. QED
    BY <2>1
<1>5. PICK f, g : /\ f = [n \in Slots(m.type) |-> PartOfField(m, count, n, k - 1)]
                  /\ g = [n \in Slots(m.type) |-> PartOfField(m, count, n, k)]
  OBVIOUS
<1>6. PICK o, q : o = (IF k - 1 > c THEN m.oneof ELSE <<>>) /\ q = IF k > c THEN m.oneof ELSE <<>>
  OBVIOUS
<1>7. x = Message(m.type, f, o, u) /\ PartOf(m, count, k) = Message(m.type, g, q, u)
  BY <1>1, <1>3, <1>4, <1>5, <1>6, PartIsMessage
<1>8. x.type = m.type
  BY <1>7, MessageType
<1>9. \A n : FieldOf(x, n) = FieldOf(m, n)
  BY <1>8 DEF FieldOf
<1>10. CASE \E n \in Slots(m.type) :
              /\ count[n - 1] < k /\ k <= count[n] /\ k <= count[Len(Schema[m.type])]
              /\ k - count[n - 1] \in 1 .. Len(ValuesOf(m, n))
              /\ Present(m)[k] = <<n, ValuesOf(m, n)[k - count[n - 1]]>>
  <2>1. PICK n \in Slots(m.type) :
              /\ count[n - 1] < k /\ k <= count[n] /\ k <= c
              /\ k - count[n - 1] \in 1 .. Len(ValuesOf(m, n))
              /\ Present(m)[k] = <<n, ValuesOf(m, n)[k - count[n - 1]]>>
    BY <1>1, <1>10
  <2>2. PICK v : v = ValuesOf(m, n)[k - count[n - 1]]
    OBVIOUS
  <2>3. Present(m)[k][1] = n /\ Present(m)[k][2] = v
    BY <2>1, <2>2
  <2>4. o = <<>> /\ q = <<>>
    BY <1>1, <1>2, <1>6, <2>1
  <2>5. /\ FieldOf(m, n).label = "repeated" => g[n] = Append(f[n], v)
        /\ FieldOf(m, n).label = "singular" => g[n] = <<v>>
        /\ FieldOf(m, n).label = "plain" => g[n] = v
    <3>1. f[n] = PartOfField(m, count, n, k - 1) /\ g[n] = PartOfField(m, count, n, k)
      BY <1>5
    <3>2. PartOfField(m, count, n, k) =
                CASE FieldOf(m, n).label = "repeated" -> Append(PartOfField(m, count, n, k - 1), v)
                  [] FieldOf(m, n).label = "singular" -> <<v>>
                  [] OTHER -> v
      BY <1>2, <2>1, <2>2, PartOfFieldSteps, SMTT(60)
    <3>3. QED
      BY <3>1, <3>2
  <2>6. g = [f EXCEPT ![n] = g[n]]
    <3>1. ASSUME NEW i \in Slots(m.type), i # n PROVE g[i] = f[i]
      <4>1. ~ (count[i - 1] < k /\ k <= count[i])
        <5>1. PICK N \in Nat : N = L /\ DOMAIN Schema[m.type] = 1 .. N
          BY <1>1, SchemaIsWellFormed DEF Formed, IsFieldList
        <5>2. i \in 1 .. N /\ n \in 1 .. N
          BY <5>1 DEF Slots
        <5>3. /\ count[i - 1] \in Nat /\ count[i] \in Nat /\ count[n - 1] \in Nat /\ count[n] \in Nat
          BY <5>1, <5>2, CountFacts
        <5>4. Ascending(count, N)
          BY <1>1, <5>1 DEF Positions
        <5>5. CASE i < n
          <6>1. i \in 0 .. N /\ n - 1 \in 0 .. N /\ i <= n - 1
            BY <5>2, <5>5
          <6>2. count[i] <= count[n - 1]
            BY <5>4, <6>1 DEF Ascending
          <6>3. QED
            BY <1>2, <2>1, <5>3, <6>2
        <5>6. CASE n < i
          <6>1. n \in 0 .. N /\ i - 1 \in 0 .. N /\ n <= i - 1
            BY <5>2, <5>6
          <6>2. count[n] <= count[i - 1]
            BY <5>4, <6>1 DEF Ascending
          <6>3. QED
            BY <1>2, <2>1, <5>3, <6>2
        <5>7. QED
          BY <3>1, <5>2, <5>5, <5>6
      <4>2. PartOfField(m, count, i, k) = PartOfField(m, count, i, k - 1)
        BY <1>2, <4>1, PartOfFieldSteps
      <4>3. QED
        BY <1>5, <4>2
    <3>2. QED
      BY <1>5, <3>1
  <2>7. PICK w : w = g[n]
    OBVIOUS
  <2>8. PartOf(m, count, k) = Message(m.type, [f EXCEPT ![n] = w], o, u)
    BY <1>7, <2>4, <2>6, <2>7
  <2>9. FieldOf(m, n).label \in {"plain", "singular", "repeated"}
    BY SlotFacts
  <2>10. CASE FieldOf(m, n).label = "repeated"
    <3>1. StoreField(x, n, v) = [x EXCEPT !.fields[n] = Append(@, v)]
      BY <1>9, <2>10 DEF StoreField
    <3>2. [x EXCEPT !.fields[n] = Append(@, v)] = Message(m.type, [f EXCEPT ![n] = Append(f[n], v)], o, u)
      BY <1>7, SMTT(60) DEF Message
    <3>3. QED
      BY <1>3, <2>3, <2>5, <2>7, <2>8, <2>10, <3>1, <3>2
  <2>11. CASE FieldOf(m, n).label = "singular"
    <3>1. StoreField(x, n, v) = [x EXCEPT !.fields[n] = <<v>>]
      BY <1>9, <2>11 DEF StoreField, Set
    <3>2. [x EXCEPT !.fields[n] = <<v>>] = Message(m.type, [f EXCEPT ![n] = <<v>>], o, u)
      BY <1>7 DEF Message
    <3>3. QED
      BY <1>3, <2>3, <2>5, <2>7, <2>8, <2>11, <3>1, <3>2
  <2>12. CASE FieldOf(m, n).label = "plain"
    <3>1. StoreField(x, n, v) = [x EXCEPT !.fields[n] = v]
      BY <1>9, <2>12 DEF StoreField, Set
    <3>2. [x EXCEPT !.fields[n] = v] = Message(m.type, [f EXCEPT ![n] = v], o, u)
      BY <1>7 DEF Message
    <3>3. QED
      BY <1>3, <2>3, <2>5, <2>7, <2>8, <2>12, <3>1, <3>2
  <2>13. QED
    BY <2>9, <2>10, <2>11, <2>12
<1>11. CASE /\ k = count[Len(Schema[m.type])] + 1 /\ m.oneof # <<>> /\ Present(m)[k] = m.oneof
            /\ k = Len(Present(m))
  <2>0. PICK n \in DOMAIN Schema[m.type] \ Slots(m.type) : \E v : m.oneof = <<n, v>>
    BY <1>11 DEF Formed, HoldsOneof
  <2>1. PICK v : m.oneof = <<n, v>>
    BY <2>0
  <2>2. Present(m)[k][1] = n /\ Present(m)[k][2] = v
    BY <1>11, <2>1
  <2>3. FieldOf(m, n).label = "oneof"
    BY SMTT(60) DEF Slots, FieldOf
  <2>4. StoreField(x, n, v) = [x EXCEPT !.oneof = <<n, v>>]
    BY <1>9, <2>3 DEF StoreField, Set
  <2>5. [x EXCEPT !.oneof = <<n, v>>] = Message(m.type, f, <<n, v>>, u)
    BY <1>7, OneofChange
  <2>6. q = <<n, v>>
    BY <1>1, <1>6, <1>11, <2>1
  <2>7. g = f
    <3>1. ASSUME NEW i \in Slots(m.type) PROVE g[i] = f[i]
      <4>1. i \in DOMAIN Schema[m.type]
        BY SlotFacts
      <4>2. count[i] \in Nat /\ count[i] <= c
        BY <1>1, <4>1, CountFacts
      <4>3. ~ (k <= count[i])
        BY <1>1, <1>11, <4>2
      <4>4. PartOfField(m, count, i, k) = PartOfField(m, count, i, k - 1)
        BY <1>2, <4>3, PartOfFieldSteps
      <4>5. QED
        BY <1>5, <4>4
    <3>2. QED
      BY <1>5, <3>1
  <2>8. QED
    BY <1>3, <1>7, <2>2, <2>4, <2>5, <2>6, <2>7
<1>12. QED
  BY <1>10, <1>11, EntryCases

(* So does keeping those that are not known.                                 *)
LEMMA UnknownIsKept ==
  ASSUME NEW m, Formed(m), NEW count, Positions(m, count), NEW j \in 1 .. Len(m.unknown)
  PROVE  LET k == Len(Present(m)) + j
             e == m.unknown[j]
         IN  KeepUnknown(PartOf(m, count, k - 1), e.number, e.wire_type, e.value)
               = PartOf(m, count, k)
<1>1. PICK L \in Nat, c \in Nat, p \in Nat :
        L = Len(Schema[m.type]) /\ c = count[L] /\ p = Len(Present(m)) /\ c <= p
        /\ (m.oneof = <<>> \/ c < p)
  <2>1. PICK L \in Nat : L = Len(Schema[m.type])
    BY SchemaIsWellFormed DEF Formed, IsFieldList
  <2>2. count[L] \in Nat /\ Ending(m, count[L])
    BY <2>1 DEF Positions, Counts
  <2>3. /\ Len(Present(m)) \in Nat /\ count[L] <= Len(Present(m))
        /\ (m.oneof = <<>> \/ count[L] < Len(Present(m)))
    BY <2>2 DEF Ending
  <2>4. QED
    BY <2>1, <2>2, <2>3
<1>2. PICK l \in Nat : l = Len(m.unknown) /\ IsList(m.unknown)
  BY ListLength DEF Formed, HoldsUnknown
<1>3. PICK k \in Nat \ {0} : k = p + j /\ k > p /\ k - 1 >= p
  <2>1. p + j \in Nat \ {0} /\ p + j > p /\ (p + j) - 1 >= p
    BY <1>1, <1>2
  <2>2. QED
    BY <2>1
<1>4. PICK e : /\ e = m.unknown[j]
               /\ e = [number |-> e.number, wire_type |-> e.wire_type, value |-> e.value]
  BY DEF Formed, HoldsUnknown, IsUnknown
<1>5. PICK u : /\ u = SubSeq(m.unknown, 1, Among(k - 1, p, p + l))
               /\ SubSeq(m.unknown, 1, Among(k, p, p + l)) = Append(u, e)
  <2>1. Among(k, p, p + l) = j /\ Among(k - 1, p, p + l) = j - 1
    BY <1>1, <1>2, <1>3 DEF Among
  <2>2. Append(SubSeq(m.unknown, 1, j - 1), m.unknown[j]) = SubSeq(m.unknown, 1, j)
    BY <1>2, FirstPart
  <2>3. QED
    BY <1>4, <2>1, <2>2
<1>6. PICK f, g : /\ f = [n \in Slots(m.type) |-> PartOfField(m, count, n, k - 1)]
                  /\ g = [n \in Slots(m.type) |-> PartOfField(m, count, n, k)]
  OBVIOUS
<1>7. g = f
  <2>1. ASSUME NEW i \in Slots(m.type) PROVE g[i] = f[i]
    <3>1. i \in DOMAIN Schema[m.type]
      BY SlotFacts
    <3>2. count[i] \in Nat /\ count[i] <= c
      BY <1>1, <3>1, CountFacts
    <3>3. ~ (k <= count[i])
      BY <1>1, <1>3, <3>2
    <3>4. PartOfField(m, count, i, k) = PartOfField(m, count, i, k - 1)
      BY <3>3, PartOfFieldSteps
    <3>5. QED
      BY <1>6, <3>4
  <2>2. QED
    BY <1>6, <2>1
<1>8. (IF k - 1 > c THEN m.oneof ELSE <<>>) = m.oneof /\ (IF k > c THEN m.oneof ELSE <<>>) = m.oneof
  BY <1>1, <1>3
<1>9. PICK x : x = PartOf(m, count, k - 1)
  OBVIOUS
<1>10. x = Message(m.type, f, m.oneof, u) /\ PartOf(m, count, k) = Message(m.type, f, m.oneof, Append(u, e))
  BY <1>1, <1>2, <1>5, <1>6, <1>7, <1>8, <1>9, PartIsMessage
<1>11. KeepUnknown(x, e.number, e.wire_type, e.value)
         = Message(m.type, f, m.oneof,
                   Append(u, [number |-> e.number, wire_type |-> e.wire_type, value |-> e.value]))
  BY <1>10, UnknownAppend
<1>12. KeepUnknown(x, e.number, e.wire_type, e.value)
         = Message(m.type, f, m.oneof, Append(u, e))
  BY <1>4, <1>11, Zenon
<1>13. QED
  BY <1>1, <1>3, <1>4, <1>9, <1>10, <1>12

(* A function on 1 .. n is a list of length n.                               *)
LEMMA ListByIndex ==
  ASSUME NEW n \in Nat, NEW f, f = [k \in 1 .. n |-> f[k]]
  PROVE  IsList(f) /\ Len(f) = n
<1>1. PICK S : S = {f[k] : k \in 1 .. n}
  OBVIOUS
<1>2. f \in [1 .. n -> S]
  BY <1>1
<1>3. f \in Seq(S)
  <2>1. Seq(S) = UNION {[1 .. i -> S] : i \in Nat}
    BY SeqDef
  <2>2. QED
    BY <1>2, <2>1
<1>4. DOMAIN f = 1 .. Len(f) /\ Len(f) \in Nat /\ DOMAIN f = 1 .. n
  BY <1>2, <1>3, LenProperties
<1>5. QED
  BY <1>3, <1>4 DEF IsList

(* Two lists joined.                                                         *)
LEMMA ListsJoined ==
  ASSUME NEW a, NEW b, IsList(a), IsList(b)
  PROVE  /\ IsList(a \o b) /\ Len(a \o b) = Len(a) + Len(b)
         /\ \A j \in 1 .. Len(a) : (a \o b)[j] = a[j]
         /\ \A j \in 1 .. Len(b) : (a \o b)[Len(a) + j] = b[j]
<1>1. PICK S, T : a \in Seq(S) /\ b \in Seq(T)
  BY DEF IsList
<1>2. PICK U : U = S \cup T
  OBVIOUS
<1>3. a \in Seq(U) /\ b \in Seq(U)
  <2>1. S \subseteq U /\ T \subseteq U
    BY <1>2
  <2>2. QED
    BY <1>1, <2>1, SeqMonotonic
<1>4. /\ a \o b \in Seq(U) /\ Len(a \o b) = Len(a) + Len(b)
      /\ \A j \in 1 .. Len(a) : (a \o b)[j] = a[j]
      /\ \A j \in 1 .. Len(b) : (a \o b)[Len(a) + j] = b[j]
  BY <1>3, Joined
<1>5. IsList(a \o b)
  BY <1>4 DEF IsList
<1>6. QED
  BY <1>4, <1>5

(* The fields that are written: those that are known, then the others.       *)
LEMMA FieldsWritten ==
  ASSUME NEW m, NEW nested, Formed(m)
  PROVE  LET fields == OnWire(m, nested)
             p == Len(Present(m))
         IN  /\ p \in Nat /\ Len(m.unknown) \in Nat /\ Len(fields) = p + Len(m.unknown)
             /\ \A k \in 1 .. p :
                  fields[k] = FieldOnWire(m, Present(m)[k][1], Present(m)[k][2], nested[k])
             /\ \A j \in 1 .. Len(m.unknown) : fields[p + j] = UnknownOnWire(m.unknown[j])
<1>1. PICK p \in Nat : p = Len(Present(m))
  BY PresentPositions DEF Positions, Ending
<1>2. PICK l \in Nat : l = Len(m.unknown)
  BY ListLength DEF Formed, HoldsUnknown
<1>3. PICK a : a = [k \in 1 .. p |-> FieldOnWire(m, Present(m)[k][1], Present(m)[k][2], nested[k])]
  OBVIOUS
<1>4. PICK b : b = [k \in 1 .. l |-> UnknownOnWire(m.unknown[k])]
  OBVIOUS
<1>5. OnWire(m, nested) = a \o b
  BY <1>1, <1>2, <1>3, <1>4 DEF OnWire
<1>6. IsList(a) /\ Len(a) = p
  <2>1. a = [k \in 1 .. p |-> a[k]]
    BY <1>3
  <2>2. QED
    BY <2>1, ListByIndex
<1>7. IsList(b) /\ Len(b) = l
  <2>1. b = [k \in 1 .. l |-> b[k]]
    BY <1>4
  <2>2. QED
    BY <2>1, ListByIndex
<1>8. PICK c : /\ c = a \o b /\ Len(c) = p + l
               /\ \A j \in 1 .. p : c[j] = a[j]
               /\ \A j \in 1 .. l : c[p + j] = b[j]
  <2>1. /\ Len(a \o b) = p + l
        /\ \A j \in 1 .. p : (a \o b)[j] = a[j]
        /\ \A j \in 1 .. l : (a \o b)[p + j] = b[j]
    BY <1>6, <1>7, ListsJoined
  <2>2. QED
    BY <2>1
<1>9. \A k \in 1 .. p : c[k] = FieldOnWire(m, Present(m)[k][1], Present(m)[k][2], nested[k])
  BY <1>3, <1>8
<1>10. \A j \in 1 .. l : c[p + j] = UnknownOnWire(m.unknown[j])
  BY <1>4, <1>8
<1>11. QED
  BY <1>1, <1>2, <1>5, <1>8, <1>9, <1>10

(* Each nested message is read back from what it has serialised to.          *)
NestedAreRead(m, nested, parsed) ==
  \A k \in 1 .. Len(Present(m)) :
    IsNested(m, Present(m)[k][1]) =>
      /\ nested[k].bytes \in Seq(Byte) /\ nested[k].size = Len(nested[k].bytes)
      /\ parsed[Present(m)[k][2].type][nested[k].bytes] = Ok(Present(m)[k][2], <<>>)

(* An entry is one field on the wire, which stands for the entry's value.    *)
LEMMA EntryOnWire ==
  ASSUME NEW m, NEW nested, NEW parsed, Formed(m), NestedAreRead(m, nested, parsed),
         NEW k \in 1 .. Len(Present(m)), NEW n, NEW v, n = Present(m)[k][1], v = Present(m)[k][2]
  PROVE  LET f == FieldOnWire(m, n, v, nested[k]) IN
         /\ IsOnWire(f) /\ f.number = n /\ f.wire_type = WireTypeOf(FieldOf(m, n))
         /\ StandsFor(f.value, FieldOf(m, n), v, parsed)
<1>1. n \in DOMAIN Schema[m.type] /\ OneValue(FieldOf(m, n), v)
  BY EntryValue
<1>2. PICK field : field = FieldOf(m, n) /\ IsField(field) /\ n \in 1 .. 15
  BY <1>1, SchemaField DEF FieldOf, Formed
<1>3. PICK f : f = FieldOnWire(m, n, v, nested[k])
  OBVIOUS
<1>4. f.number = n /\ f.wire_type = WireTypeOf(field)
  BY <1>2, <1>3 DEF FieldOnWire
<1>5. CASE field.kind = "uint"
  <2>1. f.value = v
    BY <1>2, <1>3, <1>5 DEF FieldOnWire
  <2>2. v \in Nat /\ f.wire_type = WireTypeVarint
    BY <1>1, <1>2, <1>4, <1>5 DEF OneValue, WireTypeOf
  <2>3. IsOnWire(f)
    BY <1>2, <1>4, <2>1, <2>2 DEF IsOnWire
  <2>4. StandsFor(f.value, field, v, parsed)
    BY <1>5, <2>1 DEF StandsFor
  <2>5. QED
    BY <1>2, <1>3, <1>4, <2>3, <2>4
<1>6. CASE field.kind = "bool"
  <2>1. f.value = IF v THEN 1 ELSE 0
    BY <1>2, <1>3, <1>6 DEF FieldOnWire
  <2>2. v \in BOOLEAN /\ f.wire_type = WireTypeVarint
    BY <1>1, <1>2, <1>4, <1>6 DEF OneValue, WireTypeOf
  <2>3. f.value \in Nat
    BY <2>1
  <2>4. IsOnWire(f)
    BY <1>2, <1>4, <2>2, <2>3 DEF IsOnWire
  <2>5. StandsFor(f.value, field, v, parsed)
    BY <1>6, <2>1, <2>2 DEF StandsFor
  <2>6. QED
    BY <1>2, <1>3, <1>4, <2>4, <2>5
<1>7. CASE field.kind = "bytes"
  <2>1. f.value = v /\ f.size = Len(v)
    BY <1>2, <1>3, <1>7 DEF FieldOnWire
  <2>2. v \in Seq(Byte) /\ f.wire_type = WireTypeLengthDelimited
    BY <1>1, <1>2, <1>4, <1>7 DEF OneValue, WireTypeOf
  <2>3. IsOnWire(f)
    BY <1>2, <1>4, <2>1, <2>2 DEF IsOnWire
  <2>4. StandsFor(f.value, field, v, parsed)
    BY <1>7, <2>1 DEF StandsFor
  <2>5. QED
    BY <1>2, <1>3, <1>4, <2>3, <2>4
<1>8. CASE field.kind = "message"
  <2>1. f.value = nested[k].bytes /\ f.size = nested[k].size
    BY <1>2, <1>3, <1>8 DEF FieldOnWire
  <2>2. /\ nested[k].bytes \in Seq(Byte) /\ nested[k].size = Len(nested[k].bytes)
        /\ parsed[v.type][nested[k].bytes] = Ok(v, <<>>)
    <3>1. IsNested(m, n)
      BY <1>2, <1>8 DEF IsNested
    <3>2. QED
      BY <3>1 DEF NestedAreRead
  <2>3. v.type = field.type /\ f.wire_type = WireTypeLengthDelimited
    BY <1>1, <1>2, <1>4, <1>8 DEF OneValue, WireTypeOf
  <2>4. IsOnWire(f)
    BY <1>2, <1>4, <2>1, <2>2, <2>3 DEF IsOnWire
  <2>5. StandsFor(f.value, field, v, parsed)
    BY <1>8, <2>1, <2>2, <2>3 DEF StandsFor
  <2>6. QED
    BY <1>2, <1>3, <1>4, <2>4, <2>5
<1>9. QED
  BY <1>2, <1>5, <1>6, <1>7, <1>8 DEF IsField

(* What a message serialises to is read as the message.                      *)
IsReadFrom(m, s, parsed) ==
  /\ s.bytes \in Seq(Byte) /\ s.size = Len(s.bytes)
  /\ MergeFrom(NewMessage(m.type), s.bytes, parsed) = Ok(m, <<>>)

(* What a message serialises to is read back as that message.                *)
LEMMA WrittenIsRead ==
  ASSUME NEW m, NEW nested, NEW parsed, Formed(m), NestedAreRead(m, nested, parsed)
  PROVE  IsReadFrom(m, Serialised(m, nested), parsed)
<1>1. PICK F : F = OnWire(m, nested)
  OBVIOUS
<1>2. PICK p \in Nat, l \in Nat :
        /\ p = Len(Present(m)) /\ l = Len(m.unknown) /\ Len(F) = p + l
        /\ \A k \in 1 .. p : F[k] = FieldOnWire(m, Present(m)[k][1], Present(m)[k][2], nested[k])
        /\ \A j \in 1 .. l : F[p + j] = UnknownOnWire(m.unknown[j])
  BY <1>1, FieldsWritten, ZenonT(60)
<1>3. PICK N \in Nat : N = p + l /\ Len(F) = N
  BY <1>2
<1>4. ASSUME NEW k \in 1 .. N, ~ (k <= p) PROVE \E j \in 1 .. l : k = p + j
  <2>1. k - p \in 1 .. l /\ k = p + (k - p)
    BY <1>3, <1>4
  <2>2. QED
    BY <2>1
<1>5. \A j \in 1 .. l : IsUnknown(m.type, m.unknown[j])
  BY <1>2 DEF Formed, HoldsUnknown
<1>6. FieldsOnWire(F)
  <2>1. ASSUME NEW k \in 1 .. N PROVE IsOnWire(F[k])
    <3>1. CASE k <= p
      <4>1. k \in 1 .. p
        BY <3>1
      <4>2. PICK n, v : n = Present(m)[k][1] /\ v = Present(m)[k][2]
        OBVIOUS
      <4>3. IsOnWire(FieldOnWire(m, n, v, nested[k]))
        BY <1>2, <4>1, <4>2, EntryOnWire
      <4>4. QED
        BY <1>2, <4>1, <4>2, <4>3
    <3>2. CASE ~ (k <= p)
      <4>1. PICK j \in 1 .. l : k = p + j
        BY <1>4, <3>2
      <4>2. IsOnWire(UnknownOnWire(m.unknown[j]))
        BY <1>5 DEF IsUnknown
      <4>3. QED
        BY <1>2, <4>1, <4>2
    <3>3. QED
      BY <3>1, <3>2
  <2>2. QED
    BY <1>3, <2>1 DEF FieldsOnWire
<1>7. PICK left : Remaining(F, left) /\ Serialised(m, nested) = [size |-> Len(left[0]), bytes |-> left[0]]
  BY <1>1, <1>6, SerialisedIsDefined
<1>8. /\ left \in [0 .. N -> Seq(Byte)] /\ left[N] = <<>>
      /\ \A k \in 1 .. N : left[k - 1] = BytesOf(F[k]) \o left[k]
  BY <1>3, <1>7 DEF Remaining
<1>9. PICK count : Positions(m, count)
  BY PresentPositions
<1>10. PICK x : x = [k \in 0 .. N |-> PartOf(m, count, k)]
  OBVIOUS
<1>11. x[0] = NewMessage(m.type) /\ x[N] = m
  <2>1. x[0] = PartOf(m, count, 0) /\ x[N] = PartOf(m, count, p + l)
    BY <1>3, <1>10
  <2>2. PartOf(m, count, 0) = NewMessage(m.type) /\ PartOf(m, count, p + l) = m
    BY <1>2, <1>9, StartsNew, EndsWhole
  <2>3. QED
    BY <2>1, <2>2
<1>12. ASSUME NEW k \in 1 .. N
       PROVE  /\ left[k - 1] # <<>> /\ Len(left[k]) + 1 < Len(left[k - 1])
              /\ MergeField(x[k - 1], left[k - 1], parsed) = Ok(x[k], left[k])
  <2>1. PICK rest \in Seq(Byte) : rest = left[k]
    BY <1>8
  <2>2. left[k - 1] = BytesOf(F[k]) \o rest
    BY <1>8, <2>1
  <2>3. IsOnWire(F[k])
    BY <1>3, <1>6 DEF FieldsOnWire
  <2>4. PICK b \in Seq(Byte) : b = BytesOf(F[k]) /\ b # <<>> /\ Len(b) > 1
    BY <2>3, FieldIsRead, FieldBegins
  <2>5. left[k - 1] # <<>> /\ Len(left[k]) + 1 < Len(left[k - 1])
    <3>1. b \o rest # <<>> /\ Len(b \o rest) = Len(b) + Len(rest)
      BY <2>4, TakeFirst, ConcatProperties
    <3>2. Len(b) \in Nat \ {0} /\ Len(rest) \in Nat
      BY <2>4, EmptySeq, LenProperties
    <3>3. Len(rest) + 1 < Len(b \o rest)
      BY <2>4, <3>1, <3>2
    <3>4. QED
      BY <2>1, <2>2, <2>4, <3>1, <3>3
  <2>6. PICK y : y = PartOf(m, count, k - 1)
    OBVIOUS
  <2>7. x[k - 1] = y /\ x[k] = PartOf(m, count, k)
    BY <1>3, <1>10, <2>6
  <2>8. y.type = m.type /\ m.type \in DOMAIN Schema
    BY <2>6 DEF PartOf, Formed
  <2>9. MergeField(y, BytesOf(F[k]) \o rest, parsed) = Ok(PartOf(m, count, k), rest)
    <3>1. CASE k <= p
      <4>1. k \in 1 .. p
        BY <3>1
      <4>2. PICK n, v : n = Present(m)[k][1] /\ v = Present(m)[k][2]
        OBVIOUS
      <4>3. PICK f : f = FieldOnWire(m, n, v, nested[k]) /\ F[k] = f
        BY <1>2, <4>1, <4>2
      <4>4. /\ IsOnWire(f) /\ f.number = n /\ f.wire_type = WireTypeOf(FieldOf(m, n))
            /\ StandsFor(f.value, FieldOf(m, n), v, parsed)
        BY <1>2, <4>1, <4>2, <4>3, EntryOnWire, SMTT(60)
      <4>5. FieldOf(y, n) = FieldOf(m, n)
        BY <2>8 DEF FieldOf
      <4>6. n \in DOMAIN Schema[y.type]
        BY <1>2, <2>8, <4>1, <4>2, EntryValue
      <4>7. MergeField(y, BytesOf(f) \o rest, parsed) = Ok(StoreField(y, n, v), rest)
        BY <2>8, <4>4, <4>5, <4>6, KnownIsMerged
      <4>8. StoreField(y, n, v) = PartOf(m, count, k)
        BY <1>2, <1>9, <2>6, <4>1, <4>2, EntryIsStored
      <4>9. QED
        BY <4>3, <4>7, <4>8
    <3>2. CASE ~ (k <= p)
      <4>1. PICK j \in 1 .. l : k = p + j
        BY <1>4, <3>2
      <4>2. PICK e : e = m.unknown[j] /\ IsUnknown(m.type, e)
        BY <1>5
      <4>3. PICK f : f = UnknownOnWire(e) /\ F[k] = f
        BY <1>2, <4>1, <4>2
      <4>4. f.number = e.number /\ f.wire_type = e.wire_type /\ f.value = e.value
        BY <4>3 DEF UnknownOnWire
      <4>5. IsOnWire(f) /\ f.number \notin DOMAIN Schema[y.type]
        BY <2>8, <4>2, <4>3, <4>4 DEF IsUnknown
      <4>6. MergeField(y, BytesOf(f) \o rest, parsed)
              = Ok(KeepUnknown(y, f.number, f.wire_type, f.value), rest)
        BY <4>5, UnknownIsMerged
      <4>7. KeepUnknown(y, e.number, e.wire_type, e.value) = PartOf(m, count, k)
        BY <1>2, <1>9, <2>6, <4>1, <4>2, UnknownIsKept
      <4>8. QED
        BY <4>3, <4>4, <4>6, <4>7
    <3>3. QED
      BY <3>1, <3>2
  <2>10. QED
    BY <2>1, <2>2, <2>5, <2>7, <2>9
<1>13. MergeFrom(x[0], left[0], parsed) = Ok(x[N], <<>>)
  <2>1. Rounds(x, left, N, parsed)
    BY <1>12 DEF Rounds
  <2>2. QED
    BY <1>8, <2>1, RoundsAreTaken
<1>14. left[0] \in Seq(Byte)
  BY <1>3, <1>8
<1>15. Serialised(m, nested).bytes = left[0] /\ Serialised(m, nested).size = Len(left[0])
  BY <1>7
<1>16. QED
  BY <1>11, <1>13, <1>14, <1>15 DEF IsReadFrom

-----------------------------------------------------------------------------
(***************************************************************************)
(* Messages in messages, to the depth of four, and the round trip.         *)
(***************************************************************************)

(* The messages that a message holds.                                        *)
Holds(m, v) ==
  \/ \E n \in Slots(m.type) : IsNested(m, n) /\ \E j \in 1 .. Len(m.fields[n]) : v = m.fields[n][j]
  \/ m.oneof # <<>> /\ IsNested(m, m.oneof[1]) /\ v = m.oneof[2]

(* A nested message that is written is held by the message it is written     *)
(* in.                                                                       *)
LEMMA EntryIsHeld ==
  ASSUME NEW m, Formed(m), NEW k \in 1 .. Len(Present(m)), IsNested(m, Present(m)[k][1])
  PROVE  Holds(m, Present(m)[k][2])
<1>1. PICK count : Positions(m, count)
  BY PresentPositions
<1>2. CASE \E n \in Slots(m.type) :
              /\ k - count[n - 1] \in 1 .. Len(ValuesOf(m, n))
              /\ Present(m)[k] = <<n, ValuesOf(m, n)[k - count[n - 1]]>>
  <2>1. PICK n \in Slots(m.type), j \in Int :
              /\ j \in 1 .. Len(ValuesOf(m, n))
              /\ Present(m)[k] = <<n, ValuesOf(m, n)[j]>>
    <3>1. PICK n \in Slots(m.type) :
              /\ k - count[n - 1] \in 1 .. Len(ValuesOf(m, n))
              /\ Present(m)[k] = <<n, ValuesOf(m, n)[k - count[n - 1]]>>
      BY <1>2
    <3>2. k - count[n - 1] \in Int
      BY <3>1
    <3>3. QED
      BY <3>1, <3>2
  <2>2. Present(m)[k][1] = n /\ Present(m)[k][2] = ValuesOf(m, n)[j]
    BY <2>1
  <2>3. IsNested(m, n) /\ FieldOf(m, n).label \in {"singular", "repeated"}
    <3>1. IsNested(m, n)
      BY <2>2
    <3>2. IsField(FieldOf(m, n)) /\ FieldOf(m, n).label \in {"plain", "singular", "repeated"}
      BY SlotFacts
    <3>3. FieldOf(m, n).kind = "message"
      BY <3>1 DEF IsNested
    <3>4. QED
      BY <3>1, <3>2, <3>3 DEF IsField
  <2>4. ValuesOf(m, n) = m.fields[n]
    BY <2>3, SlotValues
  <2>5. QED
    BY <2>1, <2>2, <2>3, <2>4 DEF Holds
<1>3. CASE m.oneof # <<>> /\ Present(m)[k] = m.oneof
  <2>1. Present(m)[k][1] = m.oneof[1] /\ Present(m)[k][2] = m.oneof[2]
    BY <1>3
  <2>2. QED
    BY <1>3, <2>1 DEF Holds
<1>4. QED
  BY <1>1, <1>2, <1>3, EntryCases

(* How deep messages nest.                                                   *)
WellFormed0(m) == Formed(m) /\ \A v : ~ Holds(m, v)
WellFormed1(m) == Formed(m) /\ \A v : Holds(m, v) => WellFormed0(v)
WellFormed2(m) == Formed(m) /\ \A v : Holds(m, v) => WellFormed1(v)
WellFormed3(m) == Formed(m) /\ \A v : Holds(m, v) => WellFormed2(v)
WellFormed4(m) == Formed(m) /\ \A v : Holds(m, v) => WellFormed3(v)

(* A message that is well formed at one depth is well formed at the next.    *)
LEMMA Deeper ==
  ASSUME NEW m
  PROVE  /\ WellFormed0(m) => WellFormed1(m)
         /\ WellFormed1(m) => WellFormed2(m)
         /\ WellFormed2(m) => WellFormed3(m)
         /\ WellFormed3(m) => WellFormed4(m)
<1>1. \A x : WellFormed0(x) => WellFormed1(x)
  BY DEF WellFormed0, WellFormed1
<1>2. \A x : WellFormed1(x) => WellFormed2(x)
  BY <1>1 DEF WellFormed1, WellFormed2
<1>3. \A x : WellFormed2(x) => WellFormed3(x)
  BY <1>2 DEF WellFormed2, WellFormed3
<1>4. \A x : WellFormed3(x) => WellFormed4(x)
  BY <1>3 DEF WellFormed3, WellFormed4
<1>5. QED
  BY <1>1, <1>2, <1>3, <1>4

(* What parsing the bytes of a message gives.                                *)
IsParsed(m, s, parsed) ==
  /\ s.bytes \in Seq(Byte) /\ s.size = Len(s.bytes)
  /\ parsed[m.type][s.bytes] = Ok(m, <<>>)

(* parse_from_bytes merges the bytes into a new message.                     *)
LEMMA ParsedIsMerged ==
  ASSUME NEW nested, NEW type \in DOMAIN Schema, NEW bytes \in Seq(Byte)
  PROVE  Parsed(nested)[type][bytes] = MergeFrom(NewMessage(type), bytes, nested)
BY Zenon DEF Parsed

(* A message that is read back from its bytes is what they parse to.         *)
LEMMA ReadIsParsed ==
  ASSUME NEW m, NEW s, NEW nested, m.type \in DOMAIN Schema, IsReadFrom(m, s, nested)
  PROVE  IsParsed(m, s, Parsed(nested))
<1>1. PICK b \in Seq(Byte), t \in DOMAIN Schema : b = s.bytes /\ t = m.type
  BY DEF IsReadFrom
<1>2. Parsed(nested)[t][b] = MergeFrom(NewMessage(t), b, nested)
  BY ParsedIsMerged
<1>3. QED
  BY <1>1, <1>2 DEF IsReadFrom, IsParsed

(* A message whose nested messages are read back is read back itself.        *)
LEMMA NestedLevel ==
  ASSUME NEW m, NEW nested, NEW parsed, Formed(m),
         \A k \in 1 .. Len(Present(m)) :
           IsNested(m, Present(m)[k][1]) => IsParsed(Present(m)[k][2], nested[k], parsed)
  PROVE  IsParsed(m, Serialised(m, nested), Parsed(parsed))
<1>1. NestedAreRead(m, nested, parsed)
  BY DEF NestedAreRead, IsParsed
<1>2. IsReadFrom(m, Serialised(m, nested), parsed)
  BY <1>1, WrittenIsRead
<1>3. QED
  BY <1>2, ReadIsParsed DEF Formed

(* Messages without nested ones are read back ...                            *)
LEMMA Level0 ==
  ASSUME NEW m, WellFormed0(m)
  PROVE  IsParsed(m, Serialised0(m), Parsed0)
<1>1. PICK nested : Serialised0(m) = Serialised(m, nested)
  BY DEF Serialised0
<1>2. Formed(m)
  BY DEF WellFormed0
<1>3. \A k \in 1 .. Len(Present(m)) : ~ IsNested(m, Present(m)[k][1])
  BY <1>2, EntryIsHeld DEF WellFormed0
<1>4. IsParsed(m, Serialised(m, nested), Parsed(<<>>))
  BY <1>2, <1>3, NestedLevel
<1>5. QED
  BY <1>1, <1>4 DEF Parsed0

(* ... and those with messages of one level in them ...                      *)
LEMMA Level1 ==
  ASSUME NEW m, WellFormed1(m)
  PROVE  IsParsed(m, Serialised1(m), Parsed1)
<1>1. Formed(m)
  BY DEF WellFormed1
<1>2. PICK nested : nested = [k \in 1 .. Len(Present(m)) |->
     IF IsNested(m, Present(m)[k][1]) THEN Serialised0(Present(m)[k][2])
                                      ELSE [size |-> 0, bytes |-> <<>>]]
  OBVIOUS
<1>3. Serialised1(m) = Serialised(m, nested)
  BY <1>2, Zenon DEF Serialised1, NestedIn
<1>4. ASSUME NEW k \in 1 .. Len(Present(m)), IsNested(m, Present(m)[k][1])
      PROVE  IsParsed(Present(m)[k][2], nested[k], Parsed0)
  <2>1. PICK v : v = Present(m)[k][2]
    OBVIOUS
  <2>2. WellFormed0(v)
    BY <1>1, <1>4, <2>1, EntryIsHeld DEF WellFormed1
  <2>3. nested[k] = Serialised0(v)
    BY <1>2, <1>4, <2>1
  <2>4. QED
    BY <2>1, <2>2, <2>3, Level0
<1>5. IsParsed(m, Serialised(m, nested), Parsed(Parsed0))
  BY <1>1, <1>4, NestedLevel
<1>6. QED
  BY <1>3, <1>5 DEF Parsed1

(* ... of two levels ...                                                     *)
LEMMA Level2 ==
  ASSUME NEW m, WellFormed2(m)
  PROVE  IsParsed(m, Serialised2(m), Parsed2)
<1>1. Formed(m)
  BY DEF WellFormed2
<1>2. PICK nested : nested = [k \in 1 .. Len(Present(m)) |->
     IF IsNested(m, Present(m)[k][1]) THEN Serialised1(Present(m)[k][2])
                                      ELSE [size |-> 0, bytes |-> <<>>]]
  OBVIOUS
<1>3. Serialised2(m) = Serialised(m, nested)
  BY <1>2, Zenon DEF Serialised2, NestedIn
<1>4. ASSUME NEW k \in 1 .. Len(Present(m)), IsNested(m, Present(m)[k][1])
      PROVE  IsParsed(Present(m)[k][2], nested[k], Parsed1)
  <2>1. PICK v : v = Present(m)[k][2]
    OBVIOUS
  <2>2. WellFormed1(v)
    BY <1>1, <1>4, <2>1, EntryIsHeld DEF WellFormed2
  <2>3. nested[k] = Serialised1(v)
    BY <1>2, <1>4, <2>1
  <2>4. QED
    BY <2>1, <2>2, <2>3, Level1
<1>5. IsParsed(m, Serialised(m, nested), Parsed(Parsed1))
  BY <1>1, <1>4, NestedLevel
<1>6. QED
  BY <1>3, <1>5 DEF Parsed2

(* ... of three levels ...                                                   *)
LEMMA Level3 ==
  ASSUME NEW m, WellFormed3(m)
  PROVE  IsParsed(m, Serialised3(m), Parsed3)
<1>1. Formed(m)
  BY DEF WellFormed3
<1>2. PICK nested : nested = [k \in 1 .. Len(Present(m)) |->
     IF IsNested(m, Present(m)[k][1]) THEN Serialised2(Present(m)[k][2])
                                      ELSE [size |-> 0, bytes |-> <<>>]]
  OBVIOUS
<1>3. Serialised3(m) = Serialised(m, nested)
  BY <1>2, Zenon DEF Serialised3, NestedIn
<1>4. ASSUME NEW k \in 1 .. Len(Present(m)), IsNested(m, Present(m)[k][1])
      PROVE  IsParsed(Present(m)[k][2], nested[k], Parsed2)
  <2>1. PICK v : v = Present(m)[k][2]
    OBVIOUS
  <2>2. WellFormed2(v)
    BY <1>1, <1>4, <2>1, EntryIsHeld DEF WellFormed3
  <2>3. nested[k] = Serialised2(v)
    BY <1>2, <1>4, <2>1
  <2>4. QED
    BY <2>1, <2>2, <2>3, Level2
<1>5. IsParsed(m, Serialised(m, nested), Parsed(Parsed2))
  BY <1>1, <1>4, NestedLevel
<1>6. QED
  BY <1>3, <1>5 DEF Parsed3

(* ... and of four, the depth of a task result.                              *)
LEMMA Level4 ==
  ASSUME NEW m, WellFormed4(m)
  PROVE  IsParsed(m, Serialised4(m), Parsed4)
<1>1. Formed(m)
  BY DEF WellFormed4
<1>2. PICK nested : nested = [k \in 1 .. Len(Present(m)) |->
     IF IsNested(m, Present(m)[k][1]) THEN Serialised3(Present(m)[k][2])
                                      ELSE [size |-> 0, bytes |-> <<>>]]
  OBVIOUS
<1>3. Serialised4(m) = Serialised(m, nested)
  BY <1>2, Zenon DEF Serialised4, NestedIn
<1>4. ASSUME NEW k \in 1 .. Len(Present(m)), IsNested(m, Present(m)[k][1])
      PROVE  IsParsed(Present(m)[k][2], nested[k], Parsed3)
  <2>1. PICK v : v = Present(m)[k][2]
    OBVIOUS
  <2>2. WellFormed3(v)
    BY <1>1, <1>4, <2>1, EntryIsHeld DEF WellFormed4
  <2>3. nested[k] = Serialised3(v)
    BY <1>2, <1>4, <2>1
  <2>4. QED
    BY <2>1, <2>2, <2>3, Level3
<1>5. IsParsed(m, Serialised(m, nested), Parsed(Parsed3))
  BY <1>1, <1>4, NestedLevel
<1>6. QED
  BY <1>3, <1>5 DEF Parsed4

(* Whoever parses the bytes of a message has the message, and its computed   *)
(* size is the number of the bytes.                                          *)
THEOREM ParseWhatIsWritten ==
  ASSUME NEW m, WellFormed4(m)
  PROVE  /\ ParseFromBytes(m.type, WriteToBytes(m)) = Ok(m, <<>>)
         /\ WriteToBytes(m) \in Seq(Byte) /\ ComputeSize(m) = Len(WriteToBytes(m))
BY Level4 DEF IsParsed, ParseFromBytes, WriteToBytes, ComputeSize

-----------------------------------------------------------------------------
(***************************************************************************)
(* Setters and getters.                                                    *)
(***************************************************************************)

(* A field has a place of its own unless it belongs to a oneof.              *)
LEMMA Kinds ==
  ASSUME NEW m, m.type \in DOMAIN Schema, NEW n \in DOMAIN Schema[m.type]
  PROVE  /\ IsField(FieldOf(m, n)) /\ FieldOf(m, n) = Schema[m.type][n]
         /\ (n \in Slots(m.type) <=> FieldOf(m, n).label # "oneof")
         /\ (n \in Slots(m.type) <=> ~ IsOneof(m, n))
BY SchemaField DEF Slots, FieldOf, IsOneof

(* What a field may be set to.                                               *)
CanSet(field, v) ==
  IF field.label = "repeated" THEN IsList(v) /\ \A k \in 1 .. Len(v) : OneValue(field, v[k])
                              ELSE OneValue(field, v)

IsAmong(field, v, w) ==
  /\ field.kind = "message"
  /\ IF field.label = "repeated" THEN \E k \in 1 .. Len(v) : w = v[k] ELSE w = v

(* A new message is empty.                                                   *)
LEMMA NewIsFormed ==
  ASSUME NEW type \in DOMAIN Schema
  PROVE  /\ WellFormed0(NewMessage(type)) /\ NewMessage(type).type = type
         /\ NewMessage(type).unknown = <<>>
<1>1. PICK m : m = NewMessage(type)
  OBVIOUS
<1>2. m = Message(type, [n \in Slots(type) |-> DefaultOf(Schema[type][n])], <<>>, <<>>)
  BY <1>1 DEF NewMessage, Message, Slots
<1>3. /\ m.type = type /\ m.oneof = <<>> /\ m.unknown = <<>>
      /\ m.fields = [n \in Slots(type) |-> DefaultOf(Schema[type][n])]
      /\ m = [type |-> m.type, fields |-> m.fields, oneof |-> m.oneof, unknown |-> m.unknown]
  BY <1>2 DEF Message
<1>4. ASSUME NEW n \in Slots(type)
      PROVE  /\ FieldHolds(Schema[type][n], m.fields[n])
             /\ Schema[type][n].kind = "message" => m.fields[n] = <<>>
  <2>1. PICK field : field = Schema[type][n] /\ IsField(field) /\ field.label # "oneof"
    BY SchemaField DEF Slots
  <2>2. m.fields[n] = DefaultOf(field)
    BY <1>3, <2>1
  <2>3. CASE field.label \in {"singular", "repeated"}
    <3>1. DefaultOf(field) = <<>>
      BY <2>1, <2>3 DEF DefaultOf, IsField
    <3>2. FieldHolds(field, <<>>)
      BY <2>3, EmptyList DEF FieldHolds
    <3>3. QED
      BY <2>1, <2>2, <3>1, <3>2
  <2>4. CASE field.label = "plain"
    <3>1. field.kind \in {"uint", "bool", "bytes"}
      BY <2>1, <2>4 DEF IsField
    <3>2. OneValue(field, DefaultOf(field))
      <4>1. CASE field.kind = "uint"
        <5>1. DefaultOf(field) = 0
          BY <2>4, <4>1 DEF DefaultOf
        <5>2. QED
          BY <4>1, <5>1 DEF OneValue
      <4>2. CASE field.kind = "bool"
        <5>1. DefaultOf(field) = FALSE
          BY <2>4, <4>2 DEF DefaultOf
        <5>2. QED
          BY <4>2, <5>1 DEF OneValue
      <4>3. CASE field.kind = "bytes"
        <5>1. DefaultOf(field) = <<>>
          BY <2>4, <4>3 DEF DefaultOf
        <5>2. QED
          BY <4>3, <5>1, EmptySeq DEF OneValue
      <4>4. QED
        BY <3>1, <4>1, <4>2, <4>3
    <3>3. FieldHolds(field, DefaultOf(field))
      BY <2>4, <3>2 DEF FieldHolds
    <3>4. QED
      BY <2>1, <2>2, <3>1, <3>3
  <2>5. QED
    BY <2>1, <2>3, <2>4 DEF IsField
<1>5. HoldsFields(m)
  <2>1. m.fields = [n \in Slots(type) |-> m.fields[n]]
    BY <1>3
  <2>2. QED
    BY <1>3, <1>4, <2>1 DEF HoldsFields
<1>6. HoldsOneof(m) /\ HoldsUnknown(m)
  BY <1>3, EmptyList DEF HoldsOneof, HoldsUnknown
<1>7. Formed(m)
  BY <1>3, <1>5, <1>6 DEF Formed
<1>8. ASSUME NEW v, Holds(m, v) PROVE FALSE
  <2>1. PICK n \in Slots(type) : IsNested(m, n) /\ \E j \in 1 .. Len(m.fields[n]) : v = m.fields[n][j]
    BY <1>3, <1>8 DEF Holds
  <2>2. m.fields[n] = <<>>
    BY <1>3, <1>4, <2>1 DEF IsNested, FieldOf
  <2>3. QED
    BY <2>1, <2>2, EmptyList
<1>9. QED
  BY <1>1, <1>3, <1>7, <1>8 DEF WellFormed0

(* Setting a field of a message.                                             *)
LEMMA SetCases ==
  ASSUME NEW m, Formed(m), NEW n \in DOMAIN Schema[m.type], NEW v
  PROVE  /\ n \notin Slots(m.type) =>
              Set(m, n, v) = Message(m.type, m.fields, <<n, v>>, m.unknown)
         /\ n \in Slots(m.type) =>
              Set(m, n, v) =
                Message(m.type,
                        [m.fields EXCEPT ![n] = IF FieldOf(m, n).label = "singular" THEN <<v>> ELSE v],
                        m.oneof, m.unknown)
<1>1. m = Message(m.type, m.fields, m.oneof, m.unknown)
  BY DEF Formed, Message
<1>2. PICK t, f, o, u : t = m.type /\ f = m.fields /\ o = m.oneof /\ u = m.unknown
  OBVIOUS
<1>3. m = Message(t, f, o, u)
  BY <1>1, <1>2
<1>4. CASE n \notin Slots(m.type)
  <2>1. FieldOf(m, n).label = "oneof"
    BY <1>4, SMTT(60) DEF Slots, FieldOf
  <2>2. Set(m, n, v) = [m EXCEPT !.oneof = <<n, v>>]
    BY <2>1 DEF Set
  <2>3. [m EXCEPT !.oneof = <<n, v>>] = Message(t, f, <<n, v>>, u)
    BY <1>3, OneofChange
  <2>4. QED
    BY <1>2, <1>4, <2>2, <2>3
<1>5. CASE n \in Slots(m.type)
  <2>1. FieldOf(m, n).label # "oneof"
    BY <1>5 DEF Slots, FieldOf
  <2>2. CASE FieldOf(m, n).label = "singular"
    <3>1. Set(m, n, v) = [m EXCEPT !.fields[n] = <<v>>]
      BY <2>2 DEF Set
    <3>2. [m EXCEPT !.fields[n] = <<v>>] = Message(t, [f EXCEPT ![n] = <<v>>], o, u)
      BY <1>3 DEF Message
    <3>3. QED
      BY <1>2, <1>5, <2>2, <3>1, <3>2, SMTT(60)
  <2>3. CASE FieldOf(m, n).label # "singular"
    <3>1. Set(m, n, v) = [m EXCEPT !.fields[n] = v]
      BY <2>1, <2>3 DEF Set
    <3>2. [m EXCEPT !.fields[n] = v] = Message(t, [f EXCEPT ![n] = v], o, u)
      BY <1>3 DEF Message
    <3>3. QED
      BY <1>2, <1>5, <2>3, <3>1, <3>2, SMTT(60)
  <2>4. QED
    BY <2>2, <2>3
<1>6. QED
  BY <1>4, <1>5

(* A setter keeps a message formed, its type and its unknown fields.         *)
LEMMA SetIsFormed ==
  ASSUME NEW m, Formed(m), NEW n \in DOMAIN Schema[m.type], NEW v, CanSet(FieldOf(m, n), v)
  PROVE  /\ Formed(Set(m, n, v)) /\ Set(m, n, v).type = m.type
         /\ Set(m, n, v).unknown = m.unknown
         /\ \A w : Holds(Set(m, n, v), w) => Holds(m, w) \/ IsAmong(FieldOf(m, n), v, w)
<1>1. PICK field : field = FieldOf(m, n) /\ IsField(field) /\ field = Schema[m.type][n]
  BY Kinds DEF Formed
<1>2. PICK x : x = Set(m, n, v)
  OBVIOUS
<1>3. HoldsFields(m) /\ HoldsOneof(m) /\ HoldsUnknown(m) /\ m.type \in DOMAIN Schema
  BY DEF Formed
<1>4. CASE n \notin Slots(m.type)
  <2>1. x = Message(m.type, m.fields, <<n, v>>, m.unknown)
    BY <1>2, <1>4, SetCases
  <2>2. /\ x.type = m.type /\ x.fields = m.fields /\ x.oneof = <<n, v>> /\ x.unknown = m.unknown
        /\ x = [type |-> x.type, fields |-> x.fields, oneof |-> x.oneof, unknown |-> x.unknown]
    BY <2>1 DEF Message
  <2>3. field.label = "oneof"
    BY <1>1, <1>4 DEF Slots
  <2>4. OneValue(field, v)
    BY <1>1, <2>3 DEF CanSet
  <2>5. HoldsOneof(x)
    BY <1>1, <1>4, <2>2, <2>4 DEF HoldsOneof
  <2>6. HoldsFields(x) /\ HoldsUnknown(x)
    BY <1>3, <2>2 DEF HoldsFields, HoldsUnknown
  <2>7. Formed(x)
    BY <1>3, <2>2, <2>5, <2>6 DEF Formed
  <2>8. ASSUME NEW w, Holds(x, w) PROVE Holds(m, w) \/ IsAmong(field, v, w)
    <3>1. \A i : IsNested(x, i) <=> IsNested(m, i)
      BY <2>2 DEF IsNested, FieldOf
    <3>2. CASE \E i \in Slots(x.type) : IsNested(x, i) /\ \E j \in 1 .. Len(x.fields[i]) : w = x.fields[i][j]
      BY <2>2, <3>1, <3>2 DEF Holds
    <3>3. CASE IsNested(x, x.oneof[1]) /\ w = x.oneof[2]
      <4>1. x.oneof[1] = n /\ w = v
        BY <2>2, <3>3
      <4>2. field.kind = "message"
        BY <1>1, <3>1, <3>3, <4>1 DEF IsNested
      <4>3. IsAmong(field, v, w)
        BY <2>3, <4>1, <4>2 DEF IsAmong
      <4>4. QED
        BY <4>3
    <3>4. QED
      BY <2>8, <3>2, <3>3 DEF Holds
  <2>9. QED
    BY <1>1, <1>2, <2>2, <2>7, <2>8
<1>5. CASE n \in Slots(m.type)
  <2>1. PICK e : e = IF field.label = "singular" THEN <<v>> ELSE v
    OBVIOUS
  <2>2. x = Message(m.type, [m.fields EXCEPT ![n] = e], m.oneof, m.unknown)
    BY <1>1, <1>2, <1>5, <2>1, SetCases
  <2>3. /\ x.type = m.type /\ x.fields = [m.fields EXCEPT ![n] = e]
        /\ x.oneof = m.oneof /\ x.unknown = m.unknown
        /\ x = [type |-> x.type, fields |-> x.fields, oneof |-> x.oneof, unknown |-> x.unknown]
    BY <2>2 DEF Message
  <2>4. m.fields = [i \in Slots(m.type) |-> m.fields[i]]
    BY <1>3 DEF HoldsFields
  <2>5. /\ x.fields = [i \in Slots(m.type) |-> x.fields[i]] /\ x.fields[n] = e
        /\ \A i \in Slots(m.type) : i # n => x.fields[i] = m.fields[i]
    BY <1>5, <2>3, <2>4
  <2>6. field.label \in {"plain", "singular", "repeated"}
    BY <1>1, <1>5 DEF IsField, Slots
  <2>7. FieldHolds(field, e)
    <3>1. CASE field.label = "singular"
      <4>1. OneValue(field, v)
        BY <1>1, <3>1 DEF CanSet
      <4>2. e = <<v>>
        BY <2>1, <3>1
      <4>3. IsList(e) /\ Len(e) = 1 /\ e[1] = v
        BY <4>2, OneElement
      <4>4. \A k \in 1 .. Len(e) : OneValue(field, e[k])
        BY <4>1, <4>3
      <4>5. QED
        BY <3>1, <4>3, <4>4 DEF FieldHolds
    <3>2. CASE field.label = "repeated"
      BY <1>1, <2>1, <3>2 DEF CanSet, FieldHolds
    <3>3. CASE field.label = "plain"
      BY <1>1, <2>1, <3>3 DEF CanSet, FieldHolds
    <3>4. QED
      BY <2>6, <3>1, <3>2, <3>3
  <2>8. HoldsFields(x)
    <3>1. ASSUME NEW i \in Slots(m.type) PROVE FieldHolds(Schema[m.type][i], x.fields[i])
      <4>1. CASE i = n
        BY <1>1, <2>5, <2>7, <4>1
      <4>2. CASE i # n
        BY <1>3, <2>5, <4>2 DEF HoldsFields
      <4>3. QED
        BY <4>1, <4>2
    <3>2. QED
      BY <2>3, <2>5, <3>1 DEF HoldsFields
  <2>9. HoldsOneof(x) /\ HoldsUnknown(x)
    BY <1>3, <2>3 DEF HoldsOneof, HoldsUnknown
  <2>10. Formed(x)
    BY <1>3, <2>3, <2>8, <2>9 DEF Formed
  <2>11. ASSUME NEW w, Holds(x, w) PROVE Holds(m, w) \/ IsAmong(field, v, w)
    <3>1. \A i : IsNested(x, i) <=> IsNested(m, i)
      BY <2>3 DEF IsNested, FieldOf
    <3>2. CASE \E i \in Slots(x.type) : IsNested(x, i) /\ \E j \in 1 .. Len(x.fields[i]) : w = x.fields[i][j]
      <4>1. PICK i \in Slots(m.type) : IsNested(m, i) /\ \E j \in 1 .. Len(x.fields[i]) : w = x.fields[i][j]
        BY <2>3, <3>1, <3>2
      <4>2. CASE i # n
        <5>1. x.fields[i] = m.fields[i]
          BY <2>5, <4>2
        <5>2. QED
          BY <4>1, <5>1 DEF Holds
      <4>3. CASE i = n
        <5>1. PICK j \in 1 .. Len(e) : w = e[j]
          BY <2>5, <4>1, <4>3
        <5>2. field.kind = "message"
          BY <1>1, <4>1, <4>3 DEF IsNested
        <5>3. CASE field.label = "singular"
          <6>1. e = <<v>>
            BY <2>1, <5>3
          <6>2. Len(e) = 1 /\ e[1] = v
            BY <6>1, OneElement
          <6>3. w = v
            BY <5>1, <6>2
          <6>4. IsAmong(field, v, w)
            BY <5>2, <5>3, <6>3 DEF IsAmong
          <6>5. QED
            BY <6>4
        <5>4. CASE field.label = "repeated"
          <6>1. IsAmong(field, v, w)
            BY <2>1, <5>1, <5>2, <5>4 DEF IsAmong
          <6>2. QED
            BY <6>1
        <5>5. QED
          BY <1>1, <2>6, <5>2, <5>3, <5>4 DEF IsField
      <4>4. QED
        BY <4>2, <4>3
    <3>3. CASE m.oneof # <<>> /\ IsNested(x, x.oneof[1]) /\ w = x.oneof[2]
      BY <2>3, <3>1, <3>3 DEF Holds
    <3>4. QED
      BY <2>3, <2>11, <3>2, <3>3 DEF Holds
  <2>12. QED
    BY <1>1, <1>2, <2>3, <2>10, <2>11
<1>6. QED
  BY <1>4, <1>5

(* What the accessors return of a message that has been set.                 *)
LEMMA GetOfSet ==
  ASSUME NEW m, Formed(m), NEW n \in DOMAIN Schema[m.type], NEW v
  PROVE  /\ Get(Set(m, n, v), n) = v
         /\ FieldOf(m, n).label \in {"oneof", "singular"} => Has(Set(m, n, v), n)
<1>1. PICK field : field = FieldOf(m, n) /\ IsField(field) /\ field = Schema[m.type][n]
                   /\ (n \in Slots(m.type) <=> field.label # "oneof")
  BY Kinds DEF Formed
<1>2. PICK x : x = Set(m, n, v)
  OBVIOUS
<1>3. CASE n \notin Slots(m.type)
  <2>1. x = Message(m.type, m.fields, <<n, v>>, m.unknown)
    BY <1>2, <1>3, SetCases
  <2>2. x.type = m.type /\ x.oneof = <<n, v>>
    BY <2>1 DEF Message
  <2>3. FieldOf(x, n) = field /\ field.label = "oneof"
    BY <1>1, <1>3, <2>2 DEF FieldOf
  <2>4. Has(x, n)
    BY <2>2, <2>3 DEF Has, IsOneof
  <2>5. Get(x, n) = v
    BY <2>2, <2>3, <2>4 DEF Get
  <2>6. QED
    BY <1>2, <2>4, <2>5
<1>4. CASE n \in Slots(m.type)
  <2>1. PICK e : e = IF field.label = "singular" THEN <<v>> ELSE v
    OBVIOUS
  <2>2. x = Message(m.type, [m.fields EXCEPT ![n] = e], m.oneof, m.unknown)
    BY <1>1, <1>2, <1>4, <2>1, SetCases
  <2>3. m.fields = [i \in Slots(m.type) |-> m.fields[i]]
    BY DEF Formed, HoldsFields
  <2>4. x.type = m.type /\ x.fields[n] = e
    BY <1>4, <2>2, <2>3 DEF Message
  <2>5. FieldOf(x, n) = field /\ field.label # "oneof"
    BY <1>1, <1>4, <2>4 DEF FieldOf
  <2>6. CASE field.label = "singular"
    <3>1. x.fields[n] = <<v>>
      BY <2>1, <2>4, <2>6
    <3>2. Has(x, n)
      BY <2>5, <3>1 DEF Has, IsOneof
    <3>3. Get(x, n) = Head(<<v>>)
      BY <2>5, <2>6, <3>1, <3>2 DEF Get
    <3>4. QED
      BY <1>2, <3>2, <3>3
  <2>7. CASE field.label # "singular"
    <3>1. x.fields[n] = v
      BY <2>1, <2>4, <2>7, SMTT(60)
    <3>2. Get(x, n) = v
      BY <2>5, <2>7, <3>1 DEF Get
    <3>3. QED
      BY <1>1, <1>2, <2>5, <2>7, <3>2
  <2>8. QED
    BY <2>6, <2>7
<1>5. QED
  BY <1>3, <1>4

(* The other fields stay as they are, except those of the same oneof.        *)
LEMMA GetOfOther ==
  ASSUME NEW m, Formed(m), NEW n \in DOMAIN Schema[m.type], NEW i \in DOMAIN Schema[m.type],
         NEW v, i # n, ~ IsOneof(m, n) \/ ~ IsOneof(m, i)
  PROVE  Get(Set(m, n, v), i) = Get(m, i) /\ (Has(Set(m, n, v), i) <=> Has(m, i))
<1>1. PICK field : field = FieldOf(m, i) /\ IsField(field) /\ field = Schema[m.type][i]
                   /\ (i \in Slots(m.type) <=> field.label # "oneof")
  BY Kinds DEF Formed
<1>2. n \in Slots(m.type) <=> ~ IsOneof(m, n)
  BY Kinds DEF Formed
<1>3. PICK x : x = Set(m, n, v)
  OBVIOUS
<1>4. /\ x.type = m.type
      /\ i \in Slots(m.type) => x.fields[i] = m.fields[i]
      /\ i \notin Slots(m.type) => x.oneof = m.oneof
  <2>1. CASE n \notin Slots(m.type)
    <3>1. x = Message(m.type, m.fields, <<n, v>>, m.unknown)
      BY <1>3, <2>1, SetCases
    <3>2. i \in Slots(m.type)
      BY <1>1, <1>2, <2>1 DEF IsOneof
    <3>3. QED
      BY <3>1, <3>2 DEF Message
  <2>2. CASE n \in Slots(m.type)
    <3>1. PICK e : e = IF FieldOf(m, n).label = "singular" THEN <<v>> ELSE v
      OBVIOUS
    <3>2. x = Message(m.type, [m.fields EXCEPT ![n] = e], m.oneof, m.unknown)
      BY <1>3, <2>2, <3>1, SetCases
    <3>3. m.fields = [j \in Slots(m.type) |-> m.fields[j]]
      BY DEF Formed, HoldsFields
    <3>4. QED
      BY <3>2, <3>3 DEF Message
  <2>3. QED
    BY <2>1, <2>2
<1>5. FieldOf(x, i) = field
  BY <1>1, <1>4 DEF FieldOf
<1>6. Has(x, i) <=> Has(m, i)
  BY <1>1, <1>4, <1>5, SMTT(60) DEF Has, IsOneof
<1>7. Get(x, i) = Get(m, i)
  <2>1. CASE field.label = "oneof"
    <3>1. x.oneof = m.oneof
      BY <1>1, <1>4, <2>1, SMTT(60)
    <3>2. QED
      BY <1>1, <1>5, <1>6, <2>1, <3>1 DEF Get
  <2>2. CASE field.label # "oneof"
    <3>1. x.fields[i] = m.fields[i]
      BY <1>1, <1>4, <2>2
    <3>2. QED
      BY <1>1, <1>5, <1>6, <2>2, <3>1 DEF Get
  <2>3. QED
    BY <2>1, <2>2, SMTT(60)
<1>8. QED
  BY <1>3, <1>6, <1>7

(* Setting a field of a oneof clears the field that was set before.          *)
LEMMA OneofIsReplaced ==
  ASSUME NEW m, Formed(m), NEW n \in DOMAIN Schema[m.type], NEW i \in DOMAIN Schema[m.type],
         NEW v, i # n, IsOneof(m, n), IsOneof(m, i)
  PROVE  ~ Has(Set(m, n, v), i)
<1>1. n \notin Slots(m.type)
  BY Kinds DEF Formed
<1>2. Set(m, n, v) = Message(m.type, m.fields, <<n, v>>, m.unknown)
  BY <1>1, SetCases
<1>3. PICK x : x = Set(m, n, v) /\ x.type = m.type /\ x.oneof = <<n, v>>
  BY <1>2 DEF Message
<1>4. QED
  BY <1>3 DEF Has, IsOneof, FieldOf

(* The getter of a plain field of a new message returns the default.         *)
LEMMA GetOfNew ==
  ASSUME NEW type \in DOMAIN Schema, NEW n \in DOMAIN Schema[type],
         Schema[type][n].label = "plain"
  PROVE  Get(NewMessage(type), n) = DefaultOf(Schema[type][n])
<1>1. PICK m : m = NewMessage(type)
  OBVIOUS
<1>2. m.type = type /\ m.fields[n] = DefaultOf(Schema[type][n])
  BY <1>1 DEF NewMessage
<1>3. FieldOf(m, n).label = "plain"
  BY <1>2, SMTT(60) DEF FieldOf
<1>4. Get(m, n) = m.fields[n]
  BY <1>3 DEF Get
<1>5. QED
  BY <1>1, <1>2, <1>4

-----------------------------------------------------------------------------
(* Setting a field of a message keeps it well-formed.                        *)
LEMMA SetLevels ==
  ASSUME NEW m, Formed(m), NEW n \in DOMAIN Schema[m.type], NEW v, CanSet(FieldOf(m, n), v)
  PROVE  /\ FieldOf(m, n).kind # "message" /\ WellFormed0(m) => WellFormed0(Set(m, n, v))
         /\ (\A w : IsAmong(FieldOf(m, n), v, w) => WellFormed0(w)) /\ WellFormed1(m)
              => WellFormed1(Set(m, n, v))
         /\ (\A w : IsAmong(FieldOf(m, n), v, w) => WellFormed1(w)) /\ WellFormed2(m)
              => WellFormed2(Set(m, n, v))
         /\ (\A w : IsAmong(FieldOf(m, n), v, w) => WellFormed2(w)) /\ WellFormed3(m)
              => WellFormed3(Set(m, n, v))
         /\ (\A w : IsAmong(FieldOf(m, n), v, w) => WellFormed3(w)) /\ WellFormed4(m)
              => WellFormed4(Set(m, n, v))
<1>1. PICK x : x = Set(m, n, v) /\ Formed(x)
               /\ \A w : Holds(x, w) => Holds(m, w) \/ IsAmong(FieldOf(m, n), v, w)
  BY SetIsFormed
<1>2. FieldOf(m, n).kind # "message" /\ WellFormed0(m) => WellFormed0(x)
  BY <1>1, Zenon DEF WellFormed0, IsAmong
<1>3. (\A w : IsAmong(FieldOf(m, n), v, w) => WellFormed0(w)) /\ WellFormed1(m) => WellFormed1(x)
  BY <1>1, Zenon DEF WellFormed1
<1>4. (\A w : IsAmong(FieldOf(m, n), v, w) => WellFormed1(w)) /\ WellFormed2(m) => WellFormed2(x)
  BY <1>1, Zenon DEF WellFormed2
<1>5. (\A w : IsAmong(FieldOf(m, n), v, w) => WellFormed2(w)) /\ WellFormed3(m) => WellFormed3(x)
  BY <1>1, Zenon DEF WellFormed3
<1>6. (\A w : IsAmong(FieldOf(m, n), v, w) => WellFormed3(w)) /\ WellFormed4(m) => WellFormed4(x)
  BY <1>1, Zenon DEF WellFormed4
<1>7. QED
  BY <1>1, <1>2, <1>3, <1>4, <1>5, <1>6, Zenon

-----------------------------------------------------------------------------
(* Setting the fields of each kind.                                          *)
LEMMA SetScalar ==
  ASSUME NEW m, Formed(m), NEW n \in DOMAIN Schema[m.type], NEW v,
         FieldOf(m, n).kind # "message", OneValue(FieldOf(m, n), v)
  PROVE  /\ Formed(Set(m, n, v)) /\ Set(m, n, v).type = m.type
         /\ Set(m, n, v).unknown = m.unknown
         /\ WellFormed0(m) => WellFormed0(Set(m, n, v))
         /\ WellFormed1(m) => WellFormed1(Set(m, n, v))
         /\ WellFormed2(m) => WellFormed2(Set(m, n, v))
         /\ WellFormed4(m) => WellFormed4(Set(m, n, v))
<1>1. IsField(FieldOf(m, n))
  BY Kinds DEF Formed
<1>2. CanSet(FieldOf(m, n), v)
  BY <1>1 DEF IsField, CanSet
<1>3. \A w : ~ IsAmong(FieldOf(m, n), v, w)
  BY DEF IsAmong
<1>4. PICK x : x = Set(m, n, v)
  OBVIOUS
<1>5. Formed(x) /\ x.type = m.type /\ x.unknown = m.unknown
  BY <1>2, <1>4, SetIsFormed
<1>6. /\ WellFormed0(m) => WellFormed0(x)
      /\ WellFormed1(m) => WellFormed1(x)
      /\ WellFormed2(m) => WellFormed2(x)
      /\ WellFormed4(m) => WellFormed4(x)
  BY <1>2, <1>3, <1>4, SetLevels, Zenon
<1>7. QED
  BY <1>4, <1>5, <1>6

(* A setter of a nested message keeps the message well formed.               *)
LEMMA SetMessage ==
  ASSUME NEW m, Formed(m), NEW n \in DOMAIN Schema[m.type], NEW v,
         FieldOf(m, n).kind = "message", FieldOf(m, n).label # "repeated",
         v.type = FieldOf(m, n).type
  PROVE  /\ Formed(Set(m, n, v)) /\ Set(m, n, v).type = m.type
         /\ Set(m, n, v).unknown = m.unknown
         /\ WellFormed0(v) /\ WellFormed1(m) => WellFormed1(Set(m, n, v))
         /\ WellFormed1(v) /\ WellFormed2(m) => WellFormed2(Set(m, n, v))
         /\ WellFormed2(v) /\ WellFormed3(m) => WellFormed3(Set(m, n, v))
         /\ WellFormed3(v) /\ WellFormed4(m) => WellFormed4(Set(m, n, v))
<1>1. CanSet(FieldOf(m, n), v)
  BY DEF CanSet, OneValue
<1>2. \A w : IsAmong(FieldOf(m, n), v, w) => w = v
  BY DEF IsAmong
<1>3. PICK x : x = Set(m, n, v)
  OBVIOUS
<1>4. Formed(x) /\ x.type = m.type /\ x.unknown = m.unknown
  BY <1>1, <1>3, SetIsFormed
<1>5. WellFormed0(v) /\ WellFormed1(m) => WellFormed1(x)
  BY <1>1, <1>2, <1>3, SetLevels, Zenon
<1>6. WellFormed1(v) /\ WellFormed2(m) => WellFormed2(x)
  BY <1>1, <1>2, <1>3, SetLevels, Zenon
<1>7. WellFormed2(v) /\ WellFormed3(m) => WellFormed3(x)
  BY <1>1, <1>2, <1>3, SetLevels, Zenon
<1>8. WellFormed3(v) /\ WellFormed4(m) => WellFormed4(x)
  BY <1>1, <1>2, <1>3, SetLevels, Zenon
<1>9. QED
  BY <1>3, <1>4, <1>5, <1>6, <1>7, <1>8

(* So does a setter of a repeated field.                                     *)
LEMMA SetList ==
  ASSUME NEW m, Formed(m), NEW n \in DOMAIN Schema[m.type], NEW v,
         FieldOf(m, n).kind = "message", FieldOf(m, n).label = "repeated",
         IsList(v), \A k \in 1 .. Len(v) : v[k].type = FieldOf(m, n).type
  PROVE  /\ Formed(Set(m, n, v)) /\ Set(m, n, v).type = m.type
         /\ Set(m, n, v).unknown = m.unknown
         /\ (\A k \in 1 .. Len(v) : WellFormed0(v[k])) /\ WellFormed1(m)
              => WellFormed1(Set(m, n, v))
         /\ (\A k \in 1 .. Len(v) : WellFormed1(v[k])) /\ WellFormed2(m)
              => WellFormed2(Set(m, n, v))
         /\ (\A k \in 1 .. Len(v) : WellFormed3(v[k])) /\ WellFormed4(m)
              => WellFormed4(Set(m, n, v))
<1>1. CanSet(FieldOf(m, n), v)
  BY DEF CanSet, OneValue
<1>2. \A w : IsAmong(FieldOf(m, n), v, w) => \E k \in 1 .. Len(v) : w = v[k]
  BY DEF IsAmong
<1>3. PICK x : x = Set(m, n, v)
  OBVIOUS
<1>4. Formed(x) /\ x.type = m.type /\ x.unknown = m.unknown
  BY <1>1, <1>3, SetIsFormed
<1>5. ASSUME \A k \in 1 .. Len(v) : WellFormed0(v[k]), WellFormed1(m) PROVE WellFormed1(x)
  <2>1. \A w : IsAmong(FieldOf(m, n), v, w) => WellFormed0(w)
    BY <1>2, <1>5
  <2>2. QED
    BY <1>1, <1>3, <1>5, <2>1, SetLevels, Zenon
<1>6. ASSUME \A k \in 1 .. Len(v) : WellFormed1(v[k]), WellFormed2(m) PROVE WellFormed2(x)
  <2>1. \A w : IsAmong(FieldOf(m, n), v, w) => WellFormed1(w)
    BY <1>2, <1>6
  <2>2. QED
    BY <1>1, <1>3, <1>6, <2>1, SetLevels, Zenon
<1>7. ASSUME \A k \in 1 .. Len(v) : WellFormed3(v[k]), WellFormed4(m) PROVE WellFormed4(x)
  <2>1. \A w : IsAmong(FieldOf(m, n), v, w) => WellFormed3(w)
    BY <1>2, <1>7
  <2>2. QED
    BY <1>1, <1>3, <1>7, <2>1, SetLevels, Zenon
<1>8. QED
  BY <1>3, <1>4, <1>5, <1>6, <1>7

(* A field of a later version changes nothing that this version reads.       *)
LEMMA NewFieldFacts ==
  ASSUME NEW m, Formed(m), m.unknown = <<>>
  PROVE  /\ Formed(Versioned(m)) /\ Versioned(m).type = m.type
         /\ newer = m.type => Versioned(m).unknown # <<>>
         /\ \A n : Get(Versioned(m), n) = Get(m, n)
         /\ WellFormed1(m) => WellFormed1(Versioned(m))
         /\ WellFormed2(m) => WellFormed2(Versioned(m))
<1>1. CASE newer # m.type
  <2>1. Versioned(m) = m
    BY <1>1 DEF Versioned
  <2>2. QED
    BY <1>1, <2>1
<1>2. CASE newer = m.type
  <2>1. PICK u : u = [number |-> 9, wire_type |-> 2, value |-> <<200, 1>>]
    OBVIOUS
  <2>2. PICK x : x = Versioned(m)
    OBVIOUS
  <2>3. m = Message(m.type, m.fields, m.oneof, m.unknown)
    BY DEF Formed, Message
  <2>4. PICK t, f, o, w : t = m.type /\ f = m.fields /\ o = m.oneof /\ w = m.unknown
    OBVIOUS
  <2>5. m = Message(t, f, o, w)
    BY <2>3, <2>4
  <2>6. [m EXCEPT !.unknown = <<u>>] = Message(t, f, o, <<u>>)
    BY <2>5 DEF Message
  <2>7. x = Message(m.type, m.fields, m.oneof, <<u>>)
    BY <1>2, <2>1, <2>2, <2>4, <2>6 DEF Versioned, WithNewField
  <2>8. /\ x.type = m.type /\ x.fields = m.fields /\ x.oneof = m.oneof /\ x.unknown = <<u>>
        /\ x = [type |-> x.type, fields |-> x.fields, oneof |-> x.oneof, unknown |-> x.unknown]
    BY <2>7 DEF Message
  <2>9. IsUnknown(m.type, u)
    <3>1. u.number = 9 /\ u.wire_type = 2 /\ u.value = <<200, 1>>
          /\ u = [number |-> u.number, wire_type |-> u.wire_type, value |-> u.value]
      BY <2>1
    <3>2. 9 \notin DOMAIN Schema[m.type]
      BY SchemaIsWellFormed DEF Formed, IsFieldList
    <3>3. <<200, 1>> \in Seq(Byte) /\ Len(<<200, 1>>) = 2
      BY DEF Byte
    <3>4. PICK raw : raw = UnknownOnWire(u)
      OBVIOUS
    <3>5. raw = [number |-> 9, wire_type |-> 2, value |-> <<200, 1>>, size |-> 2]
      BY <3>1, <3>3, <3>4 DEF UnknownOnWire, WireTypeVarint
    <3>6. IsOnWire(raw)
      BY <3>3, <3>5 DEF IsOnWire, WireTypeVarint, WireTypeLengthDelimited
    <3>7. QED
      BY <3>1, <3>2, <3>4, <3>6 DEF IsUnknown
  <2>10. HoldsUnknown(x)
    <3>1. IsList(<<u>>) /\ Len(<<u>>) = 1 /\ <<u>>[1] = u
      BY OneElement
    <3>2. \A k \in 1 .. Len(<<u>>) : IsUnknown(m.type, <<u>>[k])
      BY <2>9, <3>1
    <3>3. QED
      BY <2>8, <3>1, <3>2 DEF HoldsUnknown
  <2>11. HoldsFields(x) /\ HoldsOneof(x)
    BY <2>8 DEF Formed, HoldsFields, HoldsOneof
  <2>12. Formed(x)
    BY <2>8, <2>10, <2>11 DEF Formed
  <2>13. \A n : Get(x, n) = Get(m, n)
    <3>1. TAKE n
    <3>2. FieldOf(x, n) = FieldOf(m, n)
      BY <2>8 DEF FieldOf
    <3>3. Has(x, n) <=> Has(m, n)
      BY <2>8, <3>2 DEF Has, IsOneof
    <3>4. QED
      BY <2>8, <3>2, <3>3, Zenon DEF Get
  <2>14. \A v : Holds(x, v) => Holds(m, v)
    BY <2>8 DEF Holds, IsNested, FieldOf
  <2>15. (WellFormed1(m) => WellFormed1(x)) /\ (WellFormed2(m) => WellFormed2(x))
    BY <2>12, <2>14, Zenon DEF WellFormed1, WellFormed2
  <2>16. x.unknown # <<>>
    BY <2>8
  <2>17. QED
    BY <2>2, <2>8, <2>12, <2>13, <2>15, <2>16
<1>3. QED
  BY <1>1, <1>2

-----------------------------------------------------------------------------
(***************************************************************************)
(* The messages of this program.                                           *)
(***************************************************************************)

(* The messages of the flow.                                                 *)
Scalar(type, n, kind, label) ==
  /\ type \in DOMAIN Schema /\ n \in DOMAIN Schema[type]
  /\ Schema[type][n].kind = kind /\ Schema[type][n].label = label

Nested(type, n, of, label) ==
  /\ type \in DOMAIN Schema /\ n \in DOMAIN Schema[type]
  /\ Schema[type][n].kind = "message" /\ Schema[type][n].label = label
  /\ Schema[type][n].type = of

(* The schema at each of its types.                                          *)
LEMMA SchemaOfTypes ==
  /\ Schema["Empty"] = Empty /\ Schema["Ack"] = Ack /\ Schema["TaskId"] = TaskId
  /\ Schema["ScheduleTask"] = ScheduleTask /\ Schema["ClientList"] = ClientList
  /\ Schema["Client"] = Client /\ Schema["Task"] = Task /\ Schema["Metadata"] = Metadata
  /\ Schema["Ping"] = Ping /\ Schema["Address"] = Address
  /\ Schema["TaskResult"] = TaskResult /\ Schema["Result"] = Result
  /\ Schema["PingResult"] = PingResult /\ Schema["PingPayload"] = PingPayload
BY DEF Schema

(* The kind and the label of a field by the way it is declared.              *)
LEMMA FieldRecords ==
  /\ \A kind : PlainField(kind).kind = kind /\ PlainField(kind).label = "plain"
  /\ \A kind : OneofScalar(kind).kind = kind /\ OneofScalar(kind).label = "oneof"
  /\ \A type, label :
       /\ MessageField(type, label).kind = "message" /\ MessageField(type, label).label = label
       /\ MessageField(type, label).type = type
BY DEF PlainField, OneofScalar, MessageField

(* The fields of the types without nested messages.                          *)
LEMMA SmallTypes ==
  /\ Scalar("Address", 1, "uint", "oneof")
  /\ Scalar("Metadata", 1, "bytes", "plain") /\ Scalar("Metadata", 2, "bytes", "plain")
  /\ Scalar("Ack", 1, "uint", "plain") /\ Scalar("Ack", 2, "bool", "plain")
  /\ Scalar("Ack", 3, "bytes", "plain")
  /\ Scalar("TaskId", 1, "uint", "plain")
<1>1. DOMAIN Address = 1 .. 2 /\ Address[1] = OneofScalar("uint")
  BY DEF Address
<1>2. /\ DOMAIN Metadata = 1 .. 2
      /\ Metadata[1] = PlainField("bytes") /\ Metadata[2] = PlainField("bytes")
  BY DEF Metadata
<1>3. /\ DOMAIN Ack = 1 .. 3
      /\ Ack[1] = PlainField("uint") /\ Ack[2] = PlainField("bool") /\ Ack[3] = PlainField("bytes")
  BY DEF Ack
<1>4. DOMAIN TaskId = 1 .. 1 /\ TaskId[1] = PlainField("uint")
  BY DEF TaskId
<1>5. QED
  BY <1>1, <1>2, <1>3, <1>4, Types, SchemaOfTypes, FieldRecords DEF Scalar

(* The fields of the types that hold a client.                               *)
LEMMA ClientTypes ==
  /\ Scalar("Client", 1, "uint", "plain") /\ Nested("Client", 2, "Metadata", "singular")
  /\ Nested("ScheduleTask", 1, "Client", "singular") /\ Nested("ScheduleTask", 2, "Ping", "oneof")
  /\ Nested("ClientList", 1, "Client", "repeated")
<1>1. /\ DOMAIN Client = 1 .. 2 /\ Client[1] = PlainField("uint")
      /\ Client[2] = MessageField("Metadata", "singular")
  BY DEF Client
<1>2. /\ DOMAIN ScheduleTask = 1 .. 2 /\ ScheduleTask[1] = MessageField("Client", "singular")
      /\ ScheduleTask[2] = MessageField("Ping", "oneof")
  BY DEF ScheduleTask
<1>3. DOMAIN ClientList = 1 .. 1 /\ ClientList[1] = MessageField("Client", "repeated")
  BY DEF ClientList
<1>4. QED
  BY <1>1, <1>2, <1>3, Types, SchemaOfTypes, FieldRecords DEF Scalar, Nested

(* The fields of a ping and a task.                                          *)
LEMMA TaskTypes ==
  /\ Nested("Ping", 1, "Address", "singular") /\ Nested("Ping", 2, "Address", "repeated")
  /\ Scalar("Task", 1, "uint", "plain") /\ Nested("Task", 2, "Ping", "oneof")
  /\ Nested("Task", 3, "Empty", "oneof")
<1>1. /\ DOMAIN Ping = 1 .. 2 /\ Ping[1] = MessageField("Address", "singular")
      /\ Ping[2] = MessageField("Address", "repeated")
  BY DEF Ping
<1>2. /\ DOMAIN Task = 1 .. 3 /\ Task[1] = PlainField("uint")
      /\ Task[2] = MessageField("Ping", "oneof") /\ Task[3] = MessageField("Empty", "oneof")
  BY DEF Task
<1>3. QED
  BY <1>1, <1>2, Types, SchemaOfTypes, FieldRecords DEF Scalar, Nested

(* The fields of a payload.                                                  *)
LEMMA PayloadTypes ==
  /\ Scalar("PingPayload", 1, "uint", "plain") /\ Scalar("PingPayload", 2, "uint", "plain")
  /\ Nested("PingPayload", 3, "Address", "singular")
  /\ Nested("PingPayload", 4, "Address", "singular")
<1>1. /\ DOMAIN PingPayload = 1 .. 4
      /\ PingPayload[1] = PlainField("uint") /\ PingPayload[2] = PlainField("uint")
      /\ PingPayload[3] = MessageField("Address", "singular")
      /\ PingPayload[4] = MessageField("Address", "singular")
  BY DEF PingPayload
<1>2. QED
  BY <1>1, Types, SchemaOfTypes, FieldRecords DEF Scalar, Nested

(* The fields of the result of a ping.                                       *)
LEMMA PingResultTypes ==
  /\ Nested("PingResult", 1, "Address", "singular")
  /\ Nested("PingResult", 2, "Address", "singular")
  /\ Scalar("PingResult", 3, "uint", "plain")
  /\ Nested("PingResult", 4, "PingPayload", "singular")
  /\ Scalar("PingResult", 5, "uint", "plain")
<1>1. /\ DOMAIN PingResult = 1 .. 5
      /\ PingResult[1] = MessageField("Address", "singular")
      /\ PingResult[2] = MessageField("Address", "singular")
      /\ PingResult[3] = PlainField("uint")
      /\ PingResult[4] = MessageField("PingPayload", "singular")
      /\ PingResult[5] = PlainField("uint")
  BY DEF PingResult
<1>2. QED
  BY <1>1, Types, SchemaOfTypes, FieldRecords DEF Scalar, Nested

(* The fields of a result and a task result.                                 *)
LEMMA ResultTypes ==
  /\ Nested("Result", 1, "PingResult", "oneof")
  /\ Scalar("TaskResult", 1, "uint", "plain") /\ Nested("TaskResult", 2, "Client", "singular")
  /\ Nested("TaskResult", 3, "Result", "repeated")
<1>1. DOMAIN Result = 1 .. 1 /\ Result[1] = MessageField("PingResult", "oneof")
  BY DEF Result
<1>2. /\ DOMAIN TaskResult = 1 .. 4 /\ TaskResult[1] = PlainField("uint")
      /\ TaskResult[2] = MessageField("Client", "singular")
      /\ TaskResult[3] = MessageField("Result", "repeated")
  BY DEF TaskResult
<1>3. QED
  BY <1>1, <1>2, Types, SchemaOfTypes, FieldRecords DEF Scalar, Nested

(* A message that is formed, of a type, with nothing unknown.                *)
Known(m, type) == Formed(m) /\ m.type = type /\ m.unknown = <<>>

(* A new message is well formed and has no unknown fields.                   *)
LEMMA NewIsKnown ==
  ASSUME NEW type \in DOMAIN Schema
  PROVE  Known(NewMessage(type), type) /\ WellFormed0(NewMessage(type))
BY NewIsFormed DEF Known, WellFormed0

(* Setting a scalar.                                                         *)
LEMMA Scalars ==
  ASSUME NEW m, NEW type, NEW n, NEW kind, NEW label, NEW v, Known(m, type),
         Scalar(type, n, kind, label), label \in {"plain", "oneof"},
         \/ kind = "uint" /\ v \in Nat
         \/ kind = "bool" /\ v \in BOOLEAN
         \/ kind = "bytes" /\ v \in Seq(Byte)
  PROVE  /\ Known(Set(m, n, v), type)
         /\ Get(Set(m, n, v), n) = v
         /\ label = "oneof" => Has(Set(m, n, v), n)
         /\ WellFormed0(m) => WellFormed0(Set(m, n, v))
         /\ WellFormed1(m) => WellFormed1(Set(m, n, v))
         /\ WellFormed2(m) => WellFormed2(Set(m, n, v))
         /\ WellFormed4(m) => WellFormed4(Set(m, n, v))
<1>1. Formed(m) /\ m.type = type /\ m.unknown = <<>> /\ n \in DOMAIN Schema[m.type]
  BY DEF Known, Scalar
<1>2. FieldOf(m, n).kind = kind /\ FieldOf(m, n).label = label
  BY <1>1 DEF Scalar, FieldOf
<1>3. OneValue(FieldOf(m, n), v) /\ FieldOf(m, n).kind # "message"
  BY <1>2 DEF OneValue
<1>4. PICK x : x = Set(m, n, v)
  OBVIOUS
<1>5. /\ Formed(x) /\ x.type = m.type /\ x.unknown = m.unknown
      /\ WellFormed0(m) => WellFormed0(x)
      /\ WellFormed1(m) => WellFormed1(x)
      /\ WellFormed2(m) => WellFormed2(x)
      /\ WellFormed4(m) => WellFormed4(x)
  BY <1>1, <1>3, <1>4, SetScalar
<1>6. Get(x, n) = v /\ (label = "oneof" => Has(x, n))
  BY <1>1, <1>2, <1>4, GetOfSet
<1>7. QED
  BY <1>1, <1>4, <1>5, <1>6 DEF Known

(* Setting a message.                                                        *)
LEMMA Nesteds ==
  ASSUME NEW m, NEW type, NEW n, NEW of, NEW label, NEW v, Known(m, type),
         Nested(type, n, of, label), label \in {"singular", "oneof"}, v.type = of
  PROVE  /\ Known(Set(m, n, v), type)
         /\ Get(Set(m, n, v), n) = v /\ Has(Set(m, n, v), n)
         /\ WellFormed0(v) /\ WellFormed1(m) => WellFormed1(Set(m, n, v))
         /\ WellFormed1(v) /\ WellFormed2(m) => WellFormed2(Set(m, n, v))
         /\ WellFormed2(v) /\ WellFormed3(m) => WellFormed3(Set(m, n, v))
         /\ WellFormed3(v) /\ WellFormed4(m) => WellFormed4(Set(m, n, v))
<1>1. Formed(m) /\ m.type = type /\ m.unknown = <<>> /\ n \in DOMAIN Schema[m.type]
  BY DEF Known, Nested
<1>2. FieldOf(m, n).kind = "message" /\ FieldOf(m, n).label = label /\ FieldOf(m, n).type = of
  BY <1>1 DEF Nested, FieldOf
<1>3. FieldOf(m, n).label # "repeated"
  BY <1>2
<1>4. PICK x : x = Set(m, n, v)
  OBVIOUS
<1>5. /\ Formed(x) /\ x.type = m.type /\ x.unknown = m.unknown
      /\ WellFormed0(v) /\ WellFormed1(m) => WellFormed1(x)
      /\ WellFormed1(v) /\ WellFormed2(m) => WellFormed2(x)
      /\ WellFormed2(v) /\ WellFormed3(m) => WellFormed3(x)
      /\ WellFormed3(v) /\ WellFormed4(m) => WellFormed4(x)
  BY <1>1, <1>2, <1>3, <1>4, SetMessage
<1>6. Get(x, n) = v /\ Has(x, n)
  BY <1>1, <1>2, <1>4, GetOfSet
<1>7. QED
  BY <1>1, <1>4, <1>5, <1>6 DEF Known

(* Setting a list of messages.                                               *)
LEMMA Lists ==
  ASSUME NEW m, NEW type, NEW n, NEW of, NEW v, Known(m, type),
         Nested(type, n, of, "repeated"),
         IsList(v), \A k \in 1 .. Len(v) : v[k].type = of
  PROVE  /\ Known(Set(m, n, v), type)
         /\ Get(Set(m, n, v), n) = v
         /\ (\A k \in 1 .. Len(v) : WellFormed0(v[k])) /\ WellFormed1(m)
              => WellFormed1(Set(m, n, v))
         /\ (\A k \in 1 .. Len(v) : WellFormed1(v[k])) /\ WellFormed2(m)
              => WellFormed2(Set(m, n, v))
         /\ (\A k \in 1 .. Len(v) : WellFormed3(v[k])) /\ WellFormed4(m)
              => WellFormed4(Set(m, n, v))
<1>1. Formed(m) /\ m.type = type /\ m.unknown = <<>> /\ n \in DOMAIN Schema[m.type]
  BY DEF Known, Nested
<1>2. /\ FieldOf(m, n).kind = "message" /\ FieldOf(m, n).label = "repeated"
      /\ FieldOf(m, n).type = of
  BY <1>1 DEF Nested, FieldOf
<1>3. \A k \in 1 .. Len(v) : v[k].type = FieldOf(m, n).type
  BY <1>2
<1>4. PICK x : x = Set(m, n, v)
  OBVIOUS
<1>5. /\ Formed(x) /\ x.type = m.type /\ x.unknown = m.unknown
      /\ (\A k \in 1 .. Len(v) : WellFormed0(v[k])) /\ WellFormed1(m) => WellFormed1(x)
      /\ (\A k \in 1 .. Len(v) : WellFormed1(v[k])) /\ WellFormed2(m) => WellFormed2(x)
      /\ (\A k \in 1 .. Len(v) : WellFormed3(v[k])) /\ WellFormed4(m) => WellFormed4(x)
  BY <1>1, <1>2, <1>3, <1>4, SetList
<1>6. Get(x, n) = v
  BY <1>1, <1>4, GetOfSet
<1>7. QED
  BY <1>1, <1>4, <1>5, <1>6 DEF Known

(* The fields that are not set.                                              *)
LEMMA Others ==
  ASSUME NEW m, NEW type, NEW n, NEW i, NEW v, Known(m, type),
         n \in DOMAIN Schema[type], i \in DOMAIN Schema[type], i # n,
         Schema[type][n].label # "oneof" \/ Schema[type][i].label # "oneof"
  PROVE  Get(Set(m, n, v), i) = Get(m, i) /\ (Has(Set(m, n, v), i) <=> Has(m, i))
<1>1. Formed(m) /\ m.type = type
  BY DEF Known
<1>2. ~ IsOneof(m, n) \/ ~ IsOneof(m, i)
  BY <1>1 DEF IsOneof, FieldOf
<1>3. QED
  BY <1>1, <1>2, GetOfOther

(* An address is well formed, and read as the number it was made from.       *)
LEMMA Addresses ==
  ASSUME NEW ip \in Nat
  PROVE  /\ WellFormed0(AddressOf(ip)) /\ AddressOf(ip).type = "Address"
         /\ IpAddr(AddressOf(ip)) = V4(ip)
<1>1. PICK m : m = NewMessage("Address") /\ Known(m, "Address") /\ WellFormed0(m)
  BY NewIsKnown, Types
<1>2. PICK x : x = Set(m, 1, ip)
  OBVIOUS
<1>3. Known(x, "Address") /\ Get(x, 1) = ip /\ Has(x, 1) /\ WellFormed0(x)
  BY <1>1, <1>2, SmallTypes, Scalars
<1>4. x = AddressOf(ip)
  BY <1>1, <1>2 DEF AddressOf
<1>5. QED
  BY <1>3, <1>4 DEF Known, IpAddr, V4

(* The metadata of a client, with a version or without, is well formed.      *)
LEMMA MetadataFacts ==
  ASSUME NEW hostname \in Seq(Byte), NEW version \in Seq(Byte)
  PROVE  /\ WellFormed0(Set(NewMessage("Metadata"), 1, hostname))
         /\ Set(NewMessage("Metadata"), 1, hostname).type = "Metadata"
         /\ WellFormed0(ClientMetadata(hostname, version))
         /\ ClientMetadata(hostname, version).type = "Metadata"
<1>1. PICK m : m = NewMessage("Metadata") /\ Known(m, "Metadata") /\ WellFormed0(m)
  BY NewIsKnown, Types
<1>2. PICK x : x = Set(m, 1, hostname)
  OBVIOUS
<1>3. Known(x, "Metadata") /\ WellFormed0(x)
  BY <1>1, <1>2, SmallTypes, Scalars
<1>4. PICK y : y = Set(x, 2, version)
  OBVIOUS
<1>5. Known(y, "Metadata") /\ WellFormed0(y)
  BY <1>3, <1>4, SmallTypes, Scalars
<1>6. y = ClientMetadata(hostname, version)
  BY <1>1, <1>2, <1>4 DEF ClientMetadata
<1>7. QED
  BY <1>1, <1>2, <1>3, <1>5, <1>6 DEF Known

(* A new message is well-formed at every depth.                              *)
LEMMA NewLevels ==
  ASSUME NEW type \in DOMAIN Schema
  PROVE  /\ Known(NewMessage(type), type) /\ WellFormed0(NewMessage(type))
         /\ WellFormed1(NewMessage(type)) /\ WellFormed2(NewMessage(type))
         /\ WellFormed3(NewMessage(type)) /\ WellFormed4(NewMessage(type))
BY NewIsKnown, Deeper

(* A client with metadata is well formed.                                    *)
LEMMA Clients1 ==
  ASSUME NEW metadata, WellFormed0(metadata), metadata.type = "Metadata"
  PROVE  /\ Known(Set(NewMessage("Client"), 2, metadata), "Client")
         /\ WellFormed1(Set(NewMessage("Client"), 2, metadata))
BY NewLevels, Types, ClientTypes, Nesteds

-----------------------------------------------------------------------------
(* The messages are built from addresses of these and by programs of one of  *)
(* the versions.                                                             *)
Sources == source \in Ips /\ targets \in Seq(Ips) /\ Len(targets) <= MaxTargets

(* The ping of the cli is well formed and holds its source and its targets.  *)
LEMMA Pings ==
  ASSUME Sources
  PROVE  /\ WellFormed1(BuildPing) /\ BuildPing.type = "Ping"
         /\ Get(BuildPing, 1) = AddressOf(source)
         /\ Get(BuildPing, 2) = [i \in 1 .. Len(targets) |-> AddressOf(targets[i])]
         /\ newer = "Ping" => BuildPing.unknown # <<>>
<1>1. PICK m : m = NewMessage("Ping") /\ Known(m, "Ping") /\ WellFormed1(m)
  BY NewLevels, Types
<1>2. PICK a : a = AddressOf(source) /\ WellFormed0(a) /\ a.type = "Address"
  BY Addresses, MessageFlowAssumption DEF Sources
<1>3. PICK l : l = [i \in 1 .. Len(targets) |-> AddressOf(targets[i])]
  OBVIOUS
<1>4. /\ IsList(l) /\ Len(l) = Len(targets)
      /\ \A i \in 1 .. Len(l) : l[i].type = "Address" /\ WellFormed0(l[i])
  <2>1. Len(targets) \in Nat /\ \A i \in 1 .. Len(targets) : targets[i] \in Nat
    BY MessageFlowAssumption DEF Sources
  <2>2. \A i \in 1 .. Len(targets) : l[i] = AddressOf(targets[i])
    BY <1>3
  <2>3. \A i \in 1 .. Len(targets) : l[i].type = "Address" /\ WellFormed0(l[i])
    BY <2>1, <2>2, Addresses
  <2>4. PICK S : S = {AddressOf(targets[i]) : i \in 1 .. Len(targets)}
    OBVIOUS
  <2>5. l \in Seq(S) /\ Len(l) = Len(targets)
    BY <1>3, <2>1, <2>4
  <2>6. QED
    BY <2>3, <2>5 DEF IsList
<1>5. PICK x : x = Set(m, 1, a)
  OBVIOUS
<1>6. Known(x, "Ping") /\ Get(x, 1) = a /\ WellFormed1(x)
  BY <1>1, <1>2, <1>5, TaskTypes, Nesteds
<1>7. PICK y : y = Set(x, 2, l)
  OBVIOUS
<1>8. Known(y, "Ping") /\ Get(y, 2) = l /\ WellFormed1(y)
  <2>1. Nested("Ping", 2, "Address", "repeated")
    BY TaskTypes
  <2>2. /\ Known(Set(x, 2, l), "Ping") /\ Get(Set(x, 2, l), 2) = l
        /\ (\A k \in 1 .. Len(l) : WellFormed0(l[k])) /\ WellFormed1(x) => WellFormed1(Set(x, 2, l))
    BY <1>4, <1>6, <2>1, Lists
  <2>3. QED
    BY <1>4, <1>6, <1>7, <2>2
<1>9. Get(y, 1) = a
  BY <1>6, <1>7, TaskTypes, Others DEF Nested
<1>10. BuildPing = Versioned(y)
  BY <1>1, <1>2, <1>3, <1>5, <1>7 DEF BuildPing
<1>11. QED
  BY <1>2, <1>3, <1>8, <1>9, <1>10, NewFieldFacts DEF Known

(* A call of do_task carries its ping.                                       *)
LEMMA Schedules ==
  ASSUME NEW ping, WellFormed1(ping), ping.type = "Ping",
         NEW client, WellFormed1(client), client.type = "Client"
  PROVE  LET m == Set(Set(NewMessage("ScheduleTask"), 2, ping), 1, client) IN
         WellFormed4(m) /\ m.type = "ScheduleTask" /\ Has(m, 2) /\ Get(m, 2) = ping
<1>1. PICK m : m = NewMessage("ScheduleTask") /\ Known(m, "ScheduleTask") /\ WellFormed2(m)
  BY NewLevels, Types
<1>2. PICK x : x = Set(m, 2, ping)
  OBVIOUS
<1>3. Known(x, "ScheduleTask") /\ Get(x, 2) = ping /\ Has(x, 2) /\ WellFormed2(x)
  BY <1>1, <1>2, ClientTypes, Nesteds
<1>4. PICK y : y = Set(x, 1, client)
  OBVIOUS
<1>5. Known(y, "ScheduleTask") /\ WellFormed2(y)
  BY <1>3, <1>4, ClientTypes, Nesteds
<1>6. Get(y, 2) = Get(x, 2) /\ (Has(y, 2) <=> Has(x, 2))
  BY <1>3, <1>4, ClientTypes, Others DEF Nested
<1>7. QED
  BY <1>1, <1>2, <1>3, <1>4, <1>5, <1>6, Deeper DEF Known

(* A task carries its id and its ping.                                       *)
LEMMA Tasks ==
  ASSUME NEW id \in Nat, NEW ping, WellFormed1(ping), ping.type = "Ping"
  PROVE  /\ WellFormed4(TaskOf(id, ping)) /\ TaskOf(id, ping).type = "Task"
         /\ Has(TaskOf(id, ping), 2) /\ Get(TaskOf(id, ping), 2) = ping
         /\ Get(TaskOf(id, ping), 1) = id
<1>1. PICK m : m = NewMessage("Task") /\ Known(m, "Task") /\ WellFormed2(m)
  BY NewLevels, Types
<1>2. PICK x : x = Set(m, 1, id)
  OBVIOUS
<1>3. Known(x, "Task") /\ Get(x, 1) = id /\ WellFormed2(x)
  <2>1. Scalar("Task", 1, "uint", "plain")
    BY TaskTypes
  <2>2. QED
    BY <1>1, <1>2, <2>1, Scalars, SMTT(60)
<1>4. PICK y : y = Set(x, 2, ping)
  OBVIOUS
<1>5. Known(y, "Task") /\ Get(y, 2) = ping /\ Has(y, 2) /\ WellFormed2(y)
  BY <1>3, <1>4, TaskTypes, Nesteds
<1>6. Get(y, 1) = Get(x, 1)
  BY <1>3, <1>4, TaskTypes, Others DEF Nested, Scalar
<1>7. y = TaskOf(id, ping)
  BY <1>1, <1>2, <1>4 DEF TaskOf
<1>8. QED
  BY <1>3, <1>5, <1>6, <1>7, Deeper DEF Known

(* A task id carries its number.                                             *)
LEMMA TaskIds1 ==
  ASSUME NEW id \in Nat
  PROVE  LET m == Set(NewMessage("TaskId"), 1, id) IN
         WellFormed4(m) /\ m.type = "TaskId" /\ Get(m, 1) = id
<1>1. PICK m : m = NewMessage("TaskId") /\ Known(m, "TaskId") /\ WellFormed0(m)
  BY NewLevels, Types
<1>2. PICK x : x = Set(m, 1, id)
  OBVIOUS
<1>3. Known(x, "TaskId") /\ Get(x, 1) = id /\ WellFormed0(x)
  BY <1>1, <1>2, SmallTypes, Scalars
<1>4. QED
  BY <1>1, <1>2, <1>3, Deeper DEF Known

(* The three answers a call of do_task or send_result can get.               *)
LEMMA Acks ==
  /\ WellFormed4(NewMessage("Ack")) /\ NewMessage("Ack").type = "Ack"
  /\ Get(NewMessage("Ack"), 2) = FALSE
  /\ \A id \in Nat :
       /\ WellFormed4(Acknowledge(id)) /\ Acknowledge(id).type = "Ack"
       /\ Get(Acknowledge(id), 1) = id
  /\ \A text \in Seq(Byte) :
       /\ WellFormed4(Refuse(text)) /\ Refuse(text).type = "Ack" /\ Get(Refuse(text), 2) = FALSE
       /\ \A id \in Nat :
            /\ WellFormed4(Set(Refuse(text), 1, id)) /\ Set(Refuse(text), 1, id).type = "Ack"
            /\ Get(Set(Refuse(text), 1, id), 2) = FALSE
<1>1. PICK m : m = NewMessage("Ack") /\ Known(m, "Ack") /\ WellFormed0(m) /\ WellFormed4(m)
  BY NewLevels, Types
<1>2. Get(m, 2) = FALSE
  <2>1. "Ack" \in DOMAIN Schema /\ 2 \in DOMAIN Schema["Ack"] /\ Schema["Ack"][2].label = "plain"
        /\ Schema["Ack"][2].kind = "bool"
    BY SmallTypes DEF Scalar
  <2>2. PICK field : field = Schema["Ack"][2]
    OBVIOUS
  <2>3. DefaultOf(field) = FALSE
    BY <2>1, <2>2 DEF DefaultOf
  <2>4. QED
    BY <1>1, <2>1, <2>2, <2>3, GetOfNew
<1>3. ASSUME NEW id \in Nat
      PROVE  /\ WellFormed4(Acknowledge(id)) /\ Acknowledge(id).type = "Ack"
             /\ Get(Acknowledge(id), 1) = id
  <2>1. PICK x : x = Set(m, 1, id)
    OBVIOUS
  <2>2. Known(x, "Ack") /\ Get(x, 1) = id /\ WellFormed0(x)
    BY <1>1, <2>1, SmallTypes, Scalars
  <2>3. PICK y : y = Set(x, 2, TRUE)
    OBVIOUS
  <2>4. Known(y, "Ack") /\ WellFormed0(y)
    BY <2>2, <2>3, SmallTypes, Scalars
  <2>5. Get(y, 1) = Get(x, 1)
    <3>1. /\ 1 \in DOMAIN Schema["Ack"] /\ 2 \in DOMAIN Schema["Ack"]
          /\ Schema["Ack"][2].label = "plain"
      BY SmallTypes DEF Scalar
    <3>2. Schema["Ack"][2].label # "oneof"
      BY <3>1
    <3>3. PICK v : v = TRUE
      OBVIOUS
    <3>4. Get(Set(x, 2, v), 1) = Get(x, 1)
      BY <2>2, <3>1, <3>2, Others
    <3>5. QED
      BY <2>3, <3>3, <3>4, Zenon
  <2>6. y = Acknowledge(id)
    BY <1>1, <2>1, <2>3 DEF Acknowledge
  <2>7. QED
    BY <2>2, <2>4, <2>5, <2>6, Deeper DEF Known
<1>4. ASSUME NEW text \in Seq(Byte)
      PROVE  /\ WellFormed4(Refuse(text)) /\ Refuse(text).type = "Ack" /\ Get(Refuse(text), 2) = FALSE
             /\ \A id \in Nat :
                  /\ WellFormed4(Set(Refuse(text), 1, id)) /\ Set(Refuse(text), 1, id).type = "Ack"
                  /\ Get(Set(Refuse(text), 1, id), 2) = FALSE
  <2>1. PICK x : x = Refuse(text)
    OBVIOUS
  <2>2. x = Set(m, 3, text)
    BY <1>1, <2>1 DEF Refuse
  <2>3. Known(x, "Ack") /\ WellFormed0(x)
    BY <1>1, <2>2, SmallTypes, Scalars
  <2>4. Get(x, 2) = FALSE
    BY <1>1, <1>2, <2>2, SmallTypes, Others DEF Scalar
  <2>5. ASSUME NEW id \in Nat
        PROVE  WellFormed4(Set(x, 1, id)) /\ Set(x, 1, id).type = "Ack" /\ Get(Set(x, 1, id), 2) = FALSE
    <3>1. PICK y : y = Set(x, 1, id)
      OBVIOUS
    <3>2. Known(y, "Ack") /\ WellFormed0(y)
      BY <2>3, <3>1, SmallTypes, Scalars
    <3>3. Get(y, 2) = FALSE
      BY <2>3, <2>4, <3>1, SmallTypes, Others DEF Scalar
    <3>4. QED
      BY <3>1, <3>2, <3>3, Deeper DEF Known
  <2>6. QED
    BY <2>1, <2>3, <2>4, <2>5, Deeper DEF Known
<1>5. QED
  BY <1>1, <1>2, <1>3, <1>4 DEF Known

(* The payload of the ping to one address.                                   *)
IsPayload(m, id, from, to, version) ==
  /\ WellFormed1(m) /\ m.type = "PingPayload" /\ Get(m, 1) = id
  /\ IpAddr(Get(m, 4)) = V4(to) /\ IpAddr(Get(m, 3)) = V4(from)
  /\ version = "PingPayload" => m.unknown # <<>>

(* What the four setters of perform_ping make of a new payload.              *)
LEMMA PayloadSetters ==
  ASSUME NEW a, WellFormed0(a), a.type = "Address", NEW b, WellFormed0(b), b.type = "Address",
         NEW id \in Nat, NEW time \in Nat, NEW y,
         y = Set(Set(Set(Set(NewMessage("PingPayload"), 3, a), 4, b), 1, id), 2, time)
  PROVE  /\ Known(y, "PingPayload") /\ WellFormed1(y)
         /\ Get(y, 1) = id /\ Get(y, 3) = a /\ Get(y, 4) = b
<1>1. /\ Scalar("PingPayload", 1, "uint", "plain") /\ Scalar("PingPayload", 2, "uint", "plain")
      /\ Nested("PingPayload", 3, "Address", "singular")
      /\ Nested("PingPayload", 4, "Address", "singular")
  BY PayloadTypes
<1>2. /\ 1 \in DOMAIN Schema["PingPayload"] /\ 2 \in DOMAIN Schema["PingPayload"]
      /\ 3 \in DOMAIN Schema["PingPayload"] /\ 4 \in DOMAIN Schema["PingPayload"]
      /\ Schema["PingPayload"][1].label # "oneof" /\ Schema["PingPayload"][2].label # "oneof"
      /\ Schema["PingPayload"][3].label # "oneof" /\ Schema["PingPayload"][4].label # "oneof"
  BY <1>1 DEF Scalar, Nested
<1>3. PICK m : m = NewMessage("PingPayload") /\ Known(m, "PingPayload") /\ WellFormed1(m)
  BY NewLevels, Types
<1>4. PICK m1 : m1 = Set(m, 3, a)
  OBVIOUS
<1>5. Known(m1, "PingPayload") /\ Get(m1, 3) = a /\ WellFormed1(m1)
  BY <1>1, <1>3, <1>4, Nesteds
<1>6. PICK m2 : m2 = Set(m1, 4, b)
  OBVIOUS
<1>7. Known(m2, "PingPayload") /\ Get(m2, 4) = b /\ WellFormed1(m2)
  <2>1. Nested("PingPayload", 4, "Address", "singular")
    BY <1>1
  <2>2. QED
    BY <1>5, <1>6, <2>1, Nesteds
<1>8. Get(m2, 3) = a
  BY <1>2, <1>5, <1>6, Others
<1>9. PICK m3 : m3 = Set(m2, 1, id)
  OBVIOUS
<1>10. Known(m3, "PingPayload") /\ Get(m3, 1) = id /\ WellFormed1(m3)
  BY <1>1, <1>7, <1>9, Scalars
<1>11. Get(m3, 3) = a /\ Get(m3, 4) = b
  BY <1>2, <1>7, <1>8, <1>9, Others
<1>12. y = Set(m3, 2, time)
  BY <1>3, <1>4, <1>6, <1>9
<1>13. Known(y, "PingPayload") /\ WellFormed1(y)
  BY <1>1, <1>10, <1>12, Scalars
<1>14. Get(y, 1) = id /\ Get(y, 3) = a /\ Get(y, 4) = b
  BY <1>2, <1>10, <1>11, <1>12, Others
<1>15. QED
  BY <1>13, <1>14

(* A payload carries the task's id, the source and the target it was made    *)
(* for.                                                                      *)
LEMMA PayloadFacts ==
  ASSUME Sources, NEW task1, Get(task1, 2) = BuildPing, Get(task1, 1) \in Nat,
         NEW i \in 1 .. Len(targets), NEW time \in Nat
  PROVE  IsPayload(PayloadFor(task1, i, time), Get(task1, 1), source, targets[i], newer)
<1>1. PICK a : a = AddressOf(source) /\ Get(BuildPing, 1) = a
  BY Pings
<1>2. PICK b : b = AddressOf(targets[i]) /\ Get(BuildPing, 2)[i] = b
  BY Pings
<1>3. source \in Nat /\ targets[i] \in Nat
  BY MessageFlowAssumption DEF Sources
<1>4. /\ WellFormed0(a) /\ a.type = "Address" /\ IpAddr(a) = V4(source)
      /\ WellFormed0(b) /\ b.type = "Address" /\ IpAddr(b) = V4(targets[i])
  BY <1>1, <1>2, <1>3, Addresses
<1>5. PICK id \in Nat : id = Get(task1, 1)
  OBVIOUS
<1>6. PICK y : y = Set(Set(Set(Set(NewMessage("PingPayload"), 3, a), 4, b), 1, id), 2, time)
  OBVIOUS
<1>7. /\ Known(y, "PingPayload") /\ WellFormed1(y)
      /\ Get(y, 1) = id /\ Get(y, 3) = a /\ Get(y, 4) = b
  BY <1>4, <1>6, PayloadSetters
<1>8. PayloadFor(task1, i, time) = Versioned(y)
  BY <1>1, <1>2, <1>5, <1>6 DEF PayloadFor
<1>9. PICK z : z = Versioned(y)
  OBVIOUS
<1>10. /\ WellFormed1(z) /\ z.type = "PingPayload"
       /\ newer = "PingPayload" => z.unknown # <<>>
       /\ Get(z, 1) = id /\ Get(z, 3) = a /\ Get(z, 4) = b
  BY <1>7, <1>9, NewFieldFacts DEF Known
<1>11. QED
  BY <1>4, <1>5, <1>8, <1>9, <1>10 DEF IsPayload

(* The result for one reply.                                                 *)
IsReply(reply) == reply.from \in Ips /\ reply.to \in Ips /\ reply.at \in Times

IsResult(m, reply, payload, version) ==
  /\ WellFormed3(m) /\ m.type = "Result" /\ Has(m, 1)
  /\ IpAddr(Get(Get(m, 1), 1)) = V4(reply.from) /\ IpAddr(Get(Get(m, 1), 2)) = V4(reply.to)
  /\ Get(Get(m, 1), 3) = reply.at /\ Get(Get(m, 1), 4) = payload
  /\ version = "PingResult" => Get(m, 1).unknown # <<>>

(* What the five setters of the inbound handler make of a new result.        *)
LEMMA ResultSetters ==
  ASSUME NEW a, WellFormed0(a), a.type = "Address", NEW b, WellFormed0(b), b.type = "Address",
         NEW time \in Nat, NEW payload, WellFormed1(payload), payload.type = "PingPayload", NEW y,
         y = Set(Set(Set(Set(Set(NewMessage("PingResult"), 4, payload), 1, a), 2, b), 3, time), 5, 64)
  PROVE  /\ Known(y, "PingResult") /\ WellFormed2(y)
         /\ Get(y, 1) = a /\ Get(y, 2) = b /\ Get(y, 3) = time /\ Get(y, 4) = payload
<1>1. /\ Nested("PingResult", 1, "Address", "singular")
      /\ Nested("PingResult", 2, "Address", "singular")
      /\ Scalar("PingResult", 3, "uint", "plain")
      /\ Nested("PingResult", 4, "PingPayload", "singular")
      /\ Scalar("PingResult", 5, "uint", "plain")
  BY PingResultTypes
<1>2. \A n \in 1 .. 5 :
        n \in DOMAIN Schema["PingResult"] /\ Schema["PingResult"][n].label # "oneof"
  <2>1. TAKE n \in 1 .. 5
  <2>2. n = 1 \/ n = 2 \/ n = 3 \/ n = 4 \/ n = 5
    OBVIOUS
  <2>3. QED
    BY <1>1, <2>2 DEF Scalar, Nested
<1>3. PICK m : m = NewMessage("PingResult") /\ Known(m, "PingResult") /\ WellFormed2(m)
  BY NewLevels, Types
<1>4. PICK m1 : m1 = Set(m, 4, payload)
  OBVIOUS
<1>5. Known(m1, "PingResult") /\ Get(m1, 4) = payload /\ WellFormed2(m1)
  <2>1. Nested("PingResult", 4, "PingPayload", "singular")
    BY <1>1
  <2>2. Known(m1, "PingResult") /\ Get(m1, 4) = payload
    BY <1>3, <1>4, <2>1, Nesteds
  <2>3. WellFormed2(m1)
    BY <1>3, <1>4, <2>1, Nesteds
  <2>4. QED
    BY <2>2, <2>3
<1>6. WellFormed1(a) /\ WellFormed1(b)
  BY Deeper
<1>7. PICK m2 : m2 = Set(m1, 1, a)
  OBVIOUS
<1>8. Known(m2, "PingResult") /\ Get(m2, 1) = a /\ WellFormed2(m2)
  <2>1. Nested("PingResult", 1, "Address", "singular")
    BY <1>1
  <2>2. Known(m2, "PingResult") /\ Get(m2, 1) = a
    BY <1>5, <1>7, <2>1, Nesteds, SMTT(60)
  <2>3. WellFormed2(m2)
    BY <1>5, <1>6, <1>7, <2>1, Nesteds
  <2>4. QED
    BY <2>2, <2>3
<1>9. Get(m2, 4) = payload
  BY <1>2, <1>5, <1>7, Others
<1>10. PICK m3 : m3 = Set(m2, 2, b)
  OBVIOUS
<1>11. Known(m3, "PingResult") /\ Get(m3, 2) = b /\ WellFormed2(m3)
  BY <1>1, <1>6, <1>8, <1>10, Nesteds
<1>12. Get(m3, 1) = a /\ Get(m3, 4) = payload
  BY <1>2, <1>8, <1>9, <1>10, Others
<1>13. PICK m4 : m4 = Set(m3, 3, time)
  OBVIOUS
<1>14. Known(m4, "PingResult") /\ Get(m4, 3) = time /\ WellFormed2(m4)
  <2>1. Scalar("PingResult", 3, "uint", "plain")
    BY <1>1
  <2>2. QED
    BY <1>11, <1>13, <2>1, Scalars
<1>15. Get(m4, 1) = a /\ Get(m4, 2) = b /\ Get(m4, 4) = payload
  BY <1>2, <1>11, <1>12, <1>13, Others
<1>16. y = Set(m4, 5, 64)
  BY <1>3, <1>4, <1>7, <1>10, <1>13
<1>17. Known(y, "PingResult") /\ WellFormed2(y)
  BY <1>1, <1>14, <1>16, Scalars
<1>18. Get(y, 1) = a /\ Get(y, 2) = b /\ Get(y, 3) = time /\ Get(y, 4) = payload
  BY <1>2, <1>14, <1>15, <1>16, Others
<1>19. QED
  BY <1>17, <1>18

(* A result carries the addresses of the reply it was made for and its       *)
(* payload.                                                                  *)
LEMMA ResultFacts ==
  ASSUME NEW reply, IsReply(reply), NEW payload, WellFormed1(payload),
         payload.type = "PingPayload"
  PROVE  IsResult(ResultFor(reply, payload), reply, payload, newer)
<1>1. reply.from \in Nat /\ reply.to \in Nat /\ reply.at \in Nat
  BY MessageFlowAssumption DEF IsReply
<1>2. PICK a : a = AddressOf(reply.from)
  OBVIOUS
<1>3. PICK b : b = AddressOf(reply.to)
  OBVIOUS
<1>4. /\ WellFormed0(a) /\ a.type = "Address" /\ IpAddr(a) = V4(reply.from)
      /\ WellFormed0(b) /\ b.type = "Address" /\ IpAddr(b) = V4(reply.to)
  BY <1>1, <1>2, <1>3, Addresses
<1>5. PICK y :
        y = Set(Set(Set(Set(Set(NewMessage("PingResult"), 4, payload), 1, a), 2, b), 3, reply.at),
                5, 64)
  OBVIOUS
<1>6. /\ Known(y, "PingResult") /\ WellFormed2(y)
      /\ Get(y, 1) = a /\ Get(y, 2) = b /\ Get(y, 3) = reply.at /\ Get(y, 4) = payload
  BY <1>1, <1>4, <1>5, ResultSetters
<1>7. PICK z : z = Versioned(y)
  OBVIOUS
<1>8. /\ WellFormed2(z) /\ z.type = "PingResult"
      /\ newer = "PingResult" => z.unknown # <<>>
      /\ Get(z, 1) = a /\ Get(z, 2) = b /\ Get(z, 3) = reply.at /\ Get(z, 4) = payload
  BY <1>6, <1>7, NewFieldFacts DEF Known
<1>9. PICK m : m = NewMessage("Result") /\ Known(m, "Result") /\ WellFormed3(m)
  BY NewLevels, Types
<1>10. PICK r : r = Set(m, 1, z)
  OBVIOUS
<1>11. Known(r, "Result") /\ Get(r, 1) = z /\ Has(r, 1) /\ WellFormed3(r)
  <2>1. Nested("Result", 1, "PingResult", "oneof") /\ Known(m, "Result") /\ z.type = "PingResult"
    BY <1>8, <1>9, ResultTypes
  <2>2. Known(r, "Result") /\ Get(r, 1) = z
    BY <1>10, <2>1, Nesteds
  <2>3. Has(r, 1)
    BY <1>8, <1>9, <1>10, <2>1, Nesteds
  <2>4. WellFormed3(r)
    BY <1>8, <1>9, <1>10, <2>1, Nesteds
  <2>5. QED
    BY <2>2, <2>3, <2>4
<1>12. r = ResultFor(reply, payload)
  BY <1>2, <1>3, <1>5, <1>7, <1>9, <1>10 DEF ResultFor
<1>13. QED
  BY <1>4, <1>8, <1>11, <1>12 DEF IsResult, Known

(* The client of this host is well formed.                                   *)
LEMMA ClientOfThisHost ==
  LET client == Set(NewMessage("Client"), 2, ClientMetadata(Hostname, <<1>>)) IN
  Known(client, "Client") /\ WellFormed1(client)
<1>1. <<1>> \in Seq(Byte) /\ Hostname \in Seq(Byte)
  BY MessageFlowAssumption DEF Byte
<1>2. QED
  BY <1>1, MetadataFacts, Clients1

(* A task result carries its results.                                        *)
LEMMA TaskResults ==
  ASSUME NEW id \in Nat, NEW results, IsList(results),
         \A k \in 1 .. Len(results) : WellFormed3(results[k]) /\ results[k].type = "Result"
  PROVE  /\ WellFormed4(TaskResultOf(id, results)) /\ TaskResultOf(id, results).type = "TaskResult"
         /\ Get(TaskResultOf(id, results), 3) = results
<1>1. PICK client : /\ client = Set(NewMessage("Client"), 2, ClientMetadata(Hostname, <<1>>))
                    /\ client.type = "Client" /\ WellFormed3(client)
  BY ClientOfThisHost, Deeper DEF Known
<1>2. PICK m : m = NewMessage("TaskResult") /\ Known(m, "TaskResult") /\ WellFormed4(m)
  BY NewLevels, Types
<1>3. PICK x : x = Set(m, 1, id)
  OBVIOUS
<1>4. Known(x, "TaskResult") /\ WellFormed4(x)
  <2>1. Scalar("TaskResult", 1, "uint", "plain")
    BY ResultTypes
  <2>2. QED
    BY <1>2, <1>3, <2>1, Scalars
<1>5. PICK y : y = Set(x, 2, client)
  OBVIOUS
<1>6. Known(y, "TaskResult") /\ WellFormed4(y)
  BY <1>1, <1>4, <1>5, ResultTypes, Nesteds
<1>7. PICK z : z = Set(y, 3, results)
  OBVIOUS
<1>8. Known(z, "TaskResult") /\ Get(z, 3) = results /\ WellFormed4(z)
  <2>1. Nested("TaskResult", 3, "Result", "repeated")
    BY ResultTypes
  <2>2. /\ Known(Set(y, 3, results), "TaskResult") /\ Get(Set(y, 3, results), 3) = results
        /\ (\A k \in 1 .. Len(results) : WellFormed3(results[k])) /\ WellFormed4(y)
              => WellFormed4(Set(y, 3, results))
    BY <1>6, <2>1, Lists
  <2>3. QED
    BY <1>6, <1>7, <2>2
<1>9. z = TaskResultOf(id, results)
  BY <1>1, <1>2, <1>3, <1>5, <1>7 DEF TaskResultOf
<1>10. QED
  BY <1>8, <1>9 DEF Known

(* The keepalive, which holds no ping, and the list of clients.              *)
LEMMA Keepalives ==
  LET m == Set(NewMessage("Task"), 3, NewMessage("Empty")) IN
  WellFormed4(m) /\ m.type = "Task" /\ ~ Has(m, 2)
<1>1. PICK m : m = NewMessage("Task") /\ Known(m, "Task") /\ WellFormed1(m)
  BY NewLevels, Types
<1>2. PICK e : e = NewMessage("Empty") /\ e.type = "Empty" /\ WellFormed0(e)
  BY NewLevels, Types DEF Known
<1>3. PICK x : x = Set(m, 3, e)
  OBVIOUS
<1>4. Known(x, "Task") /\ WellFormed1(x)
  BY <1>1, <1>2, <1>3, TaskTypes, Nesteds
<1>5. Nested("Task", 2, "Ping", "oneof") /\ Nested("Task", 3, "Empty", "oneof")
  BY TaskTypes
<1>6. /\ Formed(m) /\ 2 \in DOMAIN Schema[m.type] /\ 3 \in DOMAIN Schema[m.type]
      /\ IsOneof(m, 2) /\ IsOneof(m, 3)
  BY <1>1, <1>5 DEF Known, Nested, IsOneof, FieldOf
<1>7. ~ Has(x, 2)
  BY <1>3, <1>6, OneofIsReplaced
<1>8. QED
  BY <1>1, <1>2, <1>3, <1>4, <1>7, Deeper DEF Known

(* The list of the registered client is well formed.                         *)
LEMMA ListsOfClients ==
  LET client == Set(Set(NewMessage("Client"), 1, Index), 2, ClientMetadata(Hostname, <<1>>))
      list == Set(NewMessage("ClientList"), 1, <<client>>)
  IN  WellFormed4(list) /\ list.type = "ClientList"
<1>1. PICK d : d = ClientMetadata(Hostname, <<1>>) /\ WellFormed0(d) /\ d.type = "Metadata"
  <2>1. <<1>> \in Seq(Byte) /\ Hostname \in Seq(Byte)
    BY MessageFlowAssumption DEF Byte
  <2>2. QED
    BY <2>1, MetadataFacts
<1>2. PICK m : m = NewMessage("Client") /\ Known(m, "Client") /\ WellFormed1(m)
  BY NewLevels, Types
<1>3. PICK x : x = Set(m, 1, Index)
  OBVIOUS
<1>4. Known(x, "Client") /\ WellFormed1(x)
  <2>1. Scalar("Client", 1, "uint", "plain") /\ Index \in Nat
    BY ClientTypes, MessageFlowAssumption
  <2>2. QED
    BY <1>2, <1>3, <2>1, Scalars
<1>5. PICK c : c = Set(x, 2, d)
  OBVIOUS
<1>6. Known(c, "Client") /\ WellFormed1(c)
  BY <1>1, <1>4, <1>5, ClientTypes, Nesteds
<1>7. PICK n : n = NewMessage("ClientList") /\ Known(n, "ClientList") /\ WellFormed2(n)
  BY NewLevels, Types
<1>8. PICK l : l = <<c>> /\ IsList(l) /\ Len(l) = 1 /\ l[1] = c
  BY OneElement
<1>9. \A k \in 1 .. Len(l) : l[k].type = "Client" /\ WellFormed1(l[k])
  BY <1>6, <1>8 DEF Known
<1>10. PICK y : y = Set(n, 1, l)
  OBVIOUS
<1>11. Known(y, "ClientList") /\ WellFormed2(y)
  <2>1. Nested("ClientList", 1, "Client", "repeated")
    BY ClientTypes
  <2>2. /\ Known(Set(n, 1, l), "ClientList")
        /\ (\A k \in 1 .. Len(l) : WellFormed1(l[k])) /\ WellFormed2(n) => WellFormed2(Set(n, 1, l))
    BY <1>7, <1>8, <1>9, <2>1, Lists
  <2>3. QED
    BY <1>7, <1>9, <1>10, <2>2
<1>12. QED
  BY <1>1, <1>2, <1>3, <1>5, <1>7, <1>8, <1>10, <1>11, Deeper DEF Known

-----------------------------------------------------------------------------
(***************************************************************************)
(* The bytes of payloads: what PingPath assumes of them.                   *)
(***************************************************************************)

(* The bytes of a message with nothing unknown, field by field.              *)
LEMMA WrittenFieldByField ==
  ASSUME NEW m, WellFormed4(m), m.unknown = <<>>
  PROVE  \E F, left :
           /\ FieldsOnWire(F) /\ Remaining(F, left) /\ WriteToBytes(m) = left[0]
           /\ Len(F) = Len(Present(m))
           /\ \A k \in 1 .. Len(F) : F[k].number = Present(m)[k][1]
<1>1. Formed(m)
  BY DEF WellFormed4
<1>2. PICK nested : nested = [k \in 1 .. Len(Present(m)) |->
     IF IsNested(m, Present(m)[k][1]) THEN Serialised3(Present(m)[k][2])
                                      ELSE [size |-> 0, bytes |-> <<>>]]
  OBVIOUS
<1>3. WriteToBytes(m) = Serialised(m, nested).bytes
  BY <1>2, Zenon DEF WriteToBytes, Serialised4, NestedIn
<1>4. NestedAreRead(m, nested, Parsed3)
  <2>1. ASSUME NEW k \in 1 .. Len(Present(m)), IsNested(m, Present(m)[k][1])
        PROVE  /\ nested[k].bytes \in Seq(Byte) /\ nested[k].size = Len(nested[k].bytes)
               /\ Parsed3[Present(m)[k][2].type][nested[k].bytes] = Ok(Present(m)[k][2], <<>>)
    <3>1. PICK v : v = Present(m)[k][2]
      OBVIOUS
    <3>2. WellFormed3(v)
      BY <1>1, <2>1, <3>1, EntryIsHeld DEF WellFormed4
    <3>3. nested[k] = Serialised3(v)
      BY <1>2, <2>1, <3>1
    <3>4. QED
      BY <3>1, <3>2, <3>3, Level3 DEF IsParsed
  <2>2. QED
    BY <2>1 DEF NestedAreRead
<1>5. PICK F : F = OnWire(m, nested)
  OBVIOUS
<1>6. PICK p \in Nat : p = Len(Present(m))
  BY <1>1, FieldsWritten
<1>7. /\ Len(F) = p
      /\ \A k \in 1 .. p : F[k] = FieldOnWire(m, Present(m)[k][1], Present(m)[k][2], nested[k])
  <2>1. Len(m.unknown) = 0
    BY EmptySeq
  <2>2. QED
    BY <1>1, <1>5, <1>6, <2>1, FieldsWritten
<1>8. ASSUME NEW k \in 1 .. p PROVE IsOnWire(F[k]) /\ F[k].number = Present(m)[k][1]
  <2>1. PICK n, v : n = Present(m)[k][1] /\ v = Present(m)[k][2]
    OBVIOUS
  <2>2. PICK f : f = FieldOnWire(m, n, v, nested[k])
    OBVIOUS
  <2>3. IsOnWire(f) /\ f.number = n
    BY <1>1, <1>4, <1>6, <2>1, <2>2, EntryOnWire
  <2>4. QED
    BY <1>7, <2>1, <2>2, <2>3
<1>9. FieldsOnWire(F)
  BY <1>7, <1>8 DEF FieldsOnWire
<1>10. PICK left : /\ Remaining(F, left)
                   /\ Serialised(m, nested) = [size |-> Len(left[0]), bytes |-> left[0]]
  BY <1>5, <1>9, SerialisedIsDefined
<1>11. WriteToBytes(m) = left[0]
  BY <1>3, <1>10
<1>12. QED
  BY <1>6, <1>7, <1>8, <1>9, <1>10, <1>11

(* The fields G come first, and e is what remains of the bytes after them.    *)
BeginsWith(F, left, G, e) ==
  /\ Len(G) <= Len(F) /\ left[Len(G)] = e
  /\ \A k \in 1 .. Len(G) : F[k].number = G[k].number

(* If the bytes of some fields begin with those of others, then these are    *)
(* the first ones: a field is read in the same way whatever follows it.      *)
LEMMA FirstFields ==
  ASSUME NEW F, NEW left, FieldsOnWire(F), Remaining(F, left),
         NEW G, NEW right, FieldsOnWire(G), Remaining(G, right),
         NEW e \in Seq(Byte), left[0] = right[0] \o e
  PROVE  BeginsWith(F, left, G, e)
<1>1. PICK M \in Nat, N \in Nat : M = Len(F) /\ N = Len(G)
  BY DEF FieldsOnWire
<1>2. /\ left \in [0 .. M -> Seq(Byte)] /\ left[M] = <<>>
      /\ \A k \in 1 .. M : left[k - 1] = BytesOf(F[k]) \o left[k] /\ IsOnWire(F[k])
  BY <1>1 DEF Remaining, FieldsOnWire
<1>3. /\ right \in [0 .. N -> Seq(Byte)] /\ right[N] = <<>>
      /\ \A k \in 1 .. N : right[k - 1] = BytesOf(G[k]) \o right[k] /\ IsOnWire(G[k])
  BY <1>1 DEF Remaining, FieldsOnWire
<1> DEFINE Same(k) == k <= M /\ left[k] = right[k] \o e
           T == {k \in 0 .. N : Same(k) /\ (k > 0 => F[k].number = G[k].number)}
<1>4. 0 \in T
  BY <1>1
<1>5. ASSUME NEW n \in 0 .. N, n \in T, n < N PROVE n + 1 \in T
  <2>1. PICK k \in 1 .. N : k = n + 1 /\ k - 1 = n
    <3>1. n + 1 \in 1 .. N /\ (n + 1) - 1 = n
      BY <1>1, <1>5
    <3>2. QED
      BY <3>1
  <2>2. PICK g : g = G[k] /\ IsOnWire(g)
    BY <1>3
  <2>3. PICK b \in Seq(Byte), r \in Seq(Byte) :
          b = BytesOf(g) /\ r = right[k] /\ right[n] = b \o r
    <3>1. right[k - 1] = BytesOf(g) \o right[k]
      BY <1>3, <2>2
    <3>2. BytesOf(g) \in Seq(Byte)
      BY <2>2, FieldIsRead
    <3>3. right[k] \in Seq(Byte)
      <4>1. k \in 0 .. N /\ right \in [0 .. N -> Seq(Byte)]
        BY <1>3
      <4>2. QED
        BY <4>1
    <3>4. QED
      BY <2>1, <3>1, <3>2, <3>3
  <2>4. n <= M /\ left[n] = right[n] \o e
    BY <1>5
  <2>5. PICK t \in Seq(Byte) : t = r \o e
    BY ConcatProperties
  <2>6. b # <<>> /\ Raw(g, b \o t, t)
    BY <2>2, <2>3, FieldIsRead
  <2>7. left[n] = b \o t
    <3>1. (b \o r) \o e = b \o (r \o e)
      BY ConcatAssociative, SMTT(60)
    <3>2. QED
      BY <2>4, <2>3, <2>5, <3>1
  <2>8. b \o t # <<>>
    BY <2>6, TakeFirst
  <2>9. k \in 1 .. M
    BY <1>1, <1>2, <2>1, <2>4, <2>7, <2>8
  <2>10. PICK f : f = F[k] /\ IsOnWire(f)
    BY <1>2, <2>9
  <2>11. PICK u \in Seq(Byte) : u = left[k] /\ left[n] = BytesOf(f) \o u
    <3>1. left[k] \in Seq(Byte)
      <4>1. k \in 0 .. M /\ left \in [0 .. M -> Seq(Byte)]
        BY <1>2, <2>9
      <4>2. QED
        BY <4>1
    <3>2. left[k - 1] = BytesOf(F[k]) \o left[k]
      BY <1>2, <2>9
    <3>3. QED
      BY <2>1, <2>10, <3>1, <3>2
  <2>12. Raw(f, left[n], u) /\ Raw(g, left[n], t)
    BY <2>6, <2>7, <2>10, <2>11, FieldIsRead
  <2>13. f.number = g.number /\ u = t
    <3>1. f.number = g.number /\ f.wire_type = g.wire_type
      BY <2>12 DEF Raw
    <3>2. Ok(f.value, u) = Ok(g.value, t)
      BY <2>12, <3>1 DEF Raw
    <3>3. QED
      BY <3>1, <3>2 DEF Ok
  <2>14. Same(k) /\ F[k].number = G[k].number
    BY <2>2, <2>3, <2>5, <2>9, <2>10, <2>11, <2>13
  <2>15. QED
    BY <1>1, <2>1, <2>14
<1>6. 0 .. N \subseteq T
  <2> HIDE DEF T
  <2>1. QED
    BY <1>1, <1>4, <1>5, Induction
<1>7. Same(N)
  BY <1>1, <1>6
<1>8. \A k \in 1 .. N : F[k].number = G[k].number
  BY <1>1, <1>6
<1>9. left[N] = e
  <2>1. <<>> \o e = e
    BY ConcatEmptySeq
  <2>2. QED
    BY <1>3, <1>7, <2>1
<1>10. QED
  BY <1>1, <1>7, <1>8, <1>9 DEF BeginsWith

(* A payload with a target has the target as the last of its entries.        *)
LEMMA EntriesOfPayload ==
  ASSUME NEW y, Known(y, "PingPayload"), Has(y, 4)
  PROVE  /\ Len(Present(y)) \in Nat \ {0} /\ Present(y)[Len(Present(y))][1] = 4
         /\ \A k \in 1 .. Len(Present(y)) : k # Len(Present(y)) => Present(y)[k][1] \in 1 .. 3
<1>1. Formed(y) /\ y.type = "PingPayload"
  BY DEF Known
<1>2. Len(Schema[y.type]) = 4 /\ DOMAIN Schema[y.type] = 1 .. 4
  BY <1>1, SchemaOfTypes DEF PingPayload
<1>3. Slots(y.type) = 1 .. 4
  <2>1. \A n \in 1 .. 4 : Schema[y.type][n].label # "oneof"
    <3>1. TAKE n \in 1 .. 4
    <3>2. n = 1 \/ n = 2 \/ n = 3 \/ n = 4
      OBVIOUS
    <3>3. QED
      BY <1>1, <3>2, PayloadTypes DEF Scalar, Nested
  <2>2. QED
    BY <1>2, <2>1 DEF Slots
<1>4. y.oneof = <<>>
  BY <1>1, <1>2, <1>3 DEF Formed, HoldsOneof
<1>5. PICK count : Positions(y, count)
  BY <1>1, PresentPositions
<1>6. FieldOf(y, 4).label = "singular"
  BY <1>1, PayloadTypes DEF FieldOf, Nested
<1>7. Len(ValuesOf(y, 4)) = 1
  <2>1. ValuesOf(y, 4) = y.fields[4] /\ y.fields[4] # <<>> /\ IsList(y.fields[4])
    BY <1>1, <1>3, <1>6, SlotValues DEF Has, IsOneof
  <2>2. Len(ValuesOf(y, 4)) <= 1 /\ Len(ValuesOf(y, 4)) \in Nat
    BY <1>1, <1>2, <1>6, WrittenValues
  <2>3. Len(ValuesOf(y, 4)) # 0
    BY <2>1, EmptySeq DEF IsList
  <2>4. QED
    BY <2>2, <2>3
<1>8. PICK c \in Nat : c = count[3] /\ count[4] = c + 1
  <2>1. 4 \in DOMAIN Schema[y.type] /\ 4 - 1 = 3
    BY <1>2
  <2>2. count[4 - 1] \in Nat /\ count[4] = count[4 - 1] + Len(ValuesOf(y, 4))
    BY <1>1, <1>5, <2>1, CountFacts
  <2>3. QED
    BY <1>7, <2>1, <2>2
<1>9. Len(Present(y)) = c + 1
  BY <1>2, <1>4, <1>5, <1>8 DEF Positions, Ending
<1>10. Present(y)[c + 1][1] = 4
  <2>1. Present(y)[count[4 - 1] + 1] = <<4, ValuesOf(y, 4)[1]>>
    BY <1>2, <1>5, <1>7 DEF Positions, Places
  <2>2. QED
    BY <1>8, <2>1
<1>11. ASSUME NEW k \in 1 .. c + 1, k # c + 1 PROVE Present(y)[k][1] \in 1 .. 3
  <2>1. PICK n \in Slots(y.type) :
          count[n - 1] < k /\ Present(y)[k] = <<n, ValuesOf(y, n)[k - count[n - 1]]>>
    <3>1. k \in 1 .. Len(Present(y))
      BY <1>9
    <3>2. \E n \in Slots(y.type) :
            /\ count[n - 1] < k /\ Present(y)[k] = <<n, ValuesOf(y, n)[k - count[n - 1]]>>
      BY <1>1, <1>4, <1>5, <3>1, EntryCases
    <3>3. QED
      BY <3>2
  <2>2. n \in 1 .. 4 /\ (n = 4 => count[3] < k)
    BY <1>3, <2>1
  <2>3. n # 4
    BY <1>8, <1>11, <2>2
  <2>4. Present(y)[k][1] = n
    BY <2>1
  <2>5. QED
    BY <2>2, <2>3, <2>4
<1>12. QED
  BY <1>9, <1>10, <1>11

(* The payloads of pings, for any IPv4 addresses, task ids and times.        *)
IPv4Addresses == {address \in Seq(Byte) : Len(address) = 4}
ProbePayloads ==
  {ProbePayload(a, b, id, time) : a \in IPv4Addresses, b \in IPv4Addresses, id \in Nat, time \in Nat}

(* They are well formed, and have a target.                                  *)
LEMMA ProbeFacts ==
  ASSUME NEW y \in ProbePayloads
  PROVE  Known(y, "PingPayload") /\ Has(y, 4) /\ WellFormed4(y)
<1>1. PICK address1 \in IPv4Addresses, address2 \in IPv4Addresses, id \in Nat, time \in Nat :
        y = ProbePayload(address1, address2, id, time)
  BY DEF ProbePayloads
<1>2. ASSUME NEW address \in IPv4Addresses
      PROVE  WellFormed0(AddressFrom(address)) /\ AddressFrom(address).type = "Address"
  <2>1. U32(address) \in Nat
    <3>1. \A i \in 1 .. 4 : address[i] \in Nat
      <4>1. address \in Seq(Byte) /\ Len(address) = 4
        BY DEF IPv4Addresses
      <4>2. \A i \in 1 .. Len(address) : address[i] \in Byte
        BY <4>1, ElementOfSeq
      <4>3. QED
        BY <4>1, <4>2, ByteIsNat
    <3>2. QED
      BY <3>1 DEF U32
  <2>2. AddressFrom(address) = AddressOf(U32(address))
    BY DEF AddressFrom, AddressOf
  <2>3. QED
    BY <2>1, <2>2, Addresses
<1>3. PICK a : a = AddressFrom(address1) /\ WellFormed0(a) /\ a.type = "Address"
  BY <1>2
<1>4. PICK b : b = AddressFrom(address2) /\ WellFormed0(b) /\ b.type = "Address"
  BY <1>2
<1>5. y = Set(Set(Set(Set(NewMessage("PingPayload"), 3, a), 4, b), 1, id), 2, time)
  BY <1>1, <1>3, <1>4 DEF ProbePayload
<1>6. Known(y, "PingPayload") /\ WellFormed1(y) /\ Get(y, 4) = b
  BY <1>3, <1>4, <1>5, PayloadSetters
<1>7. Has(y, 4)
  <2>1. FieldOf(y, 4).label = "singular" /\ FieldOf(y, 4).kind = "message"
        /\ FieldOf(y, 4).type = "Address"
    BY <1>6, PayloadTypes DEF FieldOf, Nested, Known
  <2>2. b.oneof # <<>>
    <3>1. PICK m : m = NewMessage("Address") /\ Formed(m) /\ m.type = "Address"
      BY NewIsKnown, Types DEF Known
    <3>2. b = Set(m, 1, U32(address2)) /\ 1 \in DOMAIN Schema[m.type]
      BY <1>4, <3>1, SmallTypes DEF AddressFrom, Scalar
    <3>3. FieldOf(m, 1).label = "oneof"
      BY <3>1, SmallTypes DEF FieldOf, Scalar
    <3>4. Has(b, 1)
      BY <3>1, <3>2, <3>3, GetOfSet
    <3>5. IsOneof(b, 1)
      BY <1>4, SmallTypes DEF IsOneof, FieldOf, Scalar
    <3>6. QED
      BY <3>4, <3>5 DEF Has
  <2>3. NewMessage("Address").oneof = <<>>
    BY SMTT(60) DEF NewMessage
  <2>4. ~ Has(y, 4) => Get(y, 4) = NewMessage("Address")
    BY <2>1 DEF Get
  <2>5. QED
    BY <1>6, <2>2, <2>3, <2>4
<1>8. QED
  BY <1>6, <1>7, Deeper

(* What PingPath assumes of payloads and their bytes holds of the code that  *)
(* protoc generates: a payload is read back from its bytes, they do not      *)
(* begin like an IPv4 header, and no payload's bytes are the beginning of    *)
(* another's.                                                                *)
THEOREM PayloadsAreSerialised ==
  \A payload \in ProbePayloads :
    LET bytes == WriteToBytes(payload)
        read == ParseFromBytes("PingPayload", bytes)
    IN  /\ bytes \in Seq(0 .. 255)
        /\ Len(bytes) > 1 /\ bytes[1] # 69
        /\ read.ok /\ read.value = payload
        /\ \A other \in ProbePayloads, n \in 0 .. Len(bytes) - 1 :
             SubSeq(bytes, 1, n) # WriteToBytes(other)
<1> SUFFICES ASSUME NEW payload \in ProbePayloads, NEW b, b = WriteToBytes(payload)
             PROVE  /\ b \in Seq(Byte) /\ Len(b) > 1 /\ b[1] # 69
                    /\ ParseFromBytes("PingPayload", b) = Ok(payload, <<>>)
                    /\ \A other \in ProbePayloads, n \in 0 .. Len(b) - 1 :
                         SubSeq(b, 1, n) # WriteToBytes(other)
  BY DEF Ok, Byte
<1>1. Known(payload, "PingPayload") /\ Has(payload, 4) /\ WellFormed4(payload)
  BY ProbeFacts
<1>2. ParseFromBytes("PingPayload", b) = Ok(payload, <<>>) /\ b \in Seq(Byte)
  BY <1>1, ParseWhatIsWritten DEF Known
<1>3. PICK F, left : /\ FieldsOnWire(F) /\ Remaining(F, left) /\ b = left[0]
                     /\ Len(F) = Len(Present(payload))
                     /\ \A k \in 1 .. Len(F) : F[k].number = Present(payload)[k][1]
  BY <1>1, WrittenFieldByField DEF Known
<1>4. PICK p \in Nat \ {0} : p = Len(F) /\ p = Len(Present(payload))
  BY <1>1, <1>3, EntriesOfPayload
<1>5. F[p].number = 4 /\ \A k \in 1 .. p : k # p => F[k].number \in 1 .. 3
  BY <1>1, <1>3, <1>4, EntriesOfPayload
<1>6. /\ left \in [0 .. p -> Seq(Byte)] /\ left[p] = <<>>
      /\ left[0] = BytesOf(F[1]) \o left[1] /\ IsOnWire(F[1])
  <2>1. 1 \in 1 .. p /\ 1 - 1 = 0
    BY <1>4
  <2>2. left[1 - 1] = BytesOf(F[1]) \o left[1] /\ IsOnWire(F[1])
    BY <1>3, <1>4, <2>1 DEF Remaining, FieldsOnWire
  <2>3. QED
    BY <1>3, <1>4, <2>1, <2>2 DEF Remaining
<1>7. Len(b) > 1 /\ b[1] # 69
  <2>1. PICK f : f = F[1] /\ IsOnWire(f)
    BY <1>6
  <2>2. PICK n \in 1 .. 4, w \in {0, 2} : n = f.number /\ w = f.wire_type
    <3>1. f.number \in 1 .. 4
      BY <1>4, <1>5, <2>1
    <3>2. QED
      BY <2>1, <3>1 DEF IsOnWire, WireTypeVarint, WireTypeLengthDelimited
  <2>3. PICK a \in Seq(Byte) : a = BytesOf(f) /\ Len(a) > 1 /\ a[1] = 8 * n + w
    BY <2>1, <2>2, FieldIsRead, FieldBegins
  <2>4. PICK u \in Seq(Byte) : u = left[1]
    BY <1>4, <1>6, SMTT(60)
  <2>5. b = a \o u
    BY <1>3, <1>6, <2>1, <2>3, <2>4
  <2>6. Len(a \o u) = Len(a) + Len(u) /\ (a \o u)[1] = a[1]
    <3>1. Len(a) \in Nat /\ 1 \in 1 .. Len(a)
      BY <2>3, LenProperties
    <3>2. QED
      BY <3>1, ConcatProperties
  <2>7. QED
    <3>1. Len(a) \in Nat /\ Len(u) \in Nat
      BY LenProperties
    <3>2. QED
      BY <2>2, <2>3, <2>5, <2>6, <3>1
<1>8. ASSUME NEW other \in ProbePayloads, NEW n \in 0 .. Len(b) - 1,
             SubSeq(b, 1, n) = WriteToBytes(other)
      PROVE  FALSE
  <2>1. Known(other, "PingPayload") /\ Has(other, 4) /\ WellFormed4(other)
    BY ProbeFacts
  <2>2. PICK G, right : /\ FieldsOnWire(G) /\ Remaining(G, right) /\ SubSeq(b, 1, n) = right[0]
                        /\ Len(G) = Len(Present(other))
                        /\ \A k \in 1 .. Len(G) : G[k].number = Present(other)[k][1]
    BY <1>8, <2>1, WrittenFieldByField DEF Known
  <2>3. PICK q \in Nat \ {0} : q = Len(G) /\ q = Len(Present(other))
    BY <2>1, <2>2, EntriesOfPayload
  <2>4. G[q].number = 4
    BY <2>1, <2>2, <2>3, EntriesOfPayload
  <2>5. PICK l \in Nat, k \in Nat : l = Len(b) /\ k = n /\ k < l
    <3>1. Len(b) \in Nat
      BY <1>2, LenProperties
    <3>2. QED
      BY <1>7, <3>1
  <2>6. PICK a, e : a = SubSeq(b, 1, k) /\ e = SubSeq(b, k + 1, l)
    OBVIOUS
  <2>7. a \in Seq(Byte) /\ e \in Seq(Byte) /\ Len(e) = l - k
    <3>1. \A i \in 1 .. l : b[i] \in Byte
      BY <1>2, <2>5, ElementOfSeq
    <3>2. /\ 1 .. k \subseteq 1 .. l /\ k + 1 .. l \subseteq 1 .. l
          /\ k + 1 <= l /\ l - (k + 1) + 1 = l - k
      BY <2>5
    <3>3. QED
      BY <1>2, <2>5, <2>6, <3>2, SubSeqProperties
  <2>8. b = a \o e
    <3>1. SubSeq(b, 1, k) \o SubSeq(b, k + 1, l) = SubSeq(b, 1, l)
      BY <1>2, <2>5, ConcatAdjacentSubSeq, SMTT(60)
    <3>2. QED
      BY <1>2, <2>5, <2>6, <3>1, SubSeqFull
  <2>9. left[0] = right[0] \o e
    BY <1>3, <2>2, <2>5, <2>6, <2>8
  <2>10. BeginsWith(F, left, G, e)
    <3>1. FieldsOnWire(F) /\ Remaining(F, left) /\ FieldsOnWire(G) /\ Remaining(G, right)
      BY <1>3, <2>2
    <3>2. QED
      BY <2>7, <2>9, <3>1, FirstFields
  <2>11. q <= p /\ left[q] = e /\ F[q].number = G[q].number
    BY <1>4, <2>3, <2>10 DEF BeginsWith
  <2>12. q = p
    BY <1>4, <1>5, <2>3, <2>4, <2>11
  <2>13. e = <<>>
    BY <1>6, <2>11, <2>12
  <2>14. QED
    <3>1. Len(e) = 0
      BY <2>13, EmptySeq
    <3>2. QED
      BY <2>5, <2>7, <3>1
<1>9. QED
  BY <1>2, <1>7, <1>8

-----------------------------------------------------------------------------
(***************************************************************************)
(* The flow of messages: every message sent is well formed and its bytes   *)
(* are its own, everything read is what was sent, and each message says    *)
(* what the later stages rely on.                                          *)
(***************************************************************************)

(* The stages in their order, from which each message is written and read.   *)
Stages == {"start", "scheduled", "answered", "dispatched", "refused", "subscribed", "received",
           "pinged", "transmitted", "relayed", "shown", "finished", "alive", "listed"}

Rank(s) ==
  CASE s = "start" -> 0
    [] s = "scheduled" -> 1
    [] s \in {"answered", "dispatched"} -> 2
    [] s \in {"refused", "subscribed"} -> 3
    [] s = "received" -> 4
    [] s = "pinged" -> 5
    [] s = "transmitted" -> 6
    [] s = "relayed" -> 7
    [] s = "shown" -> 8
    [] s = "finished" -> 9
    [] s = "alive" -> 10
    [] OTHER -> 11

SentFrom(n) ==
  CASE n = "schedule" -> 1
    [] n \in {"ack", "task"} -> 2
    [] n = "subscribe" -> 3
    [] n \in {"payload1", "payload2"} -> 5
    [] n = "result" -> 6
    [] n \in {"relayed", "received"} -> 7
    [] n = "finished" -> 9
    [] n = "keepalive" -> 10
    [] OTHER -> 11

GotFrom(n) ==
  CASE n = "schedule" -> 2
    [] n = "ack" -> 3
    [] n = "task" -> 4
    [] n \in {"payload1", "payload2"} -> 6
    [] n = "result" -> 7
    [] n \in {"relayed", "received"} -> 8
    [] n = "finished" -> 9
    [] n = "keepalive" -> 10
    [] OTHER -> 11

(* The ranks of the stages,                                                  *)
LEMMA Ranks ==
  /\ \A s : Rank(s) \in 0 .. 11 /\ SentFrom(s) \in 0 .. 11 /\ GotFrom(s) \in 0 .. 11
  /\ Rank("start") = 0 /\ Rank("scheduled") = 1 /\ Rank("answered") = 2 /\ Rank("dispatched") = 2
  /\ Rank("refused") = 3 /\ Rank("subscribed") = 3 /\ Rank("received") = 4 /\ Rank("pinged") = 5
  /\ Rank("transmitted") = 6 /\ Rank("relayed") = 7 /\ Rank("shown") = 8 /\ Rank("finished") = 9
  /\ Rank("alive") = 10 /\ Rank("listed") = 11
BY DEF Rank, SentFrom, GotFrom

(* the ranks from which each message has been written,                       *)
LEMMA SentRanks ==
  /\ SentFrom("schedule") = 1 /\ SentFrom("ack") = 2 /\ SentFrom("task") = 2
  /\ SentFrom("subscribe") = 3 /\ SentFrom("payload1") = 5 /\ SentFrom("payload2") = 5
  /\ SentFrom("result") = 6 /\ SentFrom("relayed") = 7 /\ SentFrom("received") = 7
  /\ SentFrom("finished") = 9 /\ SentFrom("keepalive") = 10 /\ SentFrom("list") = 11
BY DEF SentFrom

(* and those from which it has been read.                                    *)
LEMMA GotRanks ==
  /\ GotFrom("schedule") = 2 /\ GotFrom("ack") = 3 /\ GotFrom("task") = 4
  /\ GotFrom("payload1") = 6 /\ GotFrom("payload2") = 6
  /\ GotFrom("result") = 7 /\ GotFrom("relayed") = 8 /\ GotFrom("received") = 8
  /\ GotFrom("finished") = 9 /\ GotFrom("keepalive") = 10 /\ GotFrom("list") = 11
BY DEF GotFrom

(* What has been written and what has been read.                             *)
IsWritten(w) == WellFormed4(w.message) /\ w = Written(w.message)

AreWritten(s, rank) == \A n \in DOMAIN s : IsWritten(s[n]) /\ SentFrom(n) <= rank

AreRead(g, s, rank) ==
  \A n \in DOMAIN g : n \in DOMAIN s /\ g[n] = Ok(s[n].message, <<>>) /\ GotFrom(n) <= rank

(* A well-formed message is written so that it can be read.                  *)
LEMMA WrittenMessage ==
  ASSUME NEW m, WellFormed4(m)
  PROVE  IsWritten(Written(m)) /\ Written(m).message = m
BY DEF IsWritten, Written

(* What is written so is read as the message that was written.               *)
LEMMA ReadIsWritten ==
  ASSUME NEW w, IsWritten(w)
  PROVE  ReadFrom(w) = Ok(w.message, <<>>)
<1>1. PICK m : m = w.message /\ WellFormed4(m) /\ w = Written(m)
  BY DEF IsWritten
<1>2. w.bytes = WriteToBytes(m)
  BY <1>1 DEF Written
<1>3. QED
  BY <1>1, <1>2, ParseWhatIsWritten DEF ReadFrom

(* The parts of what is read.                                                *)
LEMMA OkIs == \A v, left : Ok(v, left).ok /\ Ok(v, left).value = v
BY DEF Ok

(* Messages that are added to those sent or read.                            *)
LEMMA AddedIs ==
  ASSUME NEW new, NEW f
  PROVE  /\ DOMAIN Added(new, f) = (DOMAIN new) \cup (DOMAIN f)
         /\ \A n \in DOMAIN new : Added(new, f)[n] = new[n]
         /\ \A n \in DOMAIN f : n \notin DOMAIN new => Added(new, f)[n] = f[n]
BY DEF Added

Extends(new, s, s1) == DOMAIN s1 = (DOMAIN new) \cup (DOMAIN s)

Keeps(s, s1) == \A n \in DOMAIN s : n \in DOMAIN s1 /\ s1[n] = s[n]

AreToSend(new, rank, rank1) ==
  \A n \in DOMAIN new : IsWritten(new[n]) /\ rank < SentFrom(n) /\ SentFrom(n) <= rank1

AreToGet(new, s, rank) ==
  \A n \in DOMAIN new :
    n \in DOMAIN s /\ new[n] = Ok(s[n].message, <<>>) /\ GotFrom(n) <= rank

(* The messages sent stay written when new ones are added ...                *)
LEMMA SentGrows ==
  ASSUME NEW s, NEW s1, NEW new, NEW rank \in Nat, NEW rank1 \in Nat,
         rank <= rank1, AreWritten(s, rank), s1 = Added(new, s), AreToSend(new, rank, rank1)
  PROVE  /\ AreWritten(s1, rank1) /\ Keeps(s, s1) /\ Keeps(new, s1)
         /\ Extends(new, s, s1)
<1>1. \A n \in DOMAIN s : n \notin DOMAIN new
  BY Ranks DEF AreWritten, AreToSend
<1>2. /\ DOMAIN s1 = (DOMAIN new) \cup (DOMAIN s)
      /\ \A n \in DOMAIN new : s1[n] = new[n]
      /\ \A n \in DOMAIN s : s1[n] = s[n]
  <2>1. /\ DOMAIN Added(new, s) = (DOMAIN new) \cup (DOMAIN s)
        /\ \A n \in DOMAIN new : Added(new, s)[n] = new[n]
        /\ \A n \in DOMAIN s : n \notin DOMAIN new => Added(new, s)[n] = s[n]
    BY AddedIs, Zenon
  <2>2. QED
    BY <1>1, <2>1
<1>3. AreWritten(s1, rank1)
  BY <1>2, Ranks DEF AreWritten, AreToSend
<1>4. Keeps(s, s1) /\ Keeps(new, s1)
  BY <1>2 DEF Keeps
<1>5. QED
  BY <1>2, <1>3, <1>4 DEF Extends

(* ... and so do those read.                                                 *)
LEMMA GotGrows ==
  ASSUME NEW s, NEW s1, NEW g, NEW g1, NEW new, NEW rank \in Nat, NEW rank1 \in Nat,
         rank <= rank1, AreRead(g, s, rank), Keeps(s, s1), g1 = Added(new, g),
         AreToGet(new, s1, rank1)
  PROVE  AreRead(g1, s1, rank1) /\ Extends(new, g, g1)
<1>1. /\ DOMAIN g1 = (DOMAIN new) \cup (DOMAIN g)
      /\ \A n \in DOMAIN new : g1[n] = new[n]
      /\ \A n \in DOMAIN g : n \notin DOMAIN new => g1[n] = g[n]
  <2>1. /\ DOMAIN Added(new, g) = (DOMAIN new) \cup (DOMAIN g)
        /\ \A n \in DOMAIN new : Added(new, g)[n] = new[n]
        /\ \A n \in DOMAIN g : n \notin DOMAIN new => Added(new, g)[n] = g[n]
    BY AddedIs, Zenon
  <2>2. QED
    BY <2>1
<1>2. ASSUME NEW n \in DOMAIN g1
      PROVE  n \in DOMAIN s1 /\ g1[n] = Ok(s1[n].message, <<>>) /\ GotFrom(n) <= rank1
  <2>1. CASE n \in DOMAIN new
    BY <1>1, <2>1 DEF AreToGet
  <2>2. CASE n \notin DOMAIN new
    <3>1. n \in DOMAIN g /\ g1[n] = g[n]
      BY <1>1, <1>2, <2>2
    <3>2. n \in DOMAIN s /\ g[n] = Ok(s[n].message, <<>>) /\ GotFrom(n) <= rank
      BY <3>1 DEF AreRead
    <3>3. n \in DOMAIN s1 /\ s1[n] = s[n]
      BY <3>2 DEF Keeps
    <3>4. GotFrom(n) <= rank1
      BY <3>2, Ranks
    <3>5. QED
      BY <3>1, <3>2, <3>3, <3>4
  <2>3. QED
    BY <2>1, <2>2
<1>3. AreRead(g1, s1, rank1)
  BY <1>2 DEF AreRead
<1>4. QED
  BY <1>1, <1>3 DEF Extends

(* What has been sent stays sent when nothing more is.                       *)
LEMMA SentStays ==
  ASSUME NEW s, NEW rank \in Nat, NEW rank1 \in Nat, rank <= rank1, AreWritten(s, rank)
  PROVE  AreWritten(s, rank1) /\ Keeps(s, s)
BY Ranks DEF AreWritten, Keeps

-----------------------------------------------------------------------------
(* The inductive invariant.                                                  *)
FlowTypes ==
  /\ stage \in Stages /\ Sources
  /\ replies \in Seq([ping : 1 .. 2, from : Ips, to : Ips, at : Times])

FlowFiles == AreWritten(sent, Rank(stage)) /\ AreRead(got, sent, Rank(stage))

IsSchedule(m, ping) == Has(m, 2) /\ Get(m, 2) = ping
IsTask(m, ping) == Has(m, 2) /\ Get(m, 2) = ping /\ Get(m, 1) \in Nat

InSchedule ==
  Rank(stage) >= 1 =>
    "schedule" \in DOMAIN sent /\ IsSchedule(sent["schedule"].message, BuildPing)

InAck ==
  /\ Rank(stage) >= 2 => "ack" \in DOMAIN sent
  /\ stage = "answered" => Get(sent["ack"].message, 2) = FALSE

Dispatched(s) == s \notin {"start", "scheduled", "answered", "refused"}

InTask ==
  Dispatched(stage) =>
    /\ "task" \in DOMAIN sent /\ IsTask(sent["task"].message, BuildPing)
    /\ stage = "dispatched" => Get(sent["ack"].message, 1) = Get(sent["task"].message, 1)

InSubscribe ==
  Dispatched(stage) /\ stage # "dispatched" =>
    /\ "subscribe" \in DOMAIN sent
    /\ Get(sent["subscribe"].message, 1) = Get(sent["task"].message, 1)
    /\ Rank(stage) >= 4 => "task" \in DOMAIN got

InPayloads ==
  Rank(stage) >= 5 =>
    \A i \in 1 .. 2 :
      /\ PayloadName(i) \in DOMAIN sent <=> i \in 1 .. Len(targets)
      /\ PayloadName(i) \in DOMAIN sent =>
           IsPayload(sent[PayloadName(i)].message, Get(sent["task"].message, 1),
                     source, targets[i], newer)

InReplies ==
  \A k \in 1 .. Len(replies) :
    Rank(stage) >= 5 /\ PayloadName(replies[k].ping) \in DOMAIN sent

Shows(m, s, r, version) ==
  /\ Len(Get(m, 3)) = Len(r)
  /\ \A k \in 1 .. Len(r) :
       IsResult(Get(m, 3)[k], r[k], s[PayloadName(r[k].ping)].message, version)

InResult ==
  Rank(stage) >= 6 =>
    "result" \in DOMAIN sent /\ Shows(sent["result"].message, sent, replies, newer)

InRelayed ==
  Rank(stage) >= 7 =>
    "relayed" \in DOMAIN sent /\ "received" \in DOMAIN sent /\ sent["relayed"] = sent["result"]

FlowInv ==
  /\ FlowTypes /\ FlowFiles
  /\ InSchedule /\ InAck /\ InTask /\ InSubscribe
  /\ InPayloads /\ InReplies /\ InResult /\ InRelayed

(* Nothing has been sent before the first call.                              *)
LEMMA FlowStarts == FlowInit => FlowInv
<1> SUFFICES ASSUME FlowInit PROVE FlowInv
  OBVIOUS
<1>1. stage = "start" /\ sent = << >> /\ got = << >> /\ replies = <<>> /\ source \in Ips
  BY DEF FlowInit
<1>2. DOMAIN sent = {} /\ DOMAIN got = {}
  BY <1>1
<1>3. targets \in Seq(Ips) /\ Len(targets) <= MaxTargets
  <2>1. PICK n \in 0 .. MaxTargets : targets \in [1 .. n -> Ips]
    BY DEF FlowInit, BoundedSeq, SeqOf
  <2>2. n \in Nat /\ n <= MaxTargets
    BY <2>1, MessageFlowAssumption
  <2>3. QED
    BY <2>1, <2>2
<1>4. replies \in Seq([ping : 1 .. 2, from : Ips, to : Ips, at : Times]) /\ Len(replies) = 0
  BY <1>1, EmptySeq
<1>5. Rank(stage) = 0
  BY <1>1, Ranks
<1>6. FlowTypes
  BY <1>1, <1>3, <1>4 DEF FlowTypes, Sources, Stages
<1>7. FlowFiles
  BY <1>2 DEF FlowFiles, AreWritten, AreRead
<1>8. InSchedule /\ InAck /\ InPayloads /\ InResult /\ InRelayed
  BY <1>1, <1>5 DEF InSchedule, InAck, InPayloads, InResult, InRelayed
<1>9. InTask /\ InSubscribe
  BY <1>1 DEF InTask, InSubscribe, Dispatched
<1>10. InReplies
  BY <1>4 DEF InReplies
<1>11. QED
  BY <1>6, <1>7, <1>8, <1>9, <1>10 DEF FlowInv

(* The cli's ping depends on the measurement's inputs alone.                 *)
LEMMA BuildPingStays ==
  ASSUME newer' = newer, source' = source, targets' = targets
  PROVE  BuildPing' = BuildPing
BY DEF BuildPing, Versioned

(* What stays when the files are only added to.                              *)
LEMMA Later ==
  ASSUME FlowInv, newer' = newer, source' = source, targets' = targets, stage' \in Stages,
         Rank(stage) <= Rank(stage'), Keeps(sent, sent'),
         AreWritten(sent', Rank(stage')), AreRead(got', sent', Rank(stage')),
         replies' \in Seq([ping : 1 .. 2, from : Ips, to : Ips, at : Times])
  PROVE  /\ FlowTypes' /\ FlowFiles'
         /\ Rank(stage) >= 1 => InSchedule'
         /\ Rank(stage) >= 2 /\ stage' # "answered" => InAck'
         /\ Dispatched(stage) /\ stage' # "dispatched" => InTask'
         /\ Rank(stage) >= 4 /\ Dispatched(stage) /\ "task" \in DOMAIN got' => InSubscribe'
         /\ Rank(stage) >= 5 /\ Dispatched(stage)
              /\ (\A i \in 1 .. 2 : PayloadName(i) \in DOMAIN sent' => PayloadName(i) \in DOMAIN sent)
              => InPayloads'
         /\ replies' = replies => InReplies'
         /\ Rank(stage) >= 6 /\ replies' = replies => InResult'
         /\ Rank(stage) >= 7 => InRelayed'
<1>1. \A n \in DOMAIN sent : n \in DOMAIN sent' /\ sent'[n] = sent[n]
  BY DEF Keeps
<1>2. BuildPing' = BuildPing
  BY BuildPingStays
<1>3. PICK r \in Nat, r1 \in Nat : r = Rank(stage) /\ r1 = Rank(stage') /\ r <= r1
  BY Ranks
<1>4. FlowTypes' /\ FlowFiles'
  <2>1. Sources'
    BY DEF FlowInv, FlowTypes, Sources
  <2>2. QED
    BY <2>1 DEF FlowTypes, FlowFiles
<1>5. Rank(stage) >= 1 => InSchedule'
  BY <1>1, <1>2 DEF FlowInv, InSchedule
<1>6. Rank(stage) >= 2 /\ stage' # "answered" => InAck'
  BY <1>1 DEF FlowInv, InAck
<1>7. Dispatched(stage) /\ stage' # "dispatched" => InTask'
  BY <1>1, <1>2 DEF FlowInv, InTask
<1>8. ASSUME Rank(stage) >= 4, Dispatched(stage), "task" \in DOMAIN got' PROVE InSubscribe'
  <2>1. stage # "dispatched"
    BY <1>8, Ranks
  <2>2. /\ "subscribe" \in DOMAIN sent /\ "task" \in DOMAIN sent
        /\ Get(sent["subscribe"].message, 1) = Get(sent["task"].message, 1)
    BY <1>8, <2>1 DEF FlowInv, InTask, InSubscribe
  <2>3. QED
    BY <1>1, <1>8, <2>2 DEF InSubscribe
<1>9. ASSUME Rank(stage) >= 5, Dispatched(stage),
             \A i \in 1 .. 2 : PayloadName(i) \in DOMAIN sent' => PayloadName(i) \in DOMAIN sent
      PROVE  InPayloads'
  <2>1. "task" \in DOMAIN sent /\ InPayloads
    BY <1>9 DEF FlowInv, InTask
  <2>2. sent'["task"] = sent["task"]
    BY <1>1, <2>1
  <2>3. ASSUME NEW i \in 1 .. 2
        PROVE  /\ PayloadName(i) \in DOMAIN sent' <=> i \in 1 .. Len(targets)
               /\ PayloadName(i) \in DOMAIN sent' =>
                    IsPayload(sent'[PayloadName(i)].message, Get(sent'["task"].message, 1),
                              source, targets[i], newer)
    <3>1. PICK n : n = PayloadName(i)
      OBVIOUS
    <3>2. /\ n \in DOMAIN sent <=> i \in 1 .. Len(targets)
          /\ n \in DOMAIN sent =>
               IsPayload(sent[n].message, Get(sent["task"].message, 1), source, targets[i], newer)
      BY <1>9, <2>1, <3>1 DEF InPayloads
    <3>3. n \in DOMAIN sent' <=> n \in DOMAIN sent
      BY <1>1, <1>9, <3>1
    <3>4. n \in DOMAIN sent => sent'[n] = sent[n]
      BY <1>1
    <3>5. QED
      BY <2>2, <3>1, <3>2, <3>3, <3>4
  <2>4. QED
    BY <2>3 DEF InPayloads, PayloadName
<1>10. ASSUME replies' = replies PROVE InReplies'
  <2>1. \A k \in 1 .. Len(replies) : Rank(stage) >= 5 /\ PayloadName(replies[k].ping) \in DOMAIN sent
    BY DEF FlowInv, InReplies
  <2>2. \A k \in 1 .. Len(replies) :
          Rank(stage') >= 5 /\ PayloadName(replies[k].ping) \in DOMAIN sent'
    BY <1>1, <1>3, <2>1
  <2>3. QED
    BY <1>10, <2>2 DEF InReplies, PayloadName
<1>11. ASSUME Rank(stage) >= 6, replies' = replies PROVE InResult'
  <2>1. "result" \in DOMAIN sent /\ Shows(sent["result"].message, sent, replies, newer)
    BY <1>11 DEF FlowInv, InResult
  <2>2. "result" \in DOMAIN sent' /\ sent'["result"] = sent["result"]
    BY <1>1, <2>1
  <2>3. \A k \in 1 .. Len(replies) :
          sent'[PayloadName(replies[k].ping)] = sent[PayloadName(replies[k].ping)]
    BY <1>1 DEF FlowInv, InReplies
  <2>4. Shows(sent["result"].message, sent', replies, newer)
    BY <2>1, <2>3 DEF Shows
  <2>5. QED
    BY <1>11, <2>2, <2>4 DEF InResult
<1>12. Rank(stage) >= 7 => InRelayed'
  <2>1. ASSUME Rank(stage) >= 7 PROVE InRelayed'
    <3>1. Rank(stage) >= 6
      BY <2>1, Ranks
    <3>2. "relayed" \in DOMAIN sent /\ "received" \in DOMAIN sent /\ sent["relayed"] = sent["result"]
          /\ "result" \in DOMAIN sent
      BY <2>1, <3>1 DEF FlowInv, InRelayed, InResult
    <3>3. QED
      BY <1>1, <3>2 DEF InRelayed
  <2>2. QED
    BY <2>1
<1>13. QED
  BY <1>4, <1>5, <1>6, <1>7, <1>8, <1>9, <1>10, <1>11, <1>12

(* What has been read stays read when nothing more is.                       *)
LEMMA GotStays ==
  ASSUME NEW s, NEW s1, NEW g, NEW rank \in Nat, NEW rank1 \in Nat,
         rank <= rank1, AreRead(g, s, rank), Keeps(s, s1)
  PROVE  AreRead(g, s1, rank1)
<1>1. ASSUME NEW n \in DOMAIN g
      PROVE  n \in DOMAIN s1 /\ g[n] = Ok(s1[n].message, <<>>) /\ GotFrom(n) <= rank1
  <2>1. n \in DOMAIN s /\ g[n] = Ok(s[n].message, <<>>) /\ GotFrom(n) <= rank
    BY DEF AreRead
  <2>2. n \in DOMAIN s1 /\ s1[n] = s[n]
    BY <2>1 DEF Keeps
  <2>3. GotFrom(n) <= rank1
    BY <2>1, Ranks
  <2>4. QED
    BY <2>1, <2>2, <2>3
<1>2. QED
  BY <1>1 DEF AreRead

(* A step that sends one message.                                            *)
LEMMA SendOne ==
  ASSUME FlowInv, NEW n, NEW m, WellFormed4(m), Send(n, m), NEW rank1 \in Nat,
         Rank(stage) < SentFrom(n), SentFrom(n) <= rank1
  PROVE  /\ AreWritten(sent', rank1) /\ Keeps(sent, sent')
         /\ \A k : k \in DOMAIN sent' <=> k = n \/ k \in DOMAIN sent
         /\ sent'[n] = Written(m) /\ sent'[n].message = m
<1>1. PICK new : new = [k \in {n} |-> Written(m)]
  OBVIOUS
<1>2. DOMAIN new = {n} /\ new[n] = Written(m)
  BY <1>1
<1>3. IsWritten(Written(m)) /\ Written(m).message = m
  BY WrittenMessage
<1>4. AreWritten(sent, Rank(stage)) /\ sent' = Added(new, sent)
  BY <1>1 DEF Send, FlowInv, FlowFiles
<1>5. PICK r \in Nat : r = Rank(stage) /\ r <= rank1
  BY Ranks
<1>6. /\ AreWritten(sent', rank1) /\ Keeps(sent, sent') /\ Keeps(new, sent')
      /\ Extends(new, sent, sent')
  <2>1. AreToSend(new, r, rank1)
    BY <1>2, <1>3, <1>5 DEF AreToSend
  <2>2. AreWritten(sent, r)
    BY <1>4, <1>5
  <2>3. QED
    BY <1>4, <1>5, <2>1, <2>2, SentGrows, Zenon
<1>7. QED
  BY <1>2, <1>3, <1>6 DEF Keeps, Extends

(* A message that was sent is read as it was written.                        *)
LEMMA ReadOne ==
  ASSUME FlowInv, NEW n \in DOMAIN sent
  PROVE  Read(n) = Ok(sent[n].message, <<>>) /\ Read(n).value = sent[n].message
<1>1. IsWritten(sent[n])
  BY DEF FlowInv, FlowFiles, AreWritten
<1>2. Read(n) = Ok(sent[n].message, <<>>)
  BY <1>1, ReadIsWritten DEF Read
<1>3. QED
  BY <1>2, OkIs

(* The cli calls do_task with the ping it has built.                         *)
LEMMA ScheduleNext == FlowInv /\ Schedule => FlowInv'
<1> SUFFICES ASSUME FlowInv, Schedule PROVE FlowInv'
  OBVIOUS
<1>1. /\ stage = "start" /\ stage' = "scheduled" /\ newer' = newer /\ got' = got
      /\ source' = source /\ targets' = targets /\ replies' = replies
  BY DEF Schedule
<1>2. Rank(stage) = 0 /\ Rank(stage') = 1
  BY <1>1, Ranks
<1>3. PICK hostname \in Hostnames :
        LET client == Set(NewMessage("Client"), 2, Set(NewMessage("Metadata"), 1, hostname))
        IN  Send("schedule", Set(Set(NewMessage("ScheduleTask"), 2, BuildPing), 1, client))
  BY DEF Schedule
<1>4. PICK client : /\ client = Set(NewMessage("Client"), 2, Set(NewMessage("Metadata"), 1, hostname))
                    /\ client.type = "Client" /\ WellFormed1(client)
  <2>1. hostname \in Seq(Byte)
    BY MessageFlowAssumption
  <2>2. /\ WellFormed0(Set(NewMessage("Metadata"), 1, hostname))
        /\ Set(NewMessage("Metadata"), 1, hostname).type = "Metadata"
    BY <2>1, MetadataFacts
  <2>3. QED
    BY <2>2, Clients1 DEF Known
<1>5. PICK m : m = Set(Set(NewMessage("ScheduleTask"), 2, BuildPing), 1, client)
  OBVIOUS
<1>6. WellFormed4(m) /\ Has(m, 2) /\ Get(m, 2) = BuildPing
  <2>1. WellFormed1(BuildPing) /\ BuildPing.type = "Ping"
    BY Pings DEF FlowInv, FlowTypes
  <2>2. QED
    BY <1>4, <1>5, <2>1, Schedules
<1>7. Send("schedule", m)
  BY <1>3, <1>4, <1>5
<1>8. /\ AreWritten(sent', 1) /\ Keeps(sent, sent') /\ "schedule" \in DOMAIN sent'
      /\ sent'["schedule"].message = m
  BY <1>2, <1>6, <1>7, SendOne, SentRanks
<1>9. AreRead(got', sent', 1)
  <2>1. AreRead(got, sent, 0)
    BY <1>2 DEF FlowInv, FlowFiles
  <2>2. QED
    BY <1>1, <1>8, <2>1, GotStays
<1>10. replies' \in Seq([ping : 1 .. 2, from : Ips, to : Ips, at : Times]) /\ stage' \in Stages
  BY <1>1 DEF FlowInv, FlowTypes, Stages
<1>11. /\ FlowTypes' /\ FlowFiles'
       /\ replies' = replies => InReplies'
  BY <1>1, <1>2, <1>8, <1>9, <1>10, Later
<1>12. InSchedule'
  <2>1. BuildPing' = BuildPing
    BY <1>1, BuildPingStays
  <2>2. QED
    BY <1>6, <1>8, <2>1 DEF InSchedule, IsSchedule
<1>13. InAck' /\ InPayloads' /\ InResult' /\ InRelayed'
  BY <1>1, <1>2 DEF InAck, InPayloads, InResult, InRelayed
<1>14. InTask' /\ InSubscribe'
  BY <1>1 DEF InTask, InSubscribe, Dispatched
<1>15. QED
  BY <1>1, <1>11, <1>12, <1>13, <1>14 DEF FlowInv

(* The server answers the call and sends the task with the ping it has       *)
(* read.                                                                     *)
LEMMA DoTaskNext == FlowInv /\ DoTask => FlowInv'
<1> SUFFICES ASSUME FlowInv, DoTask PROVE FlowInv'
  OBVIOUS
<1>1. /\ stage = "scheduled" /\ newer' = newer
      /\ source' = source /\ targets' = targets /\ replies' = replies
  BY DEF DoTask
<1>2. Rank(stage) = 1
  BY <1>1, Ranks
<1>3. PICK req : /\ "schedule" \in DOMAIN sent /\ req = sent["schedule"].message
                 /\ Has(req, 2) /\ Get(req, 2) = BuildPing
  BY <1>2 DEF FlowInv, InSchedule, IsSchedule
<1>4. PICK read : read = Read("schedule") /\ read = Ok(req, <<>>) /\ read.value = req
  BY <1>3, ReadOne
<1>5. Take(req, 2).value = BuildPing
  BY <1>3 DEF Take
<1>6. PICK ping : ping = BuildPing /\ WellFormed1(ping) /\ ping.type = "Ping"
  BY Pings DEF FlowInv, FlowTypes
<1>7. got' = Added([schedule |-> read], got)
  BY <1>4, Zenon DEF DoTask
<1>8. \/ Send("ack", Refuse(<<1>>)) /\ stage' = "answered"
      \/ \E id \in TaskIds : Send("ack", Set(Refuse(<<2>>), 1, id)) /\ stage' = "answered"
      \/ \E id \in TaskIds :
           /\ sent' = Added([ack |-> Written(Acknowledge(id)),
                             task |-> Written(TaskOf(id, ping))], sent)
           /\ stage' = "dispatched"
  BY <1>3, <1>4, <1>5, <1>6 DEF DoTask
<1>9. PICK r1 \in Nat : r1 = Rank(stage') /\ r1 = 2 /\ stage' \in {"answered", "dispatched"}
  <2>1. stage' \in {"answered", "dispatched"}
    BY <1>8
  <2>2. QED
    BY <2>1, Ranks
<1>10. 1 \in Nat /\ 2 \in Nat /\ 1 <= 2
  OBVIOUS
<1>11. \A id \in TaskIds : id \in Nat
  BY MessageFlowAssumption
<1>12. /\ AreWritten(sent', 2) /\ Keeps(sent, sent') /\ "ack" \in DOMAIN sent'
       /\ stage' = "answered" => Get(sent'["ack"].message, 2) = FALSE
       /\ stage' = "dispatched" =>
            /\ "task" \in DOMAIN sent' /\ IsTask(sent'["task"].message, ping)
            /\ Get(sent'["ack"].message, 1) = Get(sent'["task"].message, 1)
  <2>1. ASSUME NEW m, WellFormed4(m), Get(m, 2) = FALSE, Send("ack", m), stage' = "answered"
        PROVE  /\ AreWritten(sent', 2) /\ Keeps(sent, sent') /\ "ack" \in DOMAIN sent'
               /\ Get(sent'["ack"].message, 2) = FALSE /\ stage' # "dispatched"
    <3>1. /\ AreWritten(sent', 2) /\ Keeps(sent, sent') /\ "ack" \in DOMAIN sent'
          /\ sent'["ack"].message = m
      <4>1. 2 \in Nat /\ Rank(stage) < SentFrom("ack") /\ SentFrom("ack") <= 2
        BY <1>2, SentRanks
      <4>2. QED
        BY <2>1, <4>1, SendOne, Zenon
    <3>2. QED
      BY <2>1, <3>1
  <2>2. CASE Send("ack", Refuse(<<1>>)) /\ stage' = "answered"
    <3>1. <<1>> \in Seq(Byte)
      BY DEF Byte
    <3>2. WellFormed4(Refuse(<<1>>)) /\ Get(Refuse(<<1>>), 2) = FALSE
      BY <3>1, Acks
    <3>3. QED
      BY <2>1, <2>2, <3>2
  <2>3. CASE \E id \in TaskIds : Send("ack", Set(Refuse(<<2>>), 1, id)) /\ stage' = "answered"
    <3>1. PICK id \in TaskIds : Send("ack", Set(Refuse(<<2>>), 1, id)) /\ stage' = "answered"
      BY <2>3
    <3>2. <<2>> \in Seq(Byte) /\ id \in Nat
      BY <1>11 DEF Byte
    <3>3. WellFormed4(Set(Refuse(<<2>>), 1, id)) /\ Get(Set(Refuse(<<2>>), 1, id), 2) = FALSE
      BY <3>2, Acks
    <3>4. QED
      BY <2>1, <3>1, <3>3
  <2>4. CASE \E id \in TaskIds :
               /\ sent' = Added([ack |-> Written(Acknowledge(id)),
                                 task |-> Written(TaskOf(id, ping))], sent)
               /\ stage' = "dispatched"
    <3>1. PICK id \in TaskIds :
               /\ sent' = Added([ack |-> Written(Acknowledge(id)),
                                 task |-> Written(TaskOf(id, ping))], sent)
               /\ stage' = "dispatched"
      BY <2>4
    <3>2. id \in Nat
      BY <1>11
    <3>3. PICK a : a = Acknowledge(id) /\ WellFormed4(a) /\ Get(a, 1) = id
      BY <3>2, Acks
    <3>4. PICK t : t = TaskOf(id, ping) /\ WellFormed4(t) /\ IsTask(t, ping) /\ Get(t, 1) = id
      BY <1>6, <3>2, Tasks DEF IsTask
    <3>5. PICK new : new = [ack |-> Written(a), task |-> Written(t)]
      OBVIOUS
    <3>6. DOMAIN new = {"ack", "task"} /\ new["ack"] = Written(a) /\ new["task"] = Written(t)
      BY <3>5
    <3>7. /\ IsWritten(Written(a)) /\ IsWritten(Written(t))
          /\ Written(a).message = a /\ Written(t).message = t
      BY <3>3, <3>4, WrittenMessage
    <3>8. AreToSend(new, 1, 2)
      BY <3>6, <3>7, SentRanks DEF AreToSend
    <3>9. AreWritten(sent, 1) /\ sent' = Added(new, sent)
      BY <1>2, <3>1, <3>3, <3>4, <3>5 DEF FlowInv, FlowFiles
    <3>10. AreWritten(sent', 2) /\ Keeps(sent, sent') /\ Keeps(new, sent')
      BY <1>10, <3>8, <3>9, SentGrows, Zenon
    <3>11. /\ "ack" \in DOMAIN sent' /\ "task" \in DOMAIN sent'
           /\ sent'["ack"].message = a /\ sent'["task"].message = t
      BY <3>6, <3>7, <3>10 DEF Keeps
    <3>12. QED
      BY <3>1, <3>3, <3>4, <3>10, <3>11
  <2>5. QED
    BY <1>8, <2>2, <2>3, <2>4
<1>13. AreRead(got', sent', 2)
  <2>1. PICK new : new = [schedule |-> read]
    OBVIOUS
  <2>2. DOMAIN new = {"schedule"} /\ new["schedule"] = Ok(req, <<>>)
    BY <1>4, <2>1
  <2>3. "schedule" \in DOMAIN sent' /\ sent'["schedule"].message = req
    BY <1>3, <1>12 DEF Keeps
  <2>4. AreToGet(new, sent', 2)
    BY <2>2, <2>3, GotRanks DEF AreToGet
  <2>5. AreRead(got, sent, 1) /\ got' = Added(new, got)
    BY <1>2, <1>7, <2>1 DEF FlowInv, FlowFiles
  <2>6. QED
    BY <1>12, <1>10, <2>4, <2>5, GotGrows, Zenon
<1>14. /\ replies' \in Seq([ping : 1 .. 2, from : Ips, to : Ips, at : Times])
       /\ stage' \in Stages
  BY <1>1, <1>9 DEF FlowInv, FlowTypes, Stages
<1>15. FlowTypes' /\ FlowFiles' /\ InSchedule' /\ InReplies'
  BY <1>1, <1>2, <1>9, <1>12, <1>13, <1>14, Later
<1>16. InAck'
  BY <1>9, <1>12 DEF InAck
<1>17. InPayloads' /\ InResult' /\ InRelayed'
  BY <1>9 DEF InPayloads, InResult, InRelayed
<1>18. InTask' /\ InSubscribe'
  <2>1. BuildPing' = ping
    BY <1>1, <1>6, BuildPingStays
  <2>2. Dispatched(stage') => stage' = "dispatched"
    BY <1>9 DEF Dispatched
  <2>3. QED
    BY <1>12, <2>1, <2>2 DEF InTask, InSubscribe
<1>19. QED
  BY <1>15, <1>16, <1>17, <1>18 DEF FlowInv

(* The cli reads the answer and subscribes.                                  *)
LEMMA ReadAckNext == FlowInv /\ ReadAck => FlowInv'
<1> SUFFICES ASSUME FlowInv, ReadAck PROVE FlowInv'
  OBVIOUS
<1>1. /\ stage \in {"answered", "dispatched"} /\ newer' = newer
      /\ source' = source /\ targets' = targets /\ replies' = replies
  BY DEF ReadAck
<1>2. Rank(stage) = 2
  BY <1>1, Ranks
<1>3. PICK ack : "ack" \in DOMAIN sent /\ ack = sent["ack"].message
  BY <1>2 DEF FlowInv, InAck
<1>4. PICK read : read = Read("ack") /\ read = Ok(ack, <<>>) /\ read.value = ack
  BY <1>3, ReadOne
<1>5. got' = Added([ack |-> read], got)
  BY <1>4, Zenon DEF ReadAck
<1>6. \/ Get(ack, 2) /\ Send("subscribe", Set(NewMessage("TaskId"), 1, Get(ack, 1)))
           /\ stage' = "subscribed"
      \/ stage' = "refused" /\ sent' = sent
  BY <1>4 DEF ReadAck
<1>7. stage' \in {"subscribed", "refused"}
  BY <1>6
<1>8. Rank(stage') = 3
  BY <1>7, Ranks
<1>9. 2 \in Nat /\ 3 \in Nat /\ 2 <= 3
  OBVIOUS
<1>10. /\ AreWritten(sent', 3) /\ Keeps(sent, sent')
       /\ stage' = "subscribed" =>
            /\ "task" \in DOMAIN sent /\ "subscribe" \in DOMAIN sent'
            /\ Get(sent'["subscribe"].message, 1) = Get(sent["task"].message, 1)
            /\ stage = "dispatched"
  <2>1. CASE Get(ack, 2) /\ Send("subscribe", Set(NewMessage("TaskId"), 1, Get(ack, 1)))
               /\ stage' = "subscribed"
    <3>1. stage = "dispatched"
      <4>1. stage = "answered" => Get(ack, 2) = FALSE
        BY <1>3 DEF FlowInv, InAck
      <4>2. QED
        BY <1>1, <2>1, <4>1
    <3>2. PICK id \in Nat : /\ "task" \in DOMAIN sent /\ id = Get(ack, 1)
                            /\ id = Get(sent["task"].message, 1)
      <4>1. /\ "task" \in DOMAIN sent /\ IsTask(sent["task"].message, BuildPing)
            /\ Get(sent["ack"].message, 1) = Get(sent["task"].message, 1)
        BY <3>1 DEF FlowInv, InTask, Dispatched
      <4>2. QED
        BY <1>3, <4>1 DEF IsTask
    <3>3. PICK m : m = Set(NewMessage("TaskId"), 1, id) /\ WellFormed4(m) /\ Get(m, 1) = id
      BY TaskIds1
    <3>4. Send("subscribe", m) /\ Rank(stage) < SentFrom("subscribe") /\ SentFrom("subscribe") <= 3
      BY <1>2, <2>1, <3>2, <3>3, SentRanks
    <3>5. /\ AreWritten(sent', 3) /\ Keeps(sent, sent')
          /\ "subscribe" \in DOMAIN sent' /\ sent'["subscribe"].message = m
      BY <1>9, <3>3, <3>4, SendOne
    <3>6. QED
      BY <3>1, <3>2, <3>3, <3>5
  <2>2. CASE stage' = "refused" /\ sent' = sent
    <3>1. AreWritten(sent, 2)
      BY <1>2 DEF FlowInv, FlowFiles
    <3>2. AreWritten(sent, 3) /\ Keeps(sent, sent)
      BY <1>9, <3>1, SentStays, Zenon
    <3>3. QED
      BY <2>2, <3>2
  <2>3. QED
    BY <1>6, <2>1, <2>2
<1>11. AreRead(got', sent', 3)
  <2>1. PICK new : new = [ack |-> read]
    OBVIOUS
  <2>2. DOMAIN new = {"ack"} /\ new["ack"] = Ok(ack, <<>>)
    BY <1>4, <2>1
  <2>3. "ack" \in DOMAIN sent' /\ sent'["ack"].message = ack
    BY <1>3, <1>10 DEF Keeps
  <2>4. AreToGet(new, sent', 3)
    BY <2>2, <2>3, GotRanks DEF AreToGet
  <2>5. AreRead(got, sent, 2) /\ got' = Added(new, got)
    BY <1>2, <1>5, <2>1 DEF FlowInv, FlowFiles
  <2>6. QED
    BY <1>9, <1>10, <2>4, <2>5, GotGrows, Zenon
<1>12. /\ replies' \in Seq([ping : 1 .. 2, from : Ips, to : Ips, at : Times])
       /\ stage' \in Stages
  BY <1>1, <1>7 DEF FlowInv, FlowTypes, Stages
<1>13. /\ FlowTypes' /\ FlowFiles' /\ InSchedule' /\ InAck' /\ InReplies'
       /\ Dispatched(stage) => InTask'
  BY <1>1, <1>2, <1>7, <1>8, <1>10, <1>11, <1>12, Later
<1>14. InPayloads' /\ InResult' /\ InRelayed'
  BY <1>8 DEF InPayloads, InResult, InRelayed
<1>15. InTask' /\ InSubscribe'
  <2>1. CASE stage' = "refused"
    BY <2>1 DEF InTask, InSubscribe, Dispatched
  <2>2. CASE stage' = "subscribed"
    <3>1. InTask'
      BY <1>10, <1>13, <2>2 DEF Dispatched
    <3>2. sent'["task"] = sent["task"]
      BY <1>10, <2>2 DEF Keeps
    <3>3. InSubscribe'
      BY <1>8, <1>10, <2>2, <3>2 DEF InSubscribe
    <3>4. QED
      BY <3>1, <3>3
  <2>3. QED
    BY <1>7, <2>1, <2>2
<1>16. QED
  BY <1>13, <1>14, <1>15 DEF FlowInv

(* The task that the client receives holds the ping that the cli has built.  *)
LEMMA TaskSent ==
  ASSUME FlowInv, Dispatched(stage), stage # "dispatched"
  PROVE  /\ "task" \in DOMAIN sent /\ IsTask(sent["task"].message, BuildPing)
         /\ "subscribe" \in DOMAIN sent
         /\ Get(sent["subscribe"].message, 1) = Get(sent["task"].message, 1)
         /\ Rank(stage) >= 4 => "task" \in DOMAIN got
BY DEF FlowInv, InTask, InSubscribe

(* The client reads its task.                                                *)
LEMMA ReceiveTaskNext == FlowInv /\ ReceiveTask => FlowInv'
<1> SUFFICES ASSUME FlowInv, ReceiveTask PROVE FlowInv'
  OBVIOUS
<1>1. /\ stage = "subscribed" /\ newer' = newer /\ sent' = sent
      /\ source' = source /\ targets' = targets /\ replies' = replies
  BY DEF ReceiveTask
<1>2. Rank(stage) = 3 /\ Dispatched(stage)
  BY <1>1, Ranks DEF Dispatched
<1>3. PICK task1 : /\ "task" \in DOMAIN sent /\ task1 = sent["task"].message /\ Has(task1, 2)
  BY <1>1, <1>2, TaskSent DEF IsTask
<1>4. PICK read : read = Read("task") /\ read = Ok(task1, <<>>) /\ read.value = task1
  BY <1>3, ReadOne
<1>5. got' = Added([task |-> read], got)
  BY <1>4, Zenon DEF ReceiveTask
<1>6. stage' = "received" /\ Rank(stage') = 4
  BY <1>3, <1>4, Ranks DEF ReceiveTask
<1>7. 3 \in Nat /\ 4 \in Nat /\ 3 <= 4
  OBVIOUS
<1>8. AreWritten(sent', 4) /\ Keeps(sent, sent')
  <2>1. AreWritten(sent, 3)
    BY <1>2 DEF FlowInv, FlowFiles
  <2>2. AreWritten(sent, 4) /\ Keeps(sent, sent)
    BY <1>7, <2>1, SentStays, Zenon
  <2>3. QED
    BY <1>1, <2>2
<1>9. AreRead(got', sent', 4) /\ "task" \in DOMAIN got'
  <2>1. PICK new : new = [task |-> read]
    OBVIOUS
  <2>2. DOMAIN new = {"task"} /\ new["task"] = Ok(task1, <<>>)
    BY <1>4, <2>1
  <2>3. AreToGet(new, sent', 4)
    BY <1>1, <1>3, <2>2, GotRanks DEF AreToGet
  <2>4. AreRead(got, sent, 3) /\ got' = Added(new, got)
    BY <1>2, <1>5, <2>1 DEF FlowInv, FlowFiles
  <2>5. AreRead(got', sent', 4) /\ Extends(new, got, got')
    BY <1>7, <1>8, <2>3, <2>4, GotGrows, Zenon
  <2>6. QED
    BY <2>2, <2>5 DEF Extends
<1>10. /\ replies' \in Seq([ping : 1 .. 2, from : Ips, to : Ips, at : Times])
       /\ stage' \in Stages
  BY <1>1, <1>6 DEF FlowInv, FlowTypes, Stages
<1>11. FlowTypes' /\ FlowFiles' /\ InSchedule' /\ InAck' /\ InReplies' /\ InTask'
  BY <1>1, <1>2, <1>6, <1>8, <1>9, <1>10, Later
<1>12. InPayloads' /\ InResult' /\ InRelayed'
  BY <1>6 DEF InPayloads, InResult, InRelayed
<1>13. InSubscribe'
  <2>1. "subscribe" \in DOMAIN sent /\ Get(sent["subscribe"].message, 1) = Get(sent["task"].message, 1)
    BY <1>1, <1>2, TaskSent
  <2>2. QED
    BY <1>1, <1>9, <2>1 DEF InSubscribe
<1>14. QED
  BY <1>11, <1>12, <1>13 DEF FlowInv

(* What has been read is what has been sent.                                 *)
LEMMA GotIs ==
  ASSUME FlowInv, NEW n \in DOMAIN got
  PROVE  n \in DOMAIN sent /\ got[n].ok /\ got[n].value = sent[n].message
<1>1. n \in DOMAIN sent /\ got[n] = Ok(sent[n].message, <<>>)
  BY DEF FlowInv, FlowFiles, AreRead
<1>2. QED
  BY <1>1, OkIs

(* The payloads' names and their targets.                                    *)
LEMMA Names ==
  /\ \A i \in 1 .. 2 : PayloadName(i) \in {"payload1", "payload2"}
                       /\ (IF PayloadName(i) = "payload1" THEN 1 ELSE 2) = i
  /\ PayloadName(1) = "payload1" /\ PayloadName(2) = "payload2"
BY DEF PayloadName

(* A payload is written into each ping of the task.                          *)
LEMMA PerformPingNext == FlowInv /\ PerformPing => FlowInv'
<1> SUFFICES ASSUME FlowInv, PerformPing PROVE FlowInv'
  OBVIOUS
<1>1. /\ stage = "received" /\ stage' = "pinged" /\ newer' = newer /\ got' = got
      /\ source' = source /\ targets' = targets /\ replies' = replies
  BY DEF PerformPing
<1>2. Rank(stage) = 4 /\ Rank(stage') = 5 /\ Dispatched(stage) /\ stage # "dispatched"
  BY <1>1, Ranks DEF Dispatched
<1>3. PICK task1 : /\ "task" \in DOMAIN sent /\ "task" \in DOMAIN got /\ task1 = sent["task"].message
                   /\ IsTask(task1, BuildPing) /\ got["task"].value = task1
  <2>1. "task" \in DOMAIN sent /\ "task" \in DOMAIN got /\ IsTask(sent["task"].message, BuildPing)
    BY <1>2, TaskSent
  <2>2. QED
    BY <2>1, GotIs
<1>4. PICK L \in 0 .. 2 : L = Len(targets)
  <2>1. PICK l : l = Len(targets) /\ l <= MaxTargets /\ targets \in Seq(Ips)
    BY DEF FlowInv, FlowTypes, Sources
  <2>2. l \in Nat
    BY <2>1, LenProperties
  <2>3. QED
    <3>1. MaxTargets \in 0 .. 2
      BY MessageFlowAssumption
    <3>2. l \in 0 .. 2
      BY <2>1, <2>2, <3>1
    <3>3. QED
      BY <2>1, <3>2
<1>5. Sources
  BY DEF FlowInv, FlowTypes
<1>6. Len(Destinations(task1)) = L
  <2>1. PICK l : l = Get(BuildPing, 2) /\ l = [i \in 1 .. L |-> AddressOf(targets[i])]
    BY <1>4, <1>5, Pings
  <2>2. Len(l) = L
    <3>1. PICK S : S = {AddressOf(targets[i]) : i \in 1 .. L}
      OBVIOUS
    <3>2. l \in Seq(S) /\ Len(l) = L
      BY <2>1, <3>1
    <3>3. QED
      BY <3>2
  <2>3. QED
    BY <1>3, <2>1, <2>2 DEF IsTask, Destinations
<1>7. PICK time \in Times :
        sent' = Added([n \in {PayloadName(i) : i \in 1 .. L} |->
                         Written(PayloadFor(task1, IF n = "payload1" THEN 1 ELSE 2, time))], sent)
  BY <1>3, <1>6 DEF PerformPing
<1>8. PICK new : new = [n \in {PayloadName(i) : i \in 1 .. L} |->
                         Written(PayloadFor(task1, IF n = "payload1" THEN 1 ELSE 2, time))]
  OBVIOUS
<1>9. ASSUME NEW i \in 1 .. L
      PROVE  /\ PayloadName(i) \in DOMAIN new
             /\ new[PayloadName(i)] = Written(PayloadFor(task1, i, time))
             /\ WellFormed4(PayloadFor(task1, i, time))
             /\ IsPayload(PayloadFor(task1, i, time), Get(task1, 1), source, targets[i], newer)
  <2>1. i \in 1 .. 2 /\ time \in Nat
    BY <1>4, MessageFlowAssumption
  <2>2. PICK n : n = PayloadName(i) /\ (IF n = "payload1" THEN 1 ELSE 2) = i
    BY <2>1, Names
  <2>3. n \in DOMAIN new /\ new[n] = Written(PayloadFor(task1, i, time))
    BY <1>8, <2>2
  <2>4. IsPayload(PayloadFor(task1, i, time), Get(task1, 1), source, targets[i], newer)
    BY <1>3, <1>4, <1>5, <2>1, PayloadFacts DEF IsTask
  <2>5. QED
    BY <2>2, <2>3, <2>4, Deeper DEF IsPayload
<1>10. \A n \in DOMAIN new : n \in {"payload1", "payload2"} /\ \E i \in 1 .. L : n = PayloadName(i)
  BY <1>4, <1>8, Names
<1>11. AreToSend(new, 4, 5)
  <2>1. ASSUME NEW n \in DOMAIN new
        PROVE  IsWritten(new[n]) /\ 4 < SentFrom(n) /\ SentFrom(n) <= 5
    <3>1. PICK i \in 1 .. L : n = PayloadName(i) /\ n \in {"payload1", "payload2"}
      BY <1>10
    <3>2. IsWritten(new[n])
      BY <1>9, <3>1, WrittenMessage
    <3>3. QED
      BY <3>1, <3>2, SentRanks
  <2>2. QED
    BY <2>1 DEF AreToSend
<1>12. 4 \in Nat /\ 5 \in Nat /\ 4 <= 5
  OBVIOUS
<1>13. AreWritten(sent', 5) /\ Keeps(sent, sent') /\ Keeps(new, sent') /\ Extends(new, sent, sent')
  <2>1. AreWritten(sent, 4) /\ sent' = Added(new, sent)
    BY <1>2, <1>7, <1>8 DEF FlowInv, FlowFiles
  <2>2. QED
    BY <1>11, <1>12, <2>1, SentGrows
<1>14. AreRead(got', sent', 5)
  <2>1. AreRead(got, sent, 4)
    BY <1>2 DEF FlowInv, FlowFiles
  <2>2. AreRead(got, sent', 5)
    BY <1>12, <1>13, <2>1, GotStays, Zenon
  <2>3. QED
    BY <1>1, <2>2
<1>15. /\ replies' \in Seq([ping : 1 .. 2, from : Ips, to : Ips, at : Times])
       /\ stage' \in Stages
  BY <1>1 DEF FlowInv, FlowTypes, Stages
<1>16. /\ FlowTypes' /\ FlowFiles' /\ InSchedule' /\ InAck' /\ InReplies' /\ InTask' /\ InSubscribe'
  BY <1>1, <1>2, <1>3, <1>13, <1>14, <1>15, Later
<1>17. InResult' /\ InRelayed'
  BY <1>2 DEF InResult, InRelayed
<1>18. InPayloads'
  <2>1. sent'["task"].message = task1
    BY <1>3, <1>13 DEF Keeps
  <2>2. ASSUME NEW i \in 1 .. 2
        PROVE  /\ PayloadName(i) \in DOMAIN sent' <=> i \in 1 .. L
               /\ PayloadName(i) \in DOMAIN sent' =>
                    IsPayload(sent'[PayloadName(i)].message, Get(task1, 1), source, targets[i], newer)
    <3>1. PICK n : n = PayloadName(i) /\ n \in {"payload1", "payload2"}
      BY Names
    <3>2. n \notin DOMAIN sent
      <4>1. n \in DOMAIN sent => SentFrom(n) <= 4
        BY <1>2 DEF FlowInv, FlowFiles, AreWritten
      <4>2. QED
        BY <3>1, <4>1, SentRanks
    <3>3. n \in DOMAIN new => i \in 1 .. L
      <4>1. ASSUME n \in DOMAIN new PROVE i \in 1 .. L
        <5>1. PICK j \in 1 .. L : n = PayloadName(j)
          BY <1>10, <4>1
        <5>2. j \in 1 .. 2
          BY <1>4
        <5>3. j = i
          BY <3>1, <5>1, <5>2, Names
        <5>4. QED
          BY <5>3
      <4>2. QED
        BY <4>1
    <3>4. i \in 1 .. L => n \in DOMAIN new /\ n \in DOMAIN sent' /\ sent'[n] = new[n]
      BY <1>9, <1>13, <3>1 DEF Keeps
    <3>5. n \in DOMAIN sent' <=> i \in 1 .. L
      BY <1>13, <3>2, <3>3, <3>4 DEF Extends
    <3>6. ASSUME i \in 1 .. L
          PROVE  IsPayload(sent'[n].message, Get(task1, 1), source, targets[i], newer)
      <4>1. PICK m : /\ m = PayloadFor(task1, i, time) /\ new[n] = Written(m) /\ WellFormed4(m)
                     /\ IsPayload(m, Get(task1, 1), source, targets[i], newer)
        BY <1>9, <3>1, <3>6
      <4>2. sent'[n].message = m
        BY <3>4, <3>6, <4>1, WrittenMessage
      <4>3. QED
        BY <4>1, <4>2
    <3>7. QED
      BY <3>1, <3>5, <3>6
  <2>3. QED
    BY <1>1, <1>4, <2>1, <2>2 DEF InPayloads, PayloadName
<1>19. QED
  BY <1>16, <1>17, <1>18 DEF FlowInv

(* Replies carry the payload of the ping they answer.                        *)
LEMMA ReplyNext == FlowInv /\ (\E i \in 1 .. MaxTargets : Reply(i)) => FlowInv'
<1> SUFFICES ASSUME FlowInv, NEW i \in 1 .. MaxTargets, Reply(i) PROVE FlowInv'
  OBVIOUS
<1>1. /\ stage = "pinged" /\ stage' = stage /\ newer' = newer /\ got' = got /\ sent' = sent
      /\ source' = source /\ targets' = targets /\ i \in Payloads
  BY DEF Reply
<1>2. Rank(stage) = 5 /\ Rank(stage') = 5 /\ Dispatched(stage)
  BY <1>1, Ranks DEF Dispatched
<1>3. i \in 1 .. 2 /\ PayloadName(i) \in DOMAIN sent
  BY <1>1 DEF Payloads
<1>4. i \in 1 .. Len(targets)
  BY <1>2, <1>3 DEF FlowInv, InPayloads
<1>5. PICK r : /\ replies' = Append(replies, r) /\ r.ping = i
               /\ r \in [ping : 1 .. 2, from : Ips, to : Ips, at : Times]
  <2>1. PICK time \in Times :
          replies' = Append(replies, [ping |-> i, from |-> targets[i], to |-> source, at |-> time])
    BY DEF Reply
  <2>2. targets[i] \in Ips /\ source \in Ips
    BY <1>4 DEF FlowInv, FlowTypes, Sources
  <2>3. PICK r : r = [ping |-> i, from |-> targets[i], to |-> source, at |-> time]
    OBVIOUS
  <2>4. r \in [ping : 1 .. 2, from : Ips, to : Ips, at : Times] /\ r.ping = i
    BY <1>3, <2>2, <2>3
  <2>5. QED
    BY <2>1, <2>3, <2>4
<1>6. PICK R : R = [ping : 1 .. 2, from : Ips, to : Ips, at : Times]
  OBVIOUS
<1>7. replies \in Seq(R) /\ r \in R
  BY <1>5, <1>6 DEF FlowInv, FlowTypes
<1>8. /\ replies' \in Seq(R) /\ Len(replies') = Len(replies) + 1 /\ Len(replies) \in Nat
      /\ \A k \in 1 .. Len(replies) : replies'[k] = replies[k]
      /\ replies'[Len(replies) + 1] = r
  BY <1>5, <1>7, AppendProperties, LenProperties
<1>9. AreWritten(sent, 5) /\ AreRead(got, sent, 5)
  BY <1>2 DEF FlowInv, FlowFiles
<1>10. Keeps(sent, sent)
  BY DEF Keeps
<1>11. stage' \in Stages
  BY <1>1 DEF FlowInv, FlowTypes
<1>12. /\ FlowTypes' /\ FlowFiles' /\ InSchedule' /\ InAck' /\ InTask' /\ InSubscribe' /\ InPayloads'
  <2>1. "task" \in DOMAIN got' /\ stage' # "dispatched" /\ stage' # "answered"
    BY <1>1, <1>2, TaskSent
  <2>2. QED
    BY <1>1, <1>2, <1>6, <1>8, <1>9, <1>10, <1>11, <2>1, Later
<1>13. InResult' /\ InRelayed'
  BY <1>2 DEF InResult, InRelayed
<1>14. InReplies'
  <2>1. ASSUME NEW k \in 1 .. Len(replies') PROVE PayloadName(replies'[k].ping) \in DOMAIN sent
    <3>1. CASE k = Len(replies) + 1
      BY <1>3, <1>5, <1>8, <3>1
    <3>2. CASE k \in 1 .. Len(replies)
      <4>1. replies'[k] = replies[k]
        BY <1>8, <3>2
      <4>2. PayloadName(replies[k].ping) \in DOMAIN sent
        BY <3>2 DEF FlowInv, InReplies
      <4>3. QED
        BY <4>1, <4>2
    <3>3. QED
      BY <1>8, <3>1, <3>2
  <2>2. QED
    BY <1>1, <1>2, <2>1 DEF InReplies, PayloadName
<1>15. QED
  BY <1>12, <1>13, <1>14 DEF FlowInv

(* A reply is to a ping that was sent, with the payload of that ping.        *)
LEMMA RepliesAre ==
  ASSUME FlowInv, NEW k \in 1 .. Len(replies)
  PROVE  /\ IsReply(replies[k]) /\ PayloadName(replies[k].ping) \in DOMAIN sent
         /\ PayloadName(replies[k].ping) \in {"payload1", "payload2"} /\ replies[k].ping \in 1 .. 2
         /\ IsPayload(sent[PayloadName(replies[k].ping)].message, Get(sent["task"].message, 1),
                      source, targets[replies[k].ping], newer)
<1>1. PICK r : r = replies[k] /\ r \in [ping : 1 .. 2, from : Ips, to : Ips, at : Times]
  BY ElementOfSeq DEF FlowInv, FlowTypes
<1>2. IsReply(r) /\ r.ping \in 1 .. 2
  BY <1>1 DEF IsReply
<1>3. Rank(stage) >= 5 /\ PayloadName(r.ping) \in DOMAIN sent
  BY <1>1 DEF FlowInv, InReplies
<1>4. PayloadName(r.ping) \in {"payload1", "payload2"}
  BY <1>2, Names
<1>5. IsPayload(sent[PayloadName(r.ping)].message, Get(sent["task"].message, 1),
                source, targets[r.ping], newer)
  BY <1>2, <1>3 DEF FlowInv, InPayloads
<1>6. QED
  BY <1>1, <1>2, <1>3, <1>4, <1>5

(* The results of the replies, each with the payload read from it, are       *)
(* sent.                                                                     *)
LEMMA TransmitNext == FlowInv /\ Transmit => FlowInv'
<1> SUFFICES ASSUME FlowInv, Transmit PROVE FlowInv'
  OBVIOUS
<1>1. /\ stage = "pinged" /\ stage' = "transmitted" /\ newer' = newer /\ replies # <<>>
      /\ source' = source /\ targets' = targets /\ replies' = replies
  BY DEF Transmit
<1>2. Rank(stage) = 5 /\ Rank(stage') = 6 /\ Dispatched(stage) /\ stage # "dispatched"
  BY <1>1, Ranks DEF Dispatched
<1>3. PICK id \in Nat : /\ "task" \in DOMAIN sent /\ "task" \in DOMAIN got
                        /\ id = Get(sent["task"].message, 1)
  BY <1>2, TaskSent DEF IsTask
<1>4. PICK L \in Nat : L = Len(replies) /\ L # 0
  <2>1. replies \in Seq([ping : 1 .. 2, from : Ips, to : Ips, at : Times])
    BY DEF FlowInv, FlowTypes
  <2>2. Len(replies) \in Nat /\ Len(replies) # 0
    BY <1>1, <2>1, EmptySeq, LenProperties
  <2>3. QED
    BY <2>2
<1>5. PICK read : read = [k \in 1 .. L |-> Read(PayloadName(replies[k].ping))]
  OBVIOUS
<1>6. PICK payload : payload = [k \in 1 .. L |-> read[k].value]
  OBVIOUS
<1>7. PICK results : results = [k \in 1 .. L |-> ResultFor(replies[k], payload[k])]
  OBVIOUS
<1>8. /\ Send("result", TaskResultOf(Get(payload[1], 1), results))
      /\ got' = Added([n \in {PayloadName(replies[k].ping) : k \in 1 .. L} |-> Read(n)], got)
  BY <1>4, <1>5, <1>6, <1>7, Zenon DEF Transmit
<1>9. ASSUME NEW k \in 1 .. L
      PROVE  /\ payload[k] = sent[PayloadName(replies[k].ping)].message
             /\ Get(payload[k], 1) = id
             /\ IsResult(results[k], replies[k], payload[k], newer)
             /\ WellFormed3(results[k]) /\ results[k].type = "Result"
  <2>1. PICK p : p = sent[PayloadName(replies[k].ping)].message
    OBVIOUS
  <2>2. /\ IsReply(replies[k]) /\ PayloadName(replies[k].ping) \in DOMAIN sent
        /\ IsPayload(p, id, source, targets[replies[k].ping], newer)
    BY <1>3, <1>4, <2>1, RepliesAre
  <2>3. Read(PayloadName(replies[k].ping)).value = p
    BY <2>1, <2>2, ReadOne
  <2>4. payload[k] = p
    BY <1>5, <1>6, <2>3
  <2>5. WellFormed1(p) /\ p.type = "PingPayload" /\ Get(p, 1) = id
    BY <2>2 DEF IsPayload
  <2>6. results[k] = ResultFor(replies[k], p)
    BY <1>7, <2>4
  <2>7. IsResult(results[k], replies[k], p, newer)
    BY <2>2, <2>5, <2>6, ResultFacts
  <2>8. QED
    BY <2>1, <2>4, <2>5, <2>7 DEF IsResult
<1>10. IsList(results) /\ Len(results) = L
  <2>1. PICK S : S = {ResultFor(replies[k], payload[k]) : k \in 1 .. L}
    OBVIOUS
  <2>2. results \in Seq(S) /\ Len(results) = L
    BY <1>7, <2>1
  <2>3. QED
    BY <2>2 DEF IsList
<1>11. PICK m : m = TaskResultOf(id, results) /\ WellFormed4(m) /\ Get(m, 3) = results
  BY <1>9, <1>10, TaskResults
<1>12. Send("result", m)
  <2>1. Get(payload[1], 1) = id
    BY <1>4, <1>9
  <2>2. QED
    BY <1>8, <1>11, <2>1
<1>13. 5 \in Nat /\ 6 \in Nat /\ 5 <= 6
  OBVIOUS
<1>14. /\ AreWritten(sent', 6) /\ Keeps(sent, sent')
       /\ \A k : k \in DOMAIN sent' <=> k = "result" \/ k \in DOMAIN sent
       /\ sent'["result"].message = m
  <2>1. Rank(stage) < SentFrom("result") /\ SentFrom("result") <= 6
    BY <1>2, SentRanks
  <2>2. QED
    BY <1>11, <1>12, <1>13, <2>1, SendOne
<1>15. AreRead(got', sent', 6) /\ "task" \in DOMAIN got'
  <2>1. PICK new : new = [n \in {PayloadName(replies[k].ping) : k \in 1 .. L} |-> Read(n)]
    OBVIOUS
  <2>2. ASSUME NEW n \in DOMAIN new
        PROVE  n \in DOMAIN sent' /\ new[n] = Ok(sent'[n].message, <<>>) /\ GotFrom(n) <= 6
    <3>1. PICK k \in 1 .. L : n = PayloadName(replies[k].ping)
      BY <2>1
    <3>2. n \in DOMAIN sent /\ n \in {"payload1", "payload2"}
      BY <1>4, <3>1, RepliesAre
    <3>3. new[n] = Ok(sent[n].message, <<>>)
      BY <2>1, <3>2, ReadOne
    <3>4. QED
      BY <1>14, <3>2, <3>3, GotRanks DEF Keeps
  <2>3. AreToGet(new, sent', 6)
    BY <2>2 DEF AreToGet
  <2>4. AreRead(got, sent, 5) /\ got' = Added(new, got)
    BY <1>2, <1>8, <2>1 DEF FlowInv, FlowFiles
  <2>5. AreRead(got', sent', 6) /\ Extends(new, got, got')
    BY <1>13, <1>14, <2>3, <2>4, GotGrows
  <2>6. QED
    BY <1>3, <2>5 DEF Extends
<1>16. /\ replies' \in Seq([ping : 1 .. 2, from : Ips, to : Ips, at : Times])
       /\ stage' \in Stages
  BY <1>1 DEF FlowInv, FlowTypes, Stages
<1>17. \A i \in 1 .. 2 : PayloadName(i) \in DOMAIN sent' => PayloadName(i) \in DOMAIN sent
  BY <1>14, Names
<1>18. /\ FlowTypes' /\ FlowFiles' /\ InSchedule' /\ InAck' /\ InReplies' /\ InTask'
       /\ InSubscribe' /\ InPayloads'
  BY <1>1, <1>2, <1>14, <1>15, <1>16, <1>17, Later
<1>19. InResult'
  <2>1. \A k \in 1 .. L : sent'[PayloadName(replies[k].ping)].message = payload[k]
    <3>1. TAKE k \in 1 .. L
    <3>2. PayloadName(replies[k].ping) \in DOMAIN sent
      BY <1>4, RepliesAre
    <3>3. QED
      BY <1>9, <1>14, <3>2 DEF Keeps
  <2>2. Shows(m, sent', replies, newer)
    BY <1>4, <1>9, <1>10, <1>11, <2>1 DEF Shows
  <2>3. QED
    BY <1>1, <1>14, <2>2 DEF InResult
<1>20. InRelayed'
  BY <1>2 DEF InRelayed
<1>21. QED
  BY <1>18, <1>19, <1>20 DEF FlowInv

(* The steps after the result has been transmitted.                          *)
LEMMA LateStep ==
  ASSUME FlowInv, newer' = newer, source' = source, targets' = targets, replies' = replies,
         stage' \in Stages, Rank(stage) >= 6, Rank(stage) <= Rank(stage'), Dispatched(stage),
         stage' # "answered", stage' # "dispatched",
         AreWritten(sent', Rank(stage')), Keeps(sent, sent'),
         \A n \in {"payload1", "payload2"} : n \in DOMAIN sent' => n \in DOMAIN sent,
         NEW new, got' = Added(new, got), AreToGet(new, sent', Rank(stage')),
         Rank(stage') >= 7 => InRelayed'
  PROVE  FlowInv'
<1>1. PICK r \in Nat, r1 \in Nat : r = Rank(stage) /\ r1 = Rank(stage') /\ r <= r1
  BY Ranks
<1>2. AreRead(got, sent, r) /\ AreToGet(new, sent', r1)
  BY <1>1 DEF FlowInv, FlowFiles
<1>3. AreRead(got', sent', r1) /\ Extends(new, got, got')
  BY <1>1, <1>2, GotGrows
<1>4. "task" \in DOMAIN got'
  <2>1. stage # "dispatched"
    BY Ranks
  <2>2. Rank(stage) >= 4
    BY <1>1
  <2>3. QED
    BY <1>3, <2>1, <2>2, TaskSent DEF Extends
<1>5. replies' \in Seq([ping : 1 .. 2, from : Ips, to : Ips, at : Times])
  BY DEF FlowInv, FlowTypes
<1>6. \A i \in 1 .. 2 : PayloadName(i) \in DOMAIN sent' => PayloadName(i) \in DOMAIN sent
  BY Names
<1>7. Rank(stage) >= 1 /\ Rank(stage) >= 2 /\ Rank(stage) >= 4 /\ Rank(stage) >= 5
  BY <1>1
<1>8. AreRead(got', sent', Rank(stage'))
  BY <1>1, <1>3
<1>9. /\ FlowTypes' /\ FlowFiles' /\ InSchedule' /\ InAck' /\ InReplies' /\ InTask'
      /\ InSubscribe' /\ InPayloads' /\ InResult'
  BY <1>4, <1>5, <1>6, <1>7, <1>8, Later
<1>10. InRelayed'
  BY <1>1 DEF InRelayed
<1>11. QED
  BY <1>9, <1>10 DEF FlowInv

(* The server relays the task result with its own client in it.              *)
LEMMA RelayResultNext == FlowInv /\ RelayResult => FlowInv'
<1> SUFFICES ASSUME FlowInv, RelayResult PROVE FlowInv'
  OBVIOUS
<1>1. /\ stage = "transmitted" /\ stage' = "relayed" /\ newer' = newer
      /\ source' = source /\ targets' = targets /\ replies' = replies
  BY DEF RelayResult
<1>2. Rank(stage) = 6 /\ Rank(stage') = 7 /\ Dispatched(stage) /\ stage' \in Stages
  BY <1>1, Ranks DEF Dispatched, Stages
<1>3. PICK m : /\ "result" \in DOMAIN sent /\ m = sent["result"].message
               /\ IsWritten(sent["result"])
  BY <1>2 DEF FlowInv, InResult, FlowFiles, AreWritten
<1>4. sent["result"] = Written(m) /\ WellFormed4(m)
  BY <1>3 DEF IsWritten
<1>5. PICK read : read = Read("result") /\ read = Ok(m, <<>>) /\ read.value = m
  BY <1>3, ReadOne
<1>6. got' = Added([result |-> read], got)
  BY <1>5, Zenon DEF RelayResult
<1>7. PICK ack : ack = NewMessage("Ack") /\ WellFormed4(ack)
  BY Acks
<1>8. PICK new : new = [relayed |-> Written(m), received |-> Written(ack)]
  OBVIOUS
<1>9. sent' = Added(new, sent)
  BY <1>5, <1>7, <1>8 DEF RelayResult
<1>10. /\ DOMAIN new = {"relayed", "received"}
       /\ new["relayed"] = Written(m) /\ new["received"] = Written(ack)
  BY <1>8
<1>11. AreToSend(new, 6, 7)
  <2>1. IsWritten(Written(m)) /\ IsWritten(Written(ack))
    BY <1>4, <1>7, WrittenMessage
  <2>2. QED
    BY <1>10, <2>1, SentRanks DEF AreToSend
<1>12. 6 \in Nat /\ 7 \in Nat /\ 6 <= 7
  OBVIOUS
<1>13. AreWritten(sent', 7) /\ Keeps(sent, sent') /\ Keeps(new, sent') /\ Extends(new, sent, sent')
  <2>1. AreWritten(sent, 6)
    BY <1>2 DEF FlowInv, FlowFiles
  <2>2. QED
    BY <1>9, <1>11, <1>12, <2>1, SentGrows
<1>14. \A n \in {"payload1", "payload2"} : n \in DOMAIN sent' => n \in DOMAIN sent
  BY <1>10, <1>13 DEF Extends
<1>15. InRelayed'
  BY <1>3, <1>4, <1>10, <1>13 DEF InRelayed, Keeps
<1>16. PICK read1 : read1 = [result |-> read]
  OBVIOUS
<1>17. AreToGet(read1, sent', 7)
  <2>1. DOMAIN read1 = {"result"} /\ read1["result"] = Ok(m, <<>>)
    BY <1>5, <1>16
  <2>2. "result" \in DOMAIN sent' /\ sent'["result"].message = m
    BY <1>3, <1>13 DEF Keeps
  <2>3. QED
    BY <2>1, <2>2, GotRanks DEF AreToGet
<1>18. got' = Added(read1, got)
  BY <1>6, <1>16
<1>19. AreToGet(read1, sent', Rank(stage')) /\ AreWritten(sent', Rank(stage'))
  BY <1>2, <1>13, <1>17
<1>20. QED
  BY <1>1, <1>2, <1>13, <1>14, <1>15, <1>18, <1>19, LateStep

(* The cli reads the task result and shows its replies.                      *)
LEMMA ReadResultNext == FlowInv /\ ReadResult => FlowInv'
<1> SUFFICES ASSUME FlowInv, ReadResult PROVE FlowInv'
  OBVIOUS
<1>1. /\ stage = "relayed" /\ stage' = "shown" /\ newer' = newer /\ sent' = sent
      /\ source' = source /\ targets' = targets /\ replies' = replies
  BY DEF ReadResult
<1>2. Rank(stage) = 7 /\ Rank(stage') = 8 /\ Dispatched(stage) /\ stage' \in Stages
  BY <1>1, Ranks DEF Dispatched, Stages
<1>3. "relayed" \in DOMAIN sent /\ "received" \in DOMAIN sent
  BY <1>2 DEF FlowInv, InRelayed
<1>4. PICK new : new = [relayed |-> Read("relayed"), received |-> Read("received")]
  OBVIOUS
<1>5. got' = Added(new, got)
  BY <1>4 DEF ReadResult
<1>6. /\ Read("relayed") = Ok(sent["relayed"].message, <<>>)
      /\ Read("received") = Ok(sent["received"].message, <<>>)
  BY <1>3, ReadOne
<1>7. /\ DOMAIN new = {"relayed", "received"}
      /\ new["relayed"] = Ok(sent["relayed"].message, <<>>)
      /\ new["received"] = Ok(sent["received"].message, <<>>)
  BY <1>4, <1>6
<1>8. AreToGet(new, sent', 8)
  BY <1>1, <1>3, <1>7, GotRanks DEF AreToGet
<1>9. AreWritten(sent', 8) /\ Keeps(sent, sent')
  <2>1. AreWritten(sent, 7) /\ 7 \in Nat /\ 8 \in Nat /\ 7 <= 8
    BY <1>2 DEF FlowInv, FlowFiles
  <2>2. AreWritten(sent, 8) /\ Keeps(sent, sent)
    BY <2>1, SentStays
  <2>3. QED
    BY <1>1, <2>2
<1>10. InRelayed'
  BY <1>1, <1>2 DEF FlowInv, InRelayed
<1>11. \A n \in {"payload1", "payload2"} : n \in DOMAIN sent' => n \in DOMAIN sent
  BY <1>1
<1>12. AreToGet(new, sent', Rank(stage')) /\ AreWritten(sent', Rank(stage'))
  BY <1>2, <1>8, <1>9
<1>13. QED
  BY <1>1, <1>2, <1>5, <1>9, <1>10, <1>11, <1>12, LateStep

(* A message that is written and read in one step.                           *)
LEMMA SentAndRead ==
  ASSUME FlowInv, newer' = newer, source' = source, targets' = targets, replies' = replies,
         stage' \in Stages, Rank(stage) >= 7, Rank(stage) <= Rank(stage'), Dispatched(stage),
         stage' # "answered", stage' # "dispatched",
         NEW n, NEW m, WellFormed4(m), Send(n, m),
         Rank(stage) < SentFrom(n), SentFrom(n) <= Rank(stage'), GotFrom(n) <= Rank(stage'),
         n \notin {"payload1", "payload2"},
         NEW new, got' = Added(new, got), DOMAIN new = {n}, new[n] = ReadFrom(Written(m))
  PROVE  FlowInv'
<1>1. PICK r \in Nat, r1 \in Nat : r = Rank(stage) /\ r1 = Rank(stage') /\ r <= r1
  BY Ranks
<1>2. /\ AreWritten(sent', r1) /\ Keeps(sent, sent')
      /\ \A k : k \in DOMAIN sent' <=> k = n \/ k \in DOMAIN sent
      /\ sent'[n] = Written(m) /\ sent'[n].message = m
  BY <1>1, SendOne
<1>3. new[n] = Ok(m, <<>>)
  BY WrittenMessage, ReadIsWritten
<1>4. AreToGet(new, sent', Rank(stage'))
  BY <1>2, <1>3 DEF AreToGet
<1>5. InRelayed'
  <2>1. Rank(stage) >= 6
    BY <1>1
  <2>2. /\ "relayed" \in DOMAIN sent /\ "received" \in DOMAIN sent /\ "result" \in DOMAIN sent
        /\ sent["relayed"] = sent["result"]
    BY <2>1 DEF FlowInv, InRelayed, InResult
  <2>3. QED
    BY <1>2, <2>2 DEF InRelayed, Keeps
<1>6. \A k \in {"payload1", "payload2"} : k \in DOMAIN sent' => k \in DOMAIN sent
  BY <1>2
<1>7. AreWritten(sent', Rank(stage')) /\ Rank(stage) >= 6
  BY <1>1, <1>2
<1>8. QED
  BY <1>2, <1>4, <1>5, <1>6, <1>7, LateStep

(* The end of the task is written and read.                                  *)
LEMMA FinishTaskNext == FlowInv /\ FinishTask => FlowInv'
<1> SUFFICES ASSUME FlowInv, FinishTask PROVE FlowInv'
  OBVIOUS
<1>1. /\ stage = "shown" /\ stage' = "finished" /\ newer' = newer
      /\ source' = source /\ targets' = targets /\ replies' = replies
  BY DEF FinishTask
<1>2. Rank(stage) = 8 /\ Rank(stage') = 9 /\ Dispatched(stage) /\ stage' \in Stages
      /\ stage # "dispatched"
  BY <1>1, Ranks DEF Dispatched, Stages
<1>3. PICK id \in Nat : id = Get(got["task"].value, 1)
  <2>1. "task" \in DOMAIN got /\ IsTask(sent["task"].message, BuildPing)
    BY <1>2, TaskSent
  <2>2. QED
    BY <2>1, GotIs DEF IsTask
<1>4. PICK m : m = Set(NewMessage("TaskId"), 1, id) /\ WellFormed4(m)
  BY TaskIds1
<1>5. PICK new : new = [finished |-> ReadFrom(Written(m))]
  OBVIOUS
<1>6. Send("finished", m) /\ got' = Added(new, got)
  BY <1>3, <1>4, <1>5 DEF FinishTask
<1>7. DOMAIN new = {"finished"} /\ new["finished"] = ReadFrom(Written(m))
  BY <1>5
<1>8. /\ Rank(stage) < SentFrom("finished") /\ SentFrom("finished") <= Rank(stage')
      /\ GotFrom("finished") <= Rank(stage') /\ Rank(stage) >= 7 /\ Rank(stage) <= Rank(stage')
  BY <1>2, SentRanks, GotRanks
<1>9. stage' # "answered" /\ stage' # "dispatched" /\ "finished" \notin {"payload1", "payload2"}
  BY <1>1
<1>10. QED
  BY <1>1, <1>2, <1>4, <1>6, <1>7, <1>8, <1>9, SentAndRead

(* A keepalive is written and read.                                          *)
LEMMA KeepaliveNext == FlowInv /\ Keepalive => FlowInv'
<1> SUFFICES ASSUME FlowInv, Keepalive PROVE FlowInv'
  OBVIOUS
<1>1. PICK m : /\ m = Set(NewMessage("Task"), 3, NewMessage("Empty"))
               /\ WellFormed4(m) /\ ~ Has(m, 2)
  BY Keepalives
<1>2. PICK read : read = ReadFrom(Written(m)) /\ read.value = m
  BY <1>1, WrittenMessage, ReadIsWritten, OkIs
<1>3. /\ stage = "finished" /\ stage' = "alive" /\ newer' = newer
      /\ source' = source /\ targets' = targets /\ replies' = replies
  BY <1>1, <1>2 DEF Keepalive
<1>4. Rank(stage) = 9 /\ Rank(stage') = 10 /\ Dispatched(stage) /\ stage' \in Stages
  BY <1>3, Ranks DEF Dispatched, Stages
<1>5. PICK new : new = [keepalive |-> read]
  OBVIOUS
<1>6. Send("keepalive", m) /\ got' = Added(new, got)
  BY <1>1, <1>2, <1>5 DEF Keepalive
<1>7. DOMAIN new = {"keepalive"} /\ new["keepalive"] = ReadFrom(Written(m))
  BY <1>2, <1>5
<1>8. /\ Rank(stage) < SentFrom("keepalive") /\ SentFrom("keepalive") <= Rank(stage')
      /\ GotFrom("keepalive") <= Rank(stage') /\ Rank(stage) >= 7 /\ Rank(stage) <= Rank(stage')
  BY <1>4, SentRanks, GotRanks
<1>9. stage' # "answered" /\ stage' # "dispatched" /\ "keepalive" \notin {"payload1", "payload2"}
  BY <1>3
<1>10. QED
  BY <1>1, <1>3, <1>4, <1>6, <1>7, <1>8, <1>9, SentAndRead

(* A list of clients is written and read.                                    *)
LEMMA ListClientsNext == FlowInv /\ ListClients => FlowInv'
<1> SUFFICES ASSUME FlowInv, ListClients PROVE FlowInv'
  OBVIOUS
<1>1. /\ stage = "alive" /\ stage' = "listed" /\ newer' = newer
      /\ source' = source /\ targets' = targets /\ replies' = replies
  BY DEF ListClients
<1>2. Rank(stage) = 10 /\ Rank(stage') = 11 /\ Dispatched(stage) /\ stage' \in Stages
  BY <1>1, Ranks DEF Dispatched, Stages
<1>3. PICK client :
        client = Set(Set(NewMessage("Client"), 1, Index), 2, ClientMetadata(Hostname, <<1>>))
  OBVIOUS
<1>4. PICK m : m = Set(NewMessage("ClientList"), 1, <<client>>) /\ WellFormed4(m)
  BY <1>3, ListsOfClients
<1>5. PICK new : new = [list |-> ReadFrom(Written(m))]
  OBVIOUS
<1>6. Send("list", m) /\ got' = Added(new, got)
  BY <1>3, <1>4, <1>5 DEF ListClients
<1>7. DOMAIN new = {"list"} /\ new["list"] = ReadFrom(Written(m))
  BY <1>5
<1>8. /\ Rank(stage) < SentFrom("list") /\ SentFrom("list") <= Rank(stage')
      /\ GotFrom("list") <= Rank(stage') /\ Rank(stage) >= 7 /\ Rank(stage) <= Rank(stage')
  BY <1>2, SentRanks, GotRanks
<1>9. stage' # "answered" /\ stage' # "dispatched" /\ "list" \notin {"payload1", "payload2"}
  BY <1>1
<1>10. QED
  BY <1>1, <1>2, <1>4, <1>6, <1>7, <1>8, <1>9, SentAndRead

-----------------------------------------------------------------------------
(* So does a step that changes nothing of it.                                *)
LEMMA FlowStutters == FlowInv /\ UNCHANGED flowVars => FlowInv'
<1> SUFFICES ASSUME FlowInv, UNCHANGED flowVars PROVE FlowInv'
  OBVIOUS
<1>1. /\ stage' = stage /\ newer' = newer /\ sent' = sent /\ got' = got
      /\ source' = source /\ targets' = targets /\ replies' = replies
  BY DEF flowVars
<1>2. BuildPing' = BuildPing
  BY <1>1, BuildPingStays
<1>3. FlowTypes' /\ FlowFiles' /\ InSchedule' /\ InAck' /\ InTask' /\ InSubscribe'
  BY <1>1, <1>2 DEF FlowInv, FlowTypes, FlowFiles, Sources, InSchedule, InAck, InTask, InSubscribe
<1>4. InPayloads' /\ InReplies'
  BY <1>1 DEF FlowInv, InPayloads, InReplies, PayloadName
<1>5. InResult' /\ InRelayed'
  BY <1>1 DEF FlowInv, InResult, InRelayed
<1>6. QED
  BY <1>3, <1>4, <1>5 DEF FlowInv

(* Every step keeps the invariant ...                                        *)
LEMMA FlowContinues == FlowInv /\ [FlowNext]_flowVars => FlowInv'
BY ScheduleNext, DoTaskNext, ReadAckNext, ReceiveTaskNext, PerformPingNext, ReplyNext,
   TransmitNext, RelayResultNext, ReadResultNext, FinishTaskNext, KeepaliveNext, ListClientsNext,
   FlowStutters DEF FlowNext

(* ... which therefore always holds.                                         *)
LEMMA FlowInvHolds == FlowSpec => []FlowInv
BY FlowStarts, FlowContinues, PTL DEF FlowSpec

(* Whoever reads a message has the message that was written: the wire format *)
(* that the generated code writes is the one that it reads, for the message  *)
(* of every type that the programs build.                                    *)
THEOREM WhatIsReadWasWritten == FlowSpec => []ReadersHaveWhatWasWritten
<1>1. FlowInv => ReadersHaveWhatWasWritten
  BY GotIs DEF ReadersHaveWhatWasWritten
<1>2. QED
  BY <1>1, FlowInvHolds, PTL

(* The pings that go out are those of the cli's file, from its address and   *)
(* under its task id, for all files of up to MaxTargets addresses.           *)
THEOREM WhatIsScheduledIsPinged == FlowSpec => []ScheduledIsPinged
<1>1. ASSUME FlowInv, Payloads # {} PROVE ScheduledIsPinged
  <2>1. PICK j \in 1 .. 2 : PayloadName(j) \in DOMAIN sent
    BY <1>1 DEF Payloads
  <2>2. Rank(stage) >= 5
    <3>1. SentFrom(PayloadName(j)) <= Rank(stage)
      BY <1>1, <2>1 DEF FlowInv, FlowFiles, AreWritten
    <3>2. PayloadName(j) \in {"payload1", "payload2"}
      BY Names
    <3>3. SentFrom(PayloadName(j)) = 5
      BY <3>2, SentRanks
    <3>4. QED
      BY <3>1, <3>3
  <2>3. Dispatched(stage) /\ stage # "dispatched"
    BY <1>1, <2>2, Ranks DEF Dispatched, FlowInv, FlowTypes
  <2>4. Get(sent["subscribe"].message, 1) = Get(sent["task"].message, 1)
    BY <1>1, <2>3, TaskSent
  <2>5. ASSUME NEW i \in 1 .. 2
        PROVE  /\ i \in Payloads <=> i \in 1 .. Len(targets)
               /\ i \in Payloads =>
                    IsPayload(sent[PayloadName(i)].message, Get(sent["task"].message, 1),
                              source, targets[i], newer)
    BY <1>1, <2>2 DEF FlowInv, InPayloads, Payloads
  <2>6. 1 .. Len(targets) \subseteq 1 .. 2
    <3>1. PICK l : l = Len(targets) /\ l <= MaxTargets /\ targets \in Seq(Ips)
      BY <1>1 DEF FlowInv, FlowTypes, Sources
    <3>2. l \in Nat
      BY <3>1, LenProperties
    <3>3. MaxTargets \in 0 .. 2
      BY MessageFlowAssumption
    <3>4. l <= 2
      BY <3>1, <3>2, <3>3
    <3>5. QED
      BY <3>1, <3>2, <3>4
  <2>7. Payloads \subseteq 1 .. 2
    BY DEF Payloads
  <2>8. Payloads = 1 .. Len(targets)
    BY <2>5, <2>6, <2>7
  <2>9. ASSUME NEW i \in Payloads
        PROVE  /\ IpAddr(Get(sent[PayloadName(i)].message, 4)) = V4(targets[i])
               /\ IpAddr(Get(sent[PayloadName(i)].message, 3)) = V4(source)
               /\ Get(sent[PayloadName(i)].message, 1) = Get(sent["subscribe"].message, 1)
    <3>1. IsPayload(sent[PayloadName(i)].message, Get(sent["task"].message, 1),
                    source, targets[i], newer)
      BY <2>5, <2>7
    <3>2. QED
      BY <2>4, <3>1 DEF IsPayload
  <2>10. QED
    BY <2>8, <2>9 DEF ScheduledIsPinged
<1>2. FlowInv => ScheduledIsPinged
  BY <1>1 DEF ScheduledIsPinged
<1>3. QED
  BY <1>2, FlowInvHolds, PTL

(* What the cli reads when the result has come to it.                        *)
LEMMA RelayedShows ==
  ASSUME FlowInv, "relayed" \in DOMAIN got
  PROVE  Shows(got["relayed"].value, sent, replies, newer)
<1>1. GotFrom("relayed") <= Rank(stage)
  BY DEF FlowInv, FlowFiles, AreRead
<1>2. PICK r \in Nat : r = Rank(stage) /\ r >= 8
  BY <1>1, GotRanks, Ranks
<1>3. Rank(stage) >= 6 /\ Rank(stage) >= 7
  BY <1>2
<1>4. Shows(sent["result"].message, sent, replies, newer) /\ sent["relayed"] = sent["result"]
  BY <1>3 DEF FlowInv, InResult, InRelayed
<1>5. got["relayed"].value = sent["relayed"].message
  BY GotIs
<1>6. QED
  BY <1>4, <1>5

(* The cli is shown each reply in the order of arrival, with the addresses   *)
(* and the times of the reply and of the ping that it answers.               *)
THEOREM WhatIsShownWasReplied == FlowSpec => []ShownIsWhatReplied
<1>1. ASSUME FlowInv, "relayed" \in DOMAIN got PROVE ShownIsWhatReplied
  <2>1. PICK shown : shown = Get(got["relayed"].value, 3)
    OBVIOUS
  <2>2. Shows(got["relayed"].value, sent, replies, newer)
    BY <1>1, RelayedShows
  <2>3. Len(shown) = Len(replies)
    BY <2>1, <2>2 DEF Shows
  <2>4. ASSUME NEW k \in 1 .. Len(replies)
        PROVE  /\ Has(shown[k], 1)
               /\ IpAddr(Get(Get(shown[k], 1), 1)) = V4(replies[k].from)
               /\ IpAddr(Get(Get(shown[k], 1), 2)) = V4(replies[k].to)
               /\ Get(Get(shown[k], 1), 3) = replies[k].at
               /\ IpAddr(Get(Get(Get(shown[k], 1), 4), 4)) = V4(targets[replies[k].ping])
               /\ Get(Get(Get(shown[k], 1), 4), 2)
                    = Get(sent[PayloadName(replies[k].ping)].message, 2)
    <3>1. PICK p : p = sent[PayloadName(replies[k].ping)].message
      OBVIOUS
    <3>2. IsResult(shown[k], replies[k], p, newer)
      BY <2>1, <2>2, <3>1 DEF Shows
    <3>3. IpAddr(Get(p, 4)) = V4(targets[replies[k].ping])
      BY <1>1, <3>1, RepliesAre DEF IsPayload
    <3>4. QED
      BY <3>1, <3>2, <3>3 DEF IsResult
  <2>5. QED
    BY <2>1, <2>3, <2>4 DEF ShownIsWhatReplied
<1>2. FlowInv => ShownIsWhatReplied
  BY <1>1 DEF ShownIsWhatReplied
<1>3. QED
  BY <1>2, FlowInvHolds, PTL

(* A field that only a newer program knows comes through the programs that   *)
(* do not know it.                                                           *)
THEOREM FieldsOfNewerProgramsSurvive == FlowSpec => []NewFieldsSurvive
<1>1. ASSUME FlowInv, newer = "Ping", "task" \in DOMAIN got
      PROVE  Get(got["task"].value, 2).unknown # <<>>
  <2>1. GotFrom("task") <= Rank(stage)
    BY <1>1 DEF FlowInv, FlowFiles, AreRead
  <2>2. PICK r \in Nat : r = Rank(stage) /\ r >= 4
    BY <2>1, GotRanks, Ranks
  <2>3. Dispatched(stage)
    BY <2>2, Ranks DEF Dispatched
  <2>4. got["task"].value = sent["task"].message /\ Get(sent["task"].message, 2) = BuildPing
    BY <1>1, <2>3, GotIs DEF FlowInv, InTask, IsTask
  <2>5. BuildPing.unknown # <<>>
    BY <1>1, Pings DEF FlowInv, FlowTypes
  <2>6. QED
    BY <2>4, <2>5
<1>2. ASSUME FlowInv, "relayed" \in DOMAIN got, NEW k \in 1 .. Len(replies)
      PROVE  LET ping == Get(Get(got["relayed"].value, 3)[k], 1) IN
             /\ newer = "PingResult" => ping.unknown # <<>>
             /\ newer = "PingPayload" => Get(ping, 4).unknown # <<>>
  <2>1. PICK p : p = sent[PayloadName(replies[k].ping)].message
    OBVIOUS
  <2>2. PICK shown : shown = Get(got["relayed"].value, 3)[k]
    OBVIOUS
  <2>3. Shows(got["relayed"].value, sent, replies, newer)
    BY <1>2, RelayedShows
  <2>4. IsResult(shown, replies[k], p, newer)
    BY <2>1, <2>2, <2>3 DEF Shows
  <2>5. newer = "PingPayload" => p.unknown # <<>>
    BY <1>2, <2>1, RepliesAre DEF IsPayload
  <2>6. QED
    BY <2>2, <2>4, <2>5 DEF IsResult
<1>3. FlowInv => NewFieldsSurvive
  BY <1>1, <1>2 DEF NewFieldsSurvive
<1>4. QED
  BY <1>3, FlowInvHolds, PTL
=============================================================================
