---------------------------- MODULE Measurement ----------------------------
(***************************************************************************)
(* A measurement from the cli's call to its last line of output: cli       *)
(* programs, the server, the client that pings and the clients at which    *)
(* the replies arrive, with the time that their sleeps measure.            *)
(*                                                                         *)
(* The streams and threads of one program are the subject of TaskDispatch, *)
(* ResultFeed, PingOutbound and PingInbound.  Here each of them is one or  *)
(* two steps, and the question is how the programs fit together: a client  *)
(* transmits what it has received once per Round, the pinging client waits *)
(* for Wait before it declares its task finished, and the cli subscribes   *)
(* to a task that is already running.                                      *)
(*                                                                         *)
(* A task is named by the cli that scheduled it, a reply by its task and   *)
(* the address that sent it.                                               *)
(***************************************************************************)
EXTENDS Naturals, FiniteSets

CONSTANTS
  Clis,      \* cli programs, each of which schedules one task
  Clients,   \* connected clients
  Pinger,    \* the client that the cli programs name
  Targets,   \* the addresses to ping
  Round,     \* sleep of the transmitter thread (5 s)
  Wait,      \* sleep of a ping thread after its last packet (10 s)
  Delay      \* the most that waking up and transmitting add to a Round

ASSUME MeasurementAssumption ==
  /\ Pinger \in Clients
  /\ Round \in Nat \ {0} /\ Wait \in Nat \ {0} /\ Delay \in Nat
  /\ Round + 2 * Delay < Wait

VARIABLES
  cli,       \* progress of each cli program
  task,      \* progress of its task
  unpinged,  \* targets the task has not pinged yet
  remaining, \* what is left of the task's Wait
  lag,       \* time since the task was accepted, while its cli has not subscribed
  poisoned,  \* the pinging client's outbound_mutex is poisoned
  flying,    \* replies on the network
  alive,     \* the client is running
  inbox,     \* result_queue of the client
  batch,     \* what its transmitter is sending
  mode,      \* whether its transmitter is asleep or sending
  timer,     \* what is left of its sleep
  late,      \* time since the sleep was over, until everything is sent
  listed,    \* subscription_list: the tasks with a subscriber
  feed,      \* messages on their way to the cli
  printed,   \* replies the cli has printed
  owed       \* history: replies that the cli must have printed when it ends

cliVars == <<cli, lag, printed>>
taskVars == <<task, unpinged, remaining, poisoned>>
clientVars == <<alive, inbox, batch, mode, timer, late>>
serverVars == <<listed, feed>>
vars == <<cliVars, taskVars, clientVars, serverVars, flying, owed>>

Replies == Clis \X Targets
OfTask(k, replies) == {r \in replies : r[1] = k}

Underway == {"queued", "pinging", "waiting"}
TaskStates == Underway \cup {"none", "finished", "failed", "lost"}
CliStates == {"idle", "calling", "accepted", "subscribed",
              "ended", "refused", "panicked", "cut", "gone"}

Init ==
  /\ cli = [k \in Clis |-> "idle"]
  /\ task = [k \in Clis |-> "none"]
  /\ unpinged = [k \in Clis |-> Targets]
  /\ remaining = [k \in Clis |-> Wait]
  /\ lag = [k \in Clis |-> 0]
  /\ poisoned = FALSE
  /\ flying = {}
  /\ alive \in [Clients -> BOOLEAN]
  /\ inbox = [c \in Clients |-> {}]
  /\ batch = [c \in Clients |-> {}]
  /\ mode = [c \in Clients |-> "asleep"]
  /\ timer \in [Clients -> 0 .. Round]
  /\ \A c \in Clients : alive[c] <=> timer[c] # 0
  /\ late = [c \in Clients |-> 0]
  /\ listed = {}
  /\ feed = [k \in Clis |-> {}]
  /\ printed = [k \in Clis |-> {}]
  /\ owed = {}

-----------------------------------------------------------------------------
(***************************************************************************)
(* do_task, seen from the cli and from the server.                         *)
(***************************************************************************)
CallDoTask(k) ==
  /\ cli[k] = "idle"
  /\ cli' = [cli EXCEPT ![k] = "calling"]
  /\ UNCHANGED <<lag, printed, taskVars, clientVars, serverVars, flying, owed>>

(* The server sends the task on the stream of the pinging client, which may  *)
(* have left and still be registered.  The cli may have gone already.        *)
AcceptTask(k) ==
  /\ cli[k] \in {"calling", "panicked", "gone"}
  /\ task[k] = "none"
  /\ task' = [task EXCEPT ![k] = IF alive[Pinger] THEN "queued" ELSE "lost"]
  /\ UNCHANGED <<cliVars, unpinged, remaining, poisoned, clientVars, serverVars, flying,
                 owed>>

(* The acknowledgement says success. *)
Acknowledged(k) ==
  /\ cli[k] = "calling"
  /\ task[k] # "none"
  /\ cli' = [cli EXCEPT ![k] = "accepted"]
  /\ UNCHANGED <<lag, printed, taskVars, clientVars, serverVars, flying, owed>>

(* The acknowledgement says that the client does not exist: the cli prints   *)
(* the message and ends.                                                     *)
Refused(k) ==
  /\ cli[k] = "calling"
  /\ task[k] = "none"
  /\ cli' = [cli EXCEPT ![k] = "refused"]
  /\ lag' = [lag EXCEPT ![k] = 0]
  /\ UNCHANGED <<printed, taskVars, clientVars, serverVars, flying, owed>>

(* The call itself fails, whether or not it has reached the server: there is *)
(* no message to print, and the cli panics.                                  *)
DoTaskFails(k) ==
  /\ cli[k] = "calling"
  /\ cli' = [cli EXCEPT ![k] = "panicked"]
  /\ lag' = [lag EXCEPT ![k] = 0]
  /\ UNCHANGED <<printed, taskVars, clientVars, serverVars, flying, owed>>

-----------------------------------------------------------------------------
(***************************************************************************)
(* The result stream.  subscribe_result registers the cli even when the    *)
(* task is finished, and then nobody ends its stream.                      *)
(***************************************************************************)
Subscribe(k) ==
  /\ cli[k] = "accepted"
  /\ cli' = [cli EXCEPT ![k] = "subscribed"]
  /\ listed' = listed \cup {k}
  /\ lag' = [lag EXCEPT ![k] = 0]
  /\ UNCHANGED <<printed, taskVars, clientVars, feed, flying, owed>>

PrintResults(k) ==
  /\ cli[k] = "subscribed"
  /\ \E message \in feed[k] :
       /\ feed' = [feed EXCEPT ![k] = @ \ {message}]
       /\ printed' = [printed EXCEPT ![k] = @ \cup message]
  /\ UNCHANGED <<cli, lag, taskVars, clientVars, listed, flying, owed>>

(* A faulty variant: what is on its way at the end is discarded. *)
EndAtOnce(k) ==
  /\ cli[k] = "subscribed"
  /\ k \notin listed
  /\ cli' = [cli EXCEPT ![k] = "ended"]
  /\ feed' = [feed EXCEPT ![k] = {}]
  /\ UNCHANGED <<lag, printed, taskVars, clientVars, listed, flying, owed>>

(* The stream ends when no sender is left and everything is delivered. *)
End(k) ==
  /\ cli[k] = "subscribed"
  /\ k \notin listed
  /\ feed[k] = {}
  /\ cli' = [cli EXCEPT ![k] = "ended"]
  /\ UNCHANGED <<lag, printed, taskVars, clientVars, serverVars, flying, owed>>

(* The stream fails: the cli says so and ends. *)
StreamFails(k) ==
  /\ cli[k] = "subscribed"
  /\ cli' = [cli EXCEPT ![k] = "cut"]
  /\ feed' = [feed EXCEPT ![k] = {}]
  /\ UNCHANGED <<lag, printed, taskVars, clientVars, listed, flying, owed>>

CliKilled(k) ==
  /\ cli[k] \in {"calling", "accepted", "subscribed"}
  /\ cli' = [cli EXCEPT ![k] = "gone"]
  /\ feed' = [feed EXCEPT ![k] = {}]
  /\ lag' = [lag EXCEPT ![k] = 0]
  /\ UNCHANGED <<printed, taskVars, clientVars, listed, flying, owed>>

-----------------------------------------------------------------------------
(***************************************************************************)
(* The ping threads of the pinging client: one pings at a time.            *)
(***************************************************************************)
MutexIsFree == \A k \in Clis : task[k] # "pinging"

StartPing(k) ==
  /\ task[k] = "queued"
  /\ MutexIsFree /\ ~ poisoned
  /\ task' = [task EXCEPT ![k] = "pinging"]
  /\ UNCHANGED <<cliVars, unpinged, remaining, poisoned, clientVars, serverVars, flying,
                 owed>>

(* The source address cannot be bound, or an earlier thread has panicked. *)
PingPanics(k) ==
  /\ task[k] = "queued"
  /\ MutexIsFree
  /\ task' = [task EXCEPT ![k] = "failed"]
  /\ poisoned' = TRUE
  /\ UNCHANGED <<cliVars, unpinged, remaining, clientVars, serverVars, flying, owed>>

(* One reply at most; it may never arrive. *)
PingTarget(k, a) ==
  /\ task[k] = "pinging"
  /\ a \in unpinged[k]
  /\ unpinged' = [unpinged EXCEPT ![k] = @ \ {a}]
  /\ flying' = flying \cup {<<k, a>>}
  /\ UNCHANGED <<cliVars, task, remaining, poisoned, clientVars, serverVars, owed>>

StartWait(k) ==
  /\ task[k] = "pinging"
  /\ unpinged[k] = {}
  /\ task' = [task EXCEPT ![k] = "waiting"]
  /\ UNCHANGED <<cliVars, unpinged, remaining, poisoned, clientVars, serverVars, flying,
                 owed>>

(* A faulty variant: the server is notified without waiting. *)
FinishAtOnce(k) ==
  /\ task[k] = "waiting"
  /\ task' = [task EXCEPT ![k] = "finished"]
  /\ listed' = listed \ {k}
  /\ UNCHANGED <<cliVars, unpinged, remaining, poisoned, clientVars, feed, flying, owed>>

(* A faulty variant: the subscribers stay in the list. *)
FinishUnlisted(k) ==
  /\ task[k] = "waiting"
  /\ remaining[k] = 0
  /\ task' = [task EXCEPT ![k] = "finished"]
  /\ UNCHANGED <<cliVars, unpinged, remaining, poisoned, clientVars, serverVars, flying,
                 owed>>

(* task_finished: the server disconnects the subscribers. *)
TaskFinished(k) ==
  /\ task[k] = "waiting"
  /\ remaining[k] = 0
  /\ task' = [task EXCEPT ![k] = "finished"]
  /\ listed' = listed \ {k}
  /\ UNCHANGED <<cliVars, unpinged, remaining, poisoned, clientVars, feed, flying, owed>>

(* The call fails, and the thread panics; the mutex is free by now. *)
TaskFinishedFails(k) ==
  /\ task[k] = "waiting"
  /\ remaining[k] = 0
  /\ task' = [task EXCEPT ![k] = "failed"]
  /\ UNCHANGED <<cliVars, unpinged, remaining, poisoned, clientVars, serverVars, flying,
                 owed>>

-----------------------------------------------------------------------------
(***************************************************************************)
(* Replies reach whichever client the anycast routes them to.              *)
(***************************************************************************)
(* The longest a reply stays at a client: it arrives when a round has just   *)
(* begun, and is sent at the end of the next.                                *)
OnTime(k) ==
  \/ task[k] = "pinging"
  \/ task[k] = "waiting" /\ remaining[k] > Round + 2 * Delay

ReplyArrives(c, r) ==
  /\ alive[c]
  /\ r \in flying
  /\ flying' = flying \ {r}
  /\ inbox' = [inbox EXCEPT ![c] = @ \cup {r}]
  /\ owed' = IF OnTime(r[1]) THEN owed \cup {r} ELSE owed
  /\ UNCHANGED <<cliVars, taskVars, alive, batch, mode, timer, late, serverVars>>

(* A faulty variant: the transmitter does not sleep. *)
BeginRoundEarly(c) ==
  /\ alive[c]
  /\ mode[c] = "asleep"
  /\ mode' = [mode EXCEPT ![c] = "sending"]
  /\ batch' = [batch EXCEPT ![c] = inbox[c]]
  /\ inbox' = [inbox EXCEPT ![c] = {}]
  /\ UNCHANGED <<cliVars, taskVars, alive, timer, late, serverVars, flying, owed>>

(* The transmitter swaps the queue for an empty one. *)
BeginRound(c) ==
  /\ alive[c]
  /\ mode[c] = "asleep" /\ timer[c] = 0
  /\ mode' = [mode EXCEPT ![c] = "sending"]
  /\ batch' = [batch EXCEPT ![c] = inbox[c]]
  /\ inbox' = [inbox EXCEPT ![c] = {}]
  /\ UNCHANGED <<cliVars, taskVars, alive, timer, late, serverVars, flying, owed>>

(* send_result passes the results of one task on to its subscriber; without  *)
(* a subscriber they are dropped, and owed nevertheless if its task is over. *)
SendResult(c, k) ==
  LET message == OfTask(k, batch[c]) IN
  /\ mode[c] = "sending"
  /\ message # {}
  /\ batch' = [batch EXCEPT ![c] = @ \ message]
  /\ feed' = IF k \in listed /\ cli[k] = "subscribed"
             THEN [feed EXCEPT ![k] = @ \cup {message}] ELSE feed
  /\ owed' = IF k \in listed \/ task[k] = "finished" THEN owed ELSE owed \ message
  /\ UNCHANGED <<cliVars, taskVars, alive, inbox, mode, timer, late, listed, flying>>

(* A failed call is logged, and its results are dropped. *)
SendResultFails(c, k) ==
  LET message == OfTask(k, batch[c]) IN
  /\ mode[c] = "sending"
  /\ message # {}
  /\ batch' = [batch EXCEPT ![c] = @ \ message]
  /\ owed' = owed \ message
  /\ UNCHANGED <<cliVars, taskVars, alive, inbox, mode, timer, late, serverVars, flying>>

EndRound(c) ==
  /\ mode[c] = "sending" /\ batch[c] = {}
  /\ mode' = [mode EXCEPT ![c] = "asleep"]
  /\ timer' = [timer EXCEPT ![c] = Round]
  /\ late' = [late EXCEPT ![c] = 0]
  /\ UNCHANGED <<cliVars, taskVars, alive, inbox, batch, serverVars, flying, owed>>

(* The client process ends; what it has not sent is lost, and if it is the   *)
(* one that pings, so are its tasks: the ping threads are detached.          *)
ClientKilled(c) ==
  /\ alive[c]
  /\ alive' = [alive EXCEPT ![c] = FALSE]
  /\ inbox' = [inbox EXCEPT ![c] = {}]
  /\ batch' = [batch EXCEPT ![c] = {}]
  /\ mode' = [mode EXCEPT ![c] = "asleep"]
  /\ timer' = [timer EXCEPT ![c] = 0]
  /\ late' = [late EXCEPT ![c] = 0]
  /\ owed' = owed \ (inbox[c] \cup batch[c])
  /\ task' = [k \in Clis |->
                IF c = Pinger /\ task[k] \in Underway THEN "lost" ELSE task[k]]
  /\ UNCHANGED <<cliVars, unpinged, remaining, poisoned, serverVars, flying>>

-----------------------------------------------------------------------------
(***************************************************************************)
(* Time.  A sleep lasts at least as long as it says; after the sleep of a  *)
(* transmitter, all is sent within Delay.                                  *)
(***************************************************************************)
Less(n) == IF n = 0 THEN 0 ELSE n - 1

Tick ==
  /\ \A c \in Clients : alive[c] /\ timer[c] = 0 => late[c] < Delay
  /\ timer' = [c \in Clients |-> Less(timer[c])]
  /\ late' = [c \in Clients |-> IF alive[c] /\ timer[c] = 0 THEN late[c] + 1 ELSE late[c]]
  /\ remaining' = [k \in Clis |-> IF task[k] = "waiting" THEN Less(remaining[k])
                                                         ELSE remaining[k]]
  /\ lag' = [k \in Clis |-> IF /\ cli[k] \in {"calling", "accepted"}
                               /\ task[k] # "none"
                               /\ lag[k] < Wait
                            THEN lag[k] + 1 ELSE lag[k]]
  /\ UNCHANGED <<cli, printed, task, unpinged, poisoned, alive, inbox, batch, mode,
                 serverVars, flying, owed>>

-----------------------------------------------------------------------------
CliNext(k) ==
  \/ CallDoTask(k) \/ AcceptTask(k) \/ Acknowledged(k) \/ Refused(k) \/ DoTaskFails(k)
  \/ Subscribe(k) \/ PrintResults(k) \/ End(k) \/ StreamFails(k) \/ CliKilled(k)

PingNext(k) ==
  \/ StartPing(k) \/ PingPanics(k) \/ StartWait(k)
  \/ TaskFinished(k) \/ TaskFinishedFails(k)
  \/ \E a \in Targets : PingTarget(k, a)

ClientNext(c) ==
  \/ \E r \in flying : ReplyArrives(c, r)
  \/ BeginRound(c) \/ EndRound(c) \/ ClientKilled(c)
  \/ \E k \in Clis : SendResult(c, k) \/ SendResultFails(c, k)

Next ==
  \/ \E k \in Clis : CliNext(k) \/ PingNext(k)
  \/ \E c \in Clients : ClientNext(c)
  \/ Tick

Spec == Init /\ [][Next]_vars

(* Fairness: threads run, calls that the server accepts are acknowledged or  *)
(* fail, clocks advance.  Nothing forces a user, the network or a failure.   *)
Fairness ==
  /\ WF_vars(Tick)
  /\ \A k \in Clis :
       /\ WF_vars(Acknowledged(k) \/ DoTaskFails(k)) /\ WF_vars(Subscribe(k))
       /\ WF_vars(PrintResults(k)) /\ WF_vars(End(k))
       /\ WF_vars(StartPing(k) \/ PingPanics(k))
       /\ WF_vars(\E a \in Targets : PingTarget(k, a))
       /\ WF_vars(StartWait(k)) /\ WF_vars(TaskFinished(k) \/ TaskFinishedFails(k))
  /\ \A c \in Clients :
       /\ WF_vars(BeginRound(c)) /\ WF_vars(EndRound(c))
       /\ WF_vars(\E k \in Clis : SendResult(c, k) \/ SendResultFails(c, k))

FairSpec == Spec /\ Fairness

-----------------------------------------------------------------------------
(***************************************************************************)
(* Safety.                                                                 *)
(***************************************************************************)

(* Every variable has its type; a sleeping transmitter has nothing in hand,  *)
(* and a transmitter keeps within its sleep and its delay.                   *)
TypeOK ==
  /\ cli \in [Clis -> CliStates]
  /\ task \in [Clis -> TaskStates]
  /\ unpinged \in [Clis -> SUBSET Targets]
  /\ remaining \in [Clis -> 0 .. Wait]
  /\ lag \in [Clis -> 0 .. Wait]
  /\ poisoned \in BOOLEAN
  /\ flying \subseteq Replies
  /\ alive \in [Clients -> BOOLEAN]
  /\ inbox \in [Clients -> SUBSET Replies]
  /\ batch \in [Clients -> SUBSET Replies]
  /\ mode \in [Clients -> {"asleep", "sending"}]
  /\ timer \in [Clients -> 0 .. Round]
  /\ late \in [Clients -> 0 .. Delay]
  /\ listed \subseteq Clis
  /\ feed \in [Clis -> SUBSET (SUBSET Replies)]
  /\ printed \in [Clis -> SUBSET Replies]
  /\ owed \subseteq Replies
  /\ \A c \in Clients : mode[c] = "asleep" => batch[c] = {}
  /\ \A c \in Clients : mode[c] = "sending" => alive[c] /\ timer[c] = 0

(* When a cli's stream ends without an error, its own task is finished, and  *)
(* it has printed every reply that arrived early enough in the task's ten    *)
(* seconds, at whichever client, and that was neither sent before the cli    *)
(* subscribed nor lost with a failed call or a client.                       *)
EndedMeansComplete ==
  \A k \in Clis : cli[k] = "ended" =>
    task[k] = "finished" /\ OfTask(k, owed) \subseteq printed[k]

(* The cli subscribes to a task that is already running.  If it does so      *)
(* within the wait, it cannot be too late to be told of the end.             *)
PromptCliIsNotTooLate ==
  \A k \in Clis :
    cli[k] \in {"calling", "accepted"} /\ task[k] = "finished" => lag[k] >= Wait

-----------------------------------------------------------------------------
(***************************************************************************)
(* Liveness.                                                               *)
(***************************************************************************)

(* A cli that has subscribed before the end of its task comes to an end,     *)
(* unless the ping thread has panicked or its client is gone.                *)
SubscribedCliEnds ==
  \A k \in Clis :
    cli[k] = "subscribed" /\ task[k] \in Underway
      ~> cli[k] \in {"ended", "cut", "gone"} \/ task[k] \in {"failed", "lost"}
=============================================================================
