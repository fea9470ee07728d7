----------------------------- MODULE PingOutbound -----------------------------
(***************************************************************************)
(* How a client executes its tasks (src/client/mod.rs and                  *)
(* src/client/handlers/ping_outbound.rs): the callback on the task stream, *)
(* which puts each ping task on a channel; the handler thread, which takes *)
(* tasks off the channel and starts a thread for each; the ping threads,   *)
(* which share a mutex; and the main thread, which stops the handler when  *)
(* the stream ends.  Ping threads are detached: they die with the process. *)
(*                                                                         *)
(* Keepalive tasks are left out: the callback ignores them.  Time is       *)
(* abstracted to order.                                                    *)
(***************************************************************************)
EXTENDS Naturals, FiniteSets, SequencesExt

CONSTANTS
  Tasks,          \* the ping tasks that the server may send
  Destinations,   \* Destinations[t]: the number of addresses t pings
  TaskBuffer,     \* the argument of channel(..) in PingOutbound::new: 10
  NoTask          \* the absence of a task

ASSUME ConstantsAssumption ==
  /\ Destinations \in [Tasks -> Nat]
  /\ TaskBuffer \in Nat \ {0}
  /\ NoTask \notin Tasks

VARIABLES
  main,       \* how far Client::start has got
  stream,     \* the task stream's future: none, open, ended or panicked
  finished,   \* whether the oneshot finish_tx is sent or dropped
  callback,   \* the task that the stream's callback is sending
  chan,       \* the channel to the handler, oldest task first
  parked,     \* the senders parked on it, named by their tasks
  handler,    \* the handler thread: new, running or exited
  shutdown,   \* whether the oneshot shutdown_tx is sent
  thread,     \* thread[t]: what has become of task t
  guard,      \* the task whose thread holds outbound_mutex
  poisoned,   \* whether outbound_mutex is poisoned
  sent,       \* sent[t]: the number of addresses t has pinged
  notified,   \* the tasks that the server was told are finished
  wire        \* history: the task of each packet, in the order of sending

mainVars   == <<main, finished, shutdown>>
streamVars == <<stream, callback>>
queueVars  == <<chan, parked>>
mutexVars  == <<guard, poisoned>>
pingVars   == <<mutexVars, sent, notified, wire>>
vars == <<mainVars, streamVars, queueVars, handler, thread, pingVars>>

Channel == INSTANCE BoundedChannel WITH Buffer <- TaskBuffer

Alive == main \notin {"exited", "panicked"}

-----------------------------------------------------------------------------
(***************************************************************************)
(* Client::start, up to the point where it waits for the stream to end.    *)
(***************************************************************************)

(* The stream's future is spawned before the handlers are started. *)
Connect ==
  /\ main = "connecting"
  /\ main' = "starting"
  /\ stream' = "open"
  /\ UNCHANGED <<finished, shutdown, callback, queueVars, handler, thread, pingVars>>

ConnectFails ==
  /\ main = "connecting"
  /\ main' = "exited"
  /\ UNCHANGED <<finished, shutdown, streamVars, queueVars, handler, thread, pingVars>>

StartHandlers ==
  /\ main = "starting"
  /\ main' = "waiting"
  /\ handler' = "running"
  /\ UNCHANGED <<finished, shutdown, streamVars, queueVars, thread, pingVars>>

-----------------------------------------------------------------------------
(***************************************************************************)
(* The task stream.  Its callback handles one task at a time, and waits    *)
(* for the channel while the handler lags behind.                          *)
(***************************************************************************)

(* The receiver is kept in PingOutbound until the handler thread takes it,   *)
(* and dropped with the handler's future.                                    *)
ReceiverExists == handler # "exited"

CallbackReceives(t) ==
  /\ Alive /\ stream = "open" /\ callback = NoTask
  /\ thread[t] = "unsent"
  /\ IF ReceiverExists
       THEN /\ callback' = t
            /\ chan' = Channel!Enqueue(chan, t)
            /\ parked' = Channel!ParkIfFull(chan, parked, t)
            /\ thread' = [thread EXCEPT ![t] = "queued"]
            /\ UNCHANGED <<stream, finished>>
       ELSE /\ stream' = "panicked"       \* wait().unwrap()
            /\ finished' = TRUE           \* finish_tx is dropped
            /\ UNCHANGED <<callback, queueVars, thread>>
  /\ UNCHANGED <<main, shutdown, handler, pingVars>>

CallbackReturns ==
  /\ Alive /\ callback # NoTask
  /\ ~ Channel!IsParked(parked, callback)
  /\ callback' = NoTask
  /\ UNCHANGED <<mainVars, stream, queueVars, handler, thread, pingVars>>

(* The server completes the stream, or the connection breaks. *)
StreamEnds ==
  /\ Alive /\ stream = "open" /\ callback = NoTask
  /\ stream' = "ended"
  /\ finished' = TRUE
  /\ UNCHANGED <<main, shutdown, callback, queueVars, handler, thread, pingVars>>

-----------------------------------------------------------------------------
(***************************************************************************)
(* The handler thread: for_each over the channel, selected with the        *)
(* shutdown signal.                                                        *)
(***************************************************************************)

HandlerTakes ==
  /\ Alive /\ handler = "running"
  /\ chan # <<>>
  /\ chan' = Tail(chan)
  /\ parked' = Channel!UnparkOne(parked)
  /\ thread' = [thread EXCEPT ![Head(chan)] = "started"]
  /\ UNCHANGED <<mainVars, streamVars, handler, pingVars>>

(* A faulty variant: the signal is looked at before the channel. *)
HandlerExitsAtOnce ==
  /\ Alive /\ handler = "running"
  /\ shutdown
  /\ handler' = "exited"
  /\ chan' = <<>> /\ parked' = <<>>
  /\ UNCHANGED <<mainVars, streamVars, thread, pingVars>>

(* select polls the channel first: the signal counts when it is empty. *)
HandlerExits ==
  /\ Alive /\ handler = "running"
  /\ shutdown
  /\ chan = <<>>
  /\ handler' = "exited"
  /\ parked' = <<>>
  /\ UNCHANGED <<mainVars, streamVars, chan, thread, pingVars>>

-----------------------------------------------------------------------------
(***************************************************************************)
(* The ping thread of t.                                                   *)
(***************************************************************************)

ThreadGoes(t, from, to) ==
  /\ Alive
  /\ thread[t] = from
  /\ thread' = [thread EXCEPT ![t] = to]

Lock(t) ==
  /\ ThreadGoes(t, "started", "locked")
  /\ guard = NoTask /\ ~ poisoned
  /\ guard' = t
  /\ UNCHANGED <<mainVars, streamVars, queueVars, handler, poisoned, sent, notified, wire>>

(* lock().unwrap() panics on a poisoned mutex. *)
LockFails(t) ==
  /\ ThreadGoes(t, "started", "poisoned")
  /\ guard = NoTask /\ poisoned
  /\ UNCHANGED <<mainVars, streamVars, queueVars, handler, pingVars>>

(* A faulty variant: the mutex is held for the set-up of the ping only. *)
BindThenUnlock(t) ==
  /\ ThreadGoes(t, "locked", "pinging")
  /\ guard' = NoTask
  /\ UNCHANGED <<mainVars, streamVars, queueVars, handler, poisoned, sent, notified, wire>>

Bind(t) ==
  /\ ThreadGoes(t, "locked", "pinging")
  /\ UNCHANGED <<mainVars, streamVars, queueVars, handler, pingVars>>

(* A faulty variant: the mutex stays locked when the thread panics. *)
BindFailsLocked(t) ==
  /\ ThreadGoes(t, "locked", "failed")
  /\ poisoned' = TRUE
  /\ UNCHANGED <<mainVars, streamVars, queueVars, handler, guard, sent, notified, wire>>

(* The source address is not one of this machine's: unwrap panics while the  *)
(* mutex is held.                                                            *)
BindFails(t) ==
  /\ ThreadGoes(t, "locked", "failed")
  /\ guard' = NoTask
  /\ poisoned' = TRUE
  /\ UNCHANGED <<mainVars, streamVars, queueVars, handler, sent, notified, wire>>

(* One address; an error of send_to is counted and nothing else. *)
SendPacket(t) ==
  /\ ThreadGoes(t, "pinging", "pinging")
  /\ sent[t] < Destinations[t]
  /\ sent' = [sent EXCEPT ![t] = @ + 1]
  /\ wire' = Append(wire, t)
  /\ UNCHANGED <<mainVars, streamVars, queueVars, handler, mutexVars, notified>>

PingDone(t) ==
  /\ ThreadGoes(t, "pinging", "sleeping")
  /\ sent[t] = Destinations[t]
  /\ guard' = NoTask
  /\ UNCHANGED <<mainVars, streamVars, queueVars, handler, poisoned, sent, notified, wire>>

(* A faulty variant: the server is notified from a destructor, also when the *)
(* ping has failed.                                                          *)
NotifyAlways(t) ==
  /\ Alive
  /\ thread[t] \in {"sleeping", "failed"}
  /\ thread' = [thread EXCEPT ![t] = "done"]
  /\ notified' = notified \cup {t}
  /\ UNCHANGED <<mainVars, streamVars, queueVars, handler, mutexVars, sent, wire>>

(* After ten seconds: task_finished. *)
Notify(t) ==
  /\ ThreadGoes(t, "sleeping", "done")
  /\ notified' = notified \cup {t}
  /\ UNCHANGED <<mainVars, streamVars, queueVars, handler, mutexVars, sent, wire>>

(* The call fails and expect panics; the mutex is no longer held. *)
NotifyFails(t) ==
  /\ ThreadGoes(t, "sleeping", "unnotified")
  /\ UNCHANGED <<mainVars, streamVars, queueVars, handler, pingVars>>

-----------------------------------------------------------------------------
(***************************************************************************)
(* The end of Client::start.  The inbound handler is stopped before or     *)
(* after this one; MainExits stands for that and for the process's end.    *)
(***************************************************************************)

(* A faulty variant: the shutdown signal is not sent. *)
StopSilently ==
  /\ main = "waiting" /\ finished
  /\ main' = "joining"
  /\ UNCHANGED <<finished, shutdown, streamVars, queueVars, handler, thread, pingVars>>

(* A faulty variant: the handlers are stopped while the stream goes on. *)
StopAnytime ==
  /\ main = "waiting"
  /\ main' = "joining"
  /\ shutdown' = TRUE
  /\ UNCHANGED <<finished, streamVars, queueVars, handler, thread, pingVars>>

(* send(()).unwrap() panics when the handler thread has dropped its end. *)
StopOutbound ==
  /\ main = "waiting" /\ finished
  /\ IF handler = "running"
       THEN main' = "joining" /\ shutdown' = TRUE
       ELSE main' = "panicked" /\ UNCHANGED shutdown
  /\ UNCHANGED <<finished, streamVars, queueVars, handler, thread, pingVars>>

JoinOutbound ==
  /\ main = "joining" /\ handler = "exited"
  /\ main' = "stopped"
  /\ UNCHANGED <<finished, shutdown, streamVars, queueVars, handler, thread, pingVars>>

MainExits ==
  /\ main = "stopped"
  /\ main' = "exited"
  /\ UNCHANGED <<finished, shutdown, streamVars, queueVars, handler, thread, pingVars>>

(* The process is killed, at any moment. *)
Killed ==
  /\ Alive
  /\ main' = "exited"
  /\ UNCHANGED <<finished, shutdown, streamVars, queueVars, handler, thread, pingVars>>

-----------------------------------------------------------------------------
Init ==
  /\ main = "connecting"
  /\ stream = "none"
  /\ finished = FALSE
  /\ callback = NoTask
  /\ chan = <<>> /\ parked = <<>>
  /\ handler = "new"
  /\ shutdown = FALSE
  /\ thread = [t \in Tasks |-> "unsent"]
  /\ guard = NoTask
  /\ poisoned = FALSE
  /\ sent = [t \in Tasks |-> 0]
  /\ notified = {}
  /\ wire = <<>>

MainStep ==
  \/ Connect
  \/ ConnectFails
  \/ StartHandlers
  \/ StopOutbound
  \/ JoinOutbound
  \/ MainExits
  \/ Killed

StreamStep ==
  \/ \E t \in Tasks : CallbackReceives(t)
  \/ CallbackReturns
  \/ StreamEnds

ThreadStep(t) ==
  \/ Lock(t)
  \/ LockFails(t)
  \/ Bind(t)
  \/ BindFails(t)
  \/ SendPacket(t)
  \/ PingDone(t)
  \/ Notify(t)
  \/ NotifyFails(t)

Exited == ~ Alive /\ UNCHANGED vars

Next ==
  \/ MainStep
  \/ StreamStep
  \/ HandlerTakes
  \/ HandlerExits
  \/ \E t \in Tasks : ThreadStep(t)
  \/ Exited

Spec == Init /\ [][Next]_vars

(***************************************************************************)
(* Fairness: the operating system runs every thread, and the tokio runtime *)
(* the stream's future.  A call of task_finished returns or fails.  The    *)
(* mutex need not be fair, since there are finitely many tasks.  Nobody is *)
(* bound to send tasks, to end the stream or to kill the process.          *)
(***************************************************************************)
Fairness ==
  /\ WF_vars(StartHandlers)
  /\ WF_vars(CallbackReturns)
  /\ WF_vars(HandlerTakes)
  /\ WF_vars(HandlerExits)
  /\ WF_vars(StopOutbound)
  /\ WF_vars(JoinOutbound)
  /\ WF_vars(MainExits)
  /\ \A t \in Tasks :
       /\ WF_vars(Lock(t) \/ LockFails(t))
       /\ WF_vars(Bind(t) \/ BindFails(t))
       /\ WF_vars(SendPacket(t) \/ PingDone(t))
       /\ WF_vars(Notify(t) \/ NotifyFails(t))

FairSpec == Spec /\ Fairness

-----------------------------------------------------------------------------
ThreadStates ==
  {"unsent", "queued", "started", "locked", "pinging", "sleeping", "done",
   "failed", "poisoned", "unnotified"}

(* Every variable has its type, and the mutex is held by a thread that lives. *)
TypeOK ==
  /\ main \in {"connecting", "starting", "waiting", "joining", "stopped", "exited",
               "panicked"}
  /\ stream \in {"none", "open", "ended", "panicked"}
  /\ finished \in BOOLEAN
  /\ callback \in Tasks \cup {NoTask}
  /\ chan \in Seq(Tasks)
  /\ parked \in Seq(Tasks)
  /\ handler \in {"new", "running", "exited"}
  /\ shutdown \in BOOLEAN
  /\ thread \in [Tasks -> ThreadStates]
  /\ guard \in Tasks \cup {NoTask}
  /\ poisoned \in BOOLEAN
  /\ sent \in [Tasks -> Nat]
  /\ notified \in SUBSET Tasks
  /\ wire \in Seq(Tasks)
  /\ guard # NoTask => thread[guard] \in {"locked", "pinging"}

-----------------------------------------------------------------------------
(***************************************************************************)
(* Safety.                                                                 *)
(***************************************************************************)

(* Lines 179-180: only one outbound ping goes on at a time.  Seen from the   *)
(* network, the packets of a task are not mixed with those of another, also  *)
(* when threads panic between them.                                          *)
PingsDoNotMix ==
  \A i, k \in 1 .. Len(wire) :
    i < k /\ wire[i] = wire[k] => \A j \in i .. k : wire[j] = wire[i]

(* Line 192: the server is told that a task is finished after the task's     *)
(* last address has been pinged, and never when its ping has failed.         *)
FinishedMeansPinged ==
  \A t \in notified :
    Cardinality({i \in 1 .. Len(wire) : wire[i] = t}) = Destinations[t]

(* A task that was received gets its thread even when the stream ends right  *)
(* after it: none is left in the channel when the handler exits.             *)
NoTaskLeftBehind ==
  handler = "exited" => \A t \in Tasks : thread[t] # "queued"

(* The unwraps of the callback (client/mod.rs 121) and of exit (81) never    *)
(* panic: the handler outlives the stream, and the main thread the handler.  *)
NoUnwrapPanics == stream # "panicked" /\ main # "panicked"

(***************************************************************************)
(* Liveness.                                                               *)
(***************************************************************************)

(* Every ping thread comes to an end: it notifies the server or panics.      *)
PingThreadsEnd ==
  \A t \in Tasks :
    thread[t] = "started"
      ~> thread[t] \in {"done", "failed", "poisoned", "unnotified"} \/ ~ Alive

(* When the stream ends the process does.                                    *)
ClientStops == stream = "ended" ~> main = "exited"

-----------------------------------------------------------------------------
(***************************************************************************)
(* What the documentation promises and the code does not.  README.md lines *)
(* 35-36: once a client is connected it is possible to schedule tasks on   *)
(* it.  After one task has failed, the mutex is poisoned and no task of    *)
(* this client is ever executed again, while it stays connected.           *)
(***************************************************************************)
ConnectedClientExecutesTasks ==
  \A t \in Tasks :
    thread[t] = "queued"
      ~> thread[t] \in {"sleeping", "failed"} \/ stream # "open" \/ ~ Alive
=============================================================================
