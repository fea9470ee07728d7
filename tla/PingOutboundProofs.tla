-------------------------- MODULE PingOutboundProofs --------------------------
(***************************************************************************)
(* Theorems about PingOutbound, for every set of tasks, every number of    *)
(* addresses and every channel.                                            *)
(***************************************************************************)
EXTENDS PingOutbound, SequenceTheorems, FiniteSetTheorems, TLAPS

LEMMA UnparkType ==
  ASSUME NEW p \in Seq(Tasks)
  PROVE  Channel!UnparkOne(p) \in Seq(Tasks)
BY DEF Channel!UnparkOne

LEMMA ParkType ==
  ASSUME NEW ch, NEW p \in Seq(Tasks), NEW t \in Tasks
  PROVE  Channel!ParkIfFull(ch, p, t) \in Seq(Tasks)
BY DEF Channel!ParkIfFull

(* The elements of a nonempty sequence after its head is taken. *)
LEMMA TailElements ==
  \A q \in Seq(Tasks) : q # <<>> =>
    /\ Head(q) = q[1] /\ Head(q) \in Tasks
    /\ Tail(q) \in Seq(Tasks)
    /\ Len(q) \in Nat \ {0}
    /\ Len(Tail(q)) = Len(q) - 1
    /\ \A i \in 1 .. Len(Tail(q)) : Tail(q)[i] = q[i + 1]
BY HeadTailProperties, EmptySeq, LenProperties, ElementOfSeq

LEMMA AppendElements ==
  \A q \in Seq(Tasks), t \in Tasks :
    /\ Append(q, t) \in Seq(Tasks)
    /\ Len(q) \in Nat
    /\ Len(Append(q, t)) = Len(q) + 1
    /\ \A i \in 1 .. Len(q) : Append(q, t)[i] = q[i]
    /\ Append(q, t)[Len(q) + 1] = t
BY AppendProperties, LenProperties

-----------------------------------------------------------------------------
(***************************************************************************)
(* The invariant, in parts.                                                *)
(***************************************************************************)

(* The channel holds each task that waits for its thread, once. *)
ChannelHoldsQueued ==
  /\ \A i \in 1 .. Len(chan) : thread[chan[i]] = "queued"
  /\ \A i, j \in 1 .. Len(chan) : chan[i] = chan[j] => i = j
  /\ \A t \in Tasks : thread[t] = "queued" => \E i \in 1 .. Len(chan) : chan[i] = t

(* The end of the stream, of the handler and of the main thread follow each  *)
(* other.                                                                    *)
EndsInOrder ==
  /\ finished <=> stream \in {"ended", "panicked"}
  /\ shutdown => finished
  /\ handler = "exited" => shutdown /\ chan = <<>>
  /\ main = "connecting" => stream = "none"
  /\ main \in {"connecting", "starting", "waiting"} => ~ shutdown
  /\ main = "waiting" => handler = "running"
  /\ NoUnwrapPanics

(* A thread that pings holds the mutex. *)
PingerHoldsMutex ==
  \A t \in Tasks : thread[t] \in {"locked", "pinging"} => guard = t

(* Only a task that has pinged, or is pinging, has packets on the wire; the  *)
(* last packet is that of the task that is pinging, once it has sent one.    *)
WireMatchesThreads ==
  /\ \A i \in 1 .. Len(wire) :
       thread[wire[i]] \in {"pinging", "sleeping", "done", "unnotified"}
  /\ \A i \in 1 .. Len(wire) :
       thread[wire[i]] = "pinging" => wire[Len(wire)] = wire[i]

PacketsOf(t) == {i \in 1 .. Len(wire) : wire[i] = t}

(* Packets are counted, and a task sleeps when it has sent them all. *)
PacketsAreCounted ==
  \A t \in Tasks :
    /\ IsFiniteSet(PacketsOf(t)) /\ Cardinality(PacketsOf(t)) = sent[t]
    /\ thread[t] \in {"sleeping", "done", "unnotified"} => sent[t] = Destinations[t]
    /\ t \in notified => thread[t] = "done"

IInv ==
  TypeOK /\ ChannelHoldsQueued /\ EndsInOrder /\ PingerHoldsMutex
  /\ WireMatchesThreads /\ PacketsAreCounted /\ PingsDoNotMix

-----------------------------------------------------------------------------
LEMMA InitInv == Init => IInv
<1> SUFFICES ASSUME Init PROVE IInv
  OBVIOUS
<1>1. TypeOK
  <2>1. thread \in [Tasks -> ThreadStates] /\ sent \in [Tasks -> Nat]
    BY DEF Init, ThreadStates
  <2>2. <<>> \in Seq(Tasks)
    BY EmptySeq
  <2>3. /\ main = "connecting" /\ stream = "none" /\ finished = FALSE
        /\ callback = NoTask /\ chan = <<>> /\ parked = <<>> /\ handler = "new"
        /\ shutdown = FALSE /\ guard = NoTask /\ poisoned = FALSE
        /\ notified = {} /\ wire = <<>>
    BY DEF Init
  <2>4. QED
    BY <2>1, <2>2, <2>3 DEF TypeOK
<1>2. ChannelHoldsQueued /\ EndsInOrder /\ PingerHoldsMutex
  BY DEF Init, ChannelHoldsQueued, EndsInOrder, PingerHoldsMutex, NoUnwrapPanics
<1>3. wire = <<>> /\ Len(wire) = 0 /\ sent = [t \in Tasks |-> 0] /\ notified = {}
  BY DEF Init
<1>4. \A t \in Tasks : PacketsOf(t) = {}
  BY <1>3 DEF PacketsOf
<1>5. PacketsAreCounted
  BY <1>3, <1>4, FS_EmptySet DEF Init, PacketsAreCounted
<1>6. WireMatchesThreads /\ PingsDoNotMix
  BY <1>3 DEF WireMatchesThreads, PingsDoNotMix
<1>7. QED
  BY <1>1, <1>2, <1>5, <1>6 DEF IInv

(* Steps of the main thread and of the stream that start no thread and send  *)
(* nothing on the channel.                                                   *)
LEMMA ThreadsUnchanged ==
  ASSUME IInv, TypeOK', EndsInOrder', UNCHANGED <<chan, thread, pingVars>>
  PROVE  IInv'
BY DEF IInv, ChannelHoldsQueued, PingerHoldsMutex, WireMatchesThreads,
       PacketsAreCounted, PacketsOf, PingsDoNotMix, pingVars, mutexVars

(* A step of thread t from a state in which it has left the channel. *)
LEMMA ThreadMoves ==
  ASSUME IInv, NEW t \in Tasks, NEW from, NEW to, ThreadGoes(t, from, to),
         from # "queued", to # "queued", UNCHANGED <<chan, mainVars, streamVars, handler>>
  PROVE  ChannelHoldsQueued' /\ EndsInOrder'
<1> USE DEF IInv, ThreadGoes, TypeOK, mainVars, streamVars
<1>1. EndsInOrder'
  BY DEF EndsInOrder, NoUnwrapPanics
<1>2. \A i \in 1 .. Len(chan) : chan[i] \in Tasks
  BY ElementOfSeq
<1>3. \A u \in Tasks : thread'[u] = "queued" <=> thread[u] = "queued"
  OBVIOUS
<1>4. ChannelHoldsQueued'
  BY <1>2, <1>3 DEF ChannelHoldsQueued
<1>5. QED
  BY <1>1, <1>4

(* A step of thread t that sends no packet and stops no thread's pinging but *)
(* its own.                                                                  *)
LEMMA WireUnchanged ==
  ASSUME IInv, NEW t \in Tasks, NEW from, NEW to, ThreadGoes(t, from, to),
         UNCHANGED <<wire, sent>>,
         from \in {"pinging", "sleeping"} =>
           to \in {"pinging", "sleeping", "done", "unnotified"},
         from \notin {"done", "unnotified"},
         to = "pinging" => from \in {"locked", "pinging"},
         to \in {"sleeping", "done", "unnotified"} => sent[t] = Destinations[t],
         notified' = IF to = "done" THEN notified \cup {t} ELSE notified
  PROVE  WireMatchesThreads' /\ PacketsAreCounted' /\ PingsDoNotMix'
<1>1. \A i \in 1 .. Len(wire) : wire[i] \in Tasks
  BY ElementOfSeq DEF IInv, TypeOK
<1>2. \A u \in Tasks : u # t => thread'[u] = thread[u]
  BY DEF IInv, TypeOK, ThreadGoes
<1>3. thread'[t] = to /\ thread[t] = from
  BY DEF IInv, TypeOK, ThreadGoes
<1>4. WireMatchesThreads'
  BY <1>1, <1>2, <1>3 DEF IInv, WireMatchesThreads
<1>5. PacketsAreCounted'
  <2>1. \A u \in Tasks : PacketsOf(u)' = PacketsOf(u) /\ sent'[u] = sent[u]
    BY DEF PacketsOf
  <2>2. t \notin notified
    BY <1>3 DEF IInv, PacketsAreCounted
  <2>3. ASSUME NEW u \in Tasks
        PROVE  /\ thread'[u] \in {"sleeping", "done", "unnotified"} => sent[u] = Destinations[u]
               /\ u \in notified' => thread'[u] = "done"
    <3>1. CASE u = t
      BY <3>1, <2>2, <1>3
    <3>2. CASE u # t
      BY <3>2, <1>2 DEF IInv, PacketsAreCounted
    <3>3. QED
      BY <3>1, <3>2
  <2>4. QED
    BY <2>1, <2>3 DEF IInv, PacketsAreCounted
<1>6. PingsDoNotMix'
  BY DEF IInv, PingsDoNotMix
<1>7. QED
  BY <1>4, <1>5, <1>6

-----------------------------------------------------------------------------
LEMMA MainStepInv == IInv /\ MainStep => IInv'
<1> SUFFICES ASSUME IInv, MainStep PROVE IInv'
  OBVIOUS
<1> USE DEF MainStep, Connect, ConnectFails, StartHandlers, StopOutbound, JoinOutbound,
            MainExits, Killed, mainVars, queueVars, streamVars
<1>1. UNCHANGED <<chan, parked, thread, pingVars, callback, finished>>
  OBVIOUS
<1>2. EndsInOrder'
  <2> USE <1>1 DEF IInv, TypeOK, EndsInOrder, NoUnwrapPanics, Alive
  <2>1. CASE Connect
    BY <2>1
  <2>2. CASE ConnectFails
    BY <2>2
  <2>3. CASE StartHandlers
    BY <2>3
  <2>4. CASE StopOutbound
    BY <2>4
  <2>5. CASE JoinOutbound
    BY <2>5
  <2>6. CASE MainExits \/ Killed
    BY <2>6
  <2>7. QED
    BY <2>1, <2>2, <2>3, <2>4, <2>5, <2>6
<1>3. TypeOK'
  <2>1. /\ handler' \in {"new", "running", "exited"}
        /\ shutdown' \in BOOLEAN
        /\ stream' \in {"none", "open", "ended", "panicked"}
        /\ main' \in {"connecting", "starting", "waiting", "joining", "stopped", "exited",
                      "panicked"}
    BY DEF IInv, TypeOK
  <2>2. QED
    BY <1>1, <2>1 DEF IInv, TypeOK, pingVars, mutexVars
<1>4. QED
  BY <1>1, <1>2, <1>3, ThreadsUnchanged

-----------------------------------------------------------------------------
LEMMA CallbackReceivesInv == ASSUME IInv, NEW t \in Tasks, CallbackReceives(t) PROVE IInv'
<1> USE DEF IInv
<1>1. handler # "exited"
  BY DEF CallbackReceives, EndsInOrder
<1>2. /\ thread[t] = "unsent" /\ thread' = [thread EXCEPT ![t] = "queued"]
      /\ chan' = Append(chan, t) /\ callback' = t
      /\ parked' = Channel!ParkIfFull(chan, parked, t)
      /\ UNCHANGED <<stream, finished, main, shutdown, handler, pingVars>>
  BY <1>1 DEF CallbackReceives, ReceiverExists, Channel!Enqueue
<1>3. TypeOK'
  <2>1. chan' \in Seq(Tasks) /\ parked' \in Seq(Tasks)
    BY <1>2, AppendElements, ParkType DEF TypeOK
  <2>2. thread' \in [Tasks -> ThreadStates] /\ callback' \in Tasks \cup {NoTask}
    BY <1>2 DEF TypeOK, ThreadStates
  <2>3. guard # NoTask => thread'[guard] \in {"locked", "pinging"}
    BY <1>2 DEF TypeOK
  <2>4. QED
    BY <1>2, <2>1, <2>2, <2>3 DEF TypeOK, pingVars, mutexVars
<1>4. \A u \in Tasks : u # t => thread'[u] = thread[u]
  BY <1>2 DEF TypeOK
<1>5. thread'[t] = "queued"
  BY <1>2 DEF TypeOK, ThreadStates
<1>6. ChannelHoldsQueued'
  <2>1. /\ Len(chan) \in Nat /\ Len(chan') = Len(chan) + 1
        /\ \A i \in 1 .. Len(chan) : chan'[i] = chan[i] /\ chan[i] \in Tasks
        /\ chan'[Len(chan) + 1] = t
    BY <1>2, AppendElements, ElementOfSeq DEF TypeOK
  <2>2. \A i \in 1 .. Len(chan) : thread[chan[i]] = "queued" /\ chan[i] # t
    BY <1>2 DEF ChannelHoldsQueued
  <2>3. \A i \in 1 .. Len(chan') : thread'[chan'[i]] = "queued"
    BY <2>1, <2>2, <1>4, <1>5
  <2>4. \A i, j \in 1 .. Len(chan') : chan'[i] = chan'[j] => i = j
    BY <2>1, <2>2 DEF ChannelHoldsQueued
  <2>5. ASSUME NEW u \in Tasks, thread'[u] = "queued"
        PROVE  \E i \in 1 .. Len(chan') : chan'[i] = u
    <3>1. CASE u = t
      BY <3>1, <2>1
    <3>2. CASE u # t
      <4>1. PICK i \in 1 .. Len(chan) : chan[i] = u
        BY <3>2, <2>5, <1>4 DEF ChannelHoldsQueued
      <4>2. QED
        BY <4>1, <2>1
    <3>3. QED
      BY <3>1, <3>2
  <2>6. QED
    BY <2>3, <2>4, <2>5 DEF ChannelHoldsQueued
<1>7. EndsInOrder'
  BY <1>1, <1>2 DEF EndsInOrder, NoUnwrapPanics
<1>8. wire' = wire /\ sent' = sent /\ notified' = notified /\ guard' = guard
  BY <1>2 DEF pingVars, mutexVars
<1>9. PingerHoldsMutex' /\ PacketsAreCounted'
  BY <1>2, <1>4, <1>5, <1>8 DEF PingerHoldsMutex, PacketsAreCounted, PacketsOf
<1>10. WireMatchesThreads' /\ PingsDoNotMix'
  <2>1. \A i \in 1 .. Len(wire) : wire[i] \in Tasks /\ wire[i] # t
    BY <1>2, ElementOfSeq DEF TypeOK, WireMatchesThreads
  <2>2. QED
    BY <2>1, <1>4, <1>8 DEF WireMatchesThreads, PingsDoNotMix
<1>11. QED
  BY <1>3, <1>6, <1>7, <1>9, <1>10

LEMMA HandlerTakesInv == IInv /\ HandlerTakes => IInv'
<1> SUFFICES ASSUME IInv, HandlerTakes PROVE IInv'
  OBVIOUS
<1> USE DEF IInv
<1>1. PICK t \in Tasks : t = Head(chan)
  BY TailElements DEF HandlerTakes, TypeOK
<1>2. /\ chan # <<>> /\ chan' = Tail(chan)
      /\ parked' = Channel!UnparkOne(parked)
      /\ thread' = [thread EXCEPT ![t] = "started"]
      /\ handler = "running"
      /\ UNCHANGED <<main, finished, shutdown, stream, callback, handler, pingVars>>
  BY <1>1 DEF HandlerTakes, mainVars, streamVars
<1>3. /\ Len(chan) \in Nat \ {0} /\ Len(chan') = Len(chan) - 1
      /\ chan[1] = t /\ chan' \in Seq(Tasks)
      /\ \A i \in 1 .. Len(chan') : chan'[i] = chan[i + 1]
  BY <1>1, <1>2, TailElements DEF TypeOK
<1>4. thread[t] = "queued"
  BY <1>3 DEF ChannelHoldsQueued
<1>5. \A u \in Tasks : u # t => thread'[u] = thread[u]
  BY <1>2 DEF TypeOK
<1>6. thread'[t] = "started"
  BY <1>2 DEF TypeOK
<1>7. TypeOK'
  <2>1. parked' \in Seq(Tasks)
    BY <1>2, UnparkType DEF TypeOK
  <2>2. thread' \in [Tasks -> ThreadStates]
    BY <1>2 DEF TypeOK, ThreadStates
  <2>3. guard # NoTask => thread'[guard] \in {"locked", "pinging"}
    BY <1>4, <1>5 DEF TypeOK
  <2>4. QED
    BY <1>2, <1>3, <2>1, <2>2, <2>3 DEF TypeOK, pingVars, mutexVars
<1>8. ChannelHoldsQueued'
  <2>1. \A i \in 1 .. Len(chan') : i + 1 \in 1 .. Len(chan) /\ i + 1 # 1
    BY <1>3
  <2>2. \A i \in 1 .. Len(chan) : chan[i] \in Tasks
    BY ElementOfSeq DEF TypeOK
  <2>3. 1 \in 1 .. Len(chan)
    BY <1>3
  <2>4. \A i \in 1 .. Len(chan) : chan[i] = t => i = 1
    BY <1>3, <2>3 DEF ChannelHoldsQueued
  <2>5. ASSUME NEW i \in 1 .. Len(chan') PROVE thread'[chan'[i]] = "queued"
    <3>1. /\ i + 1 \in 1 .. Len(chan) /\ chan'[i] = chan[i + 1]
          /\ chan[i + 1] \in Tasks /\ chan[i + 1] # t
      BY <2>1, <2>2, <2>4, <1>3
    <3>2. QED
      BY <3>1, <1>5 DEF ChannelHoldsQueued
  <2>6. \A i, j \in 1 .. Len(chan') : chan'[i] = chan'[j] => i = j
    BY <2>1, <1>3 DEF ChannelHoldsQueued
  <2>7. ASSUME NEW u \in Tasks, thread'[u] = "queued"
        PROVE  \E i \in 1 .. Len(chan') : chan'[i] = u
    <3>1. u # t /\ thread[u] = "queued"
      BY <2>7, <1>5, <1>6
    <3>2. PICK i \in 1 .. Len(chan) : chan[i] = u
      BY <3>1 DEF ChannelHoldsQueued
    <3>3. i # 1
      BY <3>1, <3>2, <1>3
    <3>4. i - 1 \in 1 .. Len(chan') /\ (i - 1) + 1 = i
      BY <3>3, <1>3
    <3>5. QED
      BY <3>2, <3>4, <1>3
  <2>8. QED
    BY <2>5, <2>6, <2>7 DEF ChannelHoldsQueued
<1>9. EndsInOrder'
  BY <1>2 DEF EndsInOrder, NoUnwrapPanics
<1>10. wire' = wire /\ sent' = sent /\ notified' = notified /\ guard' = guard
  BY <1>2 DEF pingVars, mutexVars
<1>11. PingerHoldsMutex' /\ PacketsAreCounted'
  BY <1>4, <1>5, <1>6, <1>10 DEF PingerHoldsMutex, PacketsAreCounted, PacketsOf
<1>12. WireMatchesThreads' /\ PingsDoNotMix'
  <2>1. \A i \in 1 .. Len(wire) : wire[i] \in Tasks /\ wire[i] # t
    BY <1>4, ElementOfSeq DEF TypeOK, WireMatchesThreads
  <2>2. QED
    BY <2>1, <1>5, <1>10 DEF WireMatchesThreads, PingsDoNotMix
<1>13. QED
  BY <1>7, <1>8, <1>9, <1>11, <1>12

LEMMA OtherStreamAndHandlerSteps ==
  IInv /\ (CallbackReturns \/ StreamEnds \/ HandlerExits \/ Exited \/ UNCHANGED vars) => IInv'
<1> SUFFICES ASSUME IInv,
                    CallbackReturns \/ StreamEnds \/ HandlerExits \/ Exited \/ UNCHANGED vars
             PROVE  IInv'
  OBVIOUS
<1> USE DEF CallbackReturns, StreamEnds, HandlerExits, Exited, vars, mainVars, streamVars,
            queueVars
<1>1. UNCHANGED <<main, shutdown, thread, pingVars, chan>>
  OBVIOUS
<1>2. EndsInOrder'
  <2> USE <1>1 DEF IInv, TypeOK, EndsInOrder, NoUnwrapPanics
  <2>1. CASE CallbackReturns
    BY <2>1
  <2>2. CASE StreamEnds
    BY <2>2
  <2>3. CASE HandlerExits
    BY <2>3
  <2>4. CASE UNCHANGED vars
    BY <2>4
  <2>5. QED
    BY <2>1, <2>2, <2>3, <2>4
<1>3. TypeOK'
  <2>1. /\ stream' \in {"none", "open", "ended", "panicked"}
        /\ finished' \in BOOLEAN
        /\ callback' \in Tasks \cup {NoTask}
        /\ handler' \in {"new", "running", "exited"}
    BY DEF IInv, TypeOK
  <2>2. parked' \in Seq(Tasks)
    BY EmptySeq DEF IInv, TypeOK
  <2>3. QED
    BY <1>1, <2>1, <2>2 DEF IInv, TypeOK, pingVars, mutexVars
<1>4. QED
  BY <1>1, <1>2, <1>3, ThreadsUnchanged

-----------------------------------------------------------------------------
(***************************************************************************)
(* The ping thread of t.                                                   *)
(***************************************************************************)
ThreadTypes ==
  /\ thread' \in [Tasks -> ThreadStates]
  /\ guard' \in Tasks \cup {NoTask}
  /\ guard' # NoTask => thread'[guard'] \in {"locked", "pinging"}
  /\ notified' \in SUBSET Tasks
  /\ poisoned' \in BOOLEAN

(* The steps of a thread other than those that send packets. *)
LEMMA QuietStepInv ==
  ASSUME IInv, NEW t \in Tasks,
         \/ Lock(t) \/ LockFails(t) \/ Bind(t) \/ BindFails(t)
         \/ PingDone(t) \/ Notify(t) \/ NotifyFails(t)
  PROVE  IInv'
<1> USE DEF mainVars, streamVars, queueVars, pingVars, mutexVars
<1>1. UNCHANGED <<chan, parked, mainVars, streamVars, handler, wire, sent>>
  BY DEF Lock, LockFails, Bind, BindFails, PingDone, Notify, NotifyFails
<1>2. /\ WireMatchesThreads' /\ PacketsAreCounted' /\ PingsDoNotMix'
      /\ ChannelHoldsQueued' /\ EndsInOrder'
  <2>1. CASE Lock(t)
    BY <2>1, <1>1, WireUnchanged, ThreadMoves DEF Lock
  <2>2. CASE LockFails(t)
    BY <2>2, <1>1, WireUnchanged, ThreadMoves DEF LockFails
  <2>3. CASE Bind(t)
    BY <2>3, <1>1, WireUnchanged, ThreadMoves DEF Bind
  <2>4. CASE BindFails(t)
    BY <2>4, <1>1, WireUnchanged, ThreadMoves DEF BindFails
  <2>5. CASE PingDone(t)
    BY <2>5, <1>1, WireUnchanged, ThreadMoves DEF PingDone
  <2>6. CASE Notify(t)
    <3>1. sent[t] = Destinations[t]
      BY <2>6 DEF Notify, ThreadGoes, IInv, PacketsAreCounted
    <3>2. QED
      BY <2>6, <1>1, <3>1, WireUnchanged, ThreadMoves DEF Notify
  <2>7. CASE NotifyFails(t)
    <3>1. sent[t] = Destinations[t]
      BY <2>7 DEF NotifyFails, ThreadGoes, IInv, PacketsAreCounted
    <3>2. QED
      BY <2>7, <1>1, <3>1, WireUnchanged, ThreadMoves DEF NotifyFails
  <2>8. QED
    BY <2>1, <2>2, <2>3, <2>4, <2>5, <2>6, <2>7
<1>3. ThreadTypes /\ PingerHoldsMutex'
  <2> USE DEF ThreadGoes, IInv, TypeOK, ThreadStates, PingerHoldsMutex, ThreadTypes
  <2>0. NoTask \notin Tasks
    BY ConstantsAssumption
  <2>1. CASE Lock(t)
    BY <2>0, <2>1 DEF Lock
  <2>2. CASE LockFails(t)
    BY <2>0, <2>2 DEF LockFails
  <2>3. CASE Bind(t)
    BY <2>0, <2>3 DEF Bind
  <2>4. CASE BindFails(t)
    BY <2>0, <2>4 DEF BindFails
  <2>5. CASE PingDone(t)
    BY <2>0, <2>5 DEF PingDone
  <2>6. CASE Notify(t)
    BY <2>0, <2>6 DEF Notify
  <2>7. CASE NotifyFails(t)
    BY <2>0, <2>7 DEF NotifyFails
  <2>8. QED
    BY <2>1, <2>2, <2>3, <2>4, <2>5, <2>6, <2>7
<1>4. TypeOK'
  BY <1>1, <1>3 DEF IInv, TypeOK, ThreadTypes
<1>5. QED
  BY <1>2, <1>3, <1>4 DEF IInv

LEMMA SendPacketInv == ASSUME IInv, NEW t \in Tasks, SendPacket(t) PROVE IInv'
<1> USE DEF IInv
<1>1. /\ thread[t] = "pinging" /\ thread' = thread
      /\ sent' = [sent EXCEPT ![t] = sent[t] + 1]
      /\ wire' = Append(wire, t)
      /\ UNCHANGED <<mainVars, streamVars, queueVars, handler, guard, poisoned, notified>>
  BY DEF SendPacket, ThreadGoes, TypeOK, mutexVars
<1>2. /\ Len(wire) \in Nat /\ Len(wire') = Len(wire) + 1
      /\ wire' \in Seq(Tasks)
      /\ \A i \in 1 .. Len(wire) : wire'[i] = wire[i] /\ wire[i] \in Tasks
      /\ wire'[Len(wire) + 1] = t
  BY <1>1, AppendElements, ElementOfSeq DEF TypeOK
<1>3. TypeOK'
  <2>1. sent' \in [Tasks -> Nat]
    BY <1>1 DEF TypeOK
  <2>2. QED
    BY <1>1, <1>2, <2>1 DEF TypeOK, mainVars, streamVars, queueVars
<1>4. ChannelHoldsQueued' /\ EndsInOrder' /\ PingerHoldsMutex'
  BY <1>1 DEF ChannelHoldsQueued, EndsInOrder, NoUnwrapPanics, PingerHoldsMutex,
              mainVars, streamVars, queueVars
<1>5. \A u \in Tasks : thread[u] = "pinging" => u = t
  BY <1>1 DEF PingerHoldsMutex
<1>6. WireMatchesThreads'
  BY <1>1, <1>2, <1>5 DEF WireMatchesThreads
<1>7. PingsDoNotMix'
  <2> SUFFICES ASSUME NEW i \in 1 .. Len(wire'), NEW k \in 1 .. Len(wire'),
                      i < k, wire'[i] = wire'[k],
                      NEW j \in i .. k
               PROVE  wire'[j] = wire'[i]
    BY DEF PingsDoNotMix
  <2>1. CASE k \in 1 .. Len(wire)
    <3>1. i \in 1 .. Len(wire) /\ j \in 1 .. Len(wire)
      BY <2>1, <1>2
    <3>2. QED
      BY <2>1, <3>1, <1>2 DEF PingsDoNotMix
  <2>2. CASE k = Len(wire) + 1
    <3>1. i \in 1 .. Len(wire) /\ wire[i] = t
      BY <2>2, <1>2
    <3>2. wire[Len(wire)] = t
      BY <3>1, <1>1 DEF WireMatchesThreads
    <3>3. \A n \in i .. Len(wire) : wire[n] = t
      BY <3>1, <3>2, <1>2 DEF PingsDoNotMix
    <3>4. QED
      BY <2>2, <3>1, <3>3, <1>2
  <2>3. QED
    BY <2>1, <2>2, <1>2
<1>8. PacketsAreCounted'
  <2>1. PacketsOf(t)' = PacketsOf(t) \cup {Len(wire) + 1} /\ Len(wire) + 1 \notin PacketsOf(t)
    BY <1>2 DEF PacketsOf
  <2>2. \A u \in Tasks : u # t => PacketsOf(u)' = PacketsOf(u)
    BY <1>2 DEF PacketsOf
  <2>3. IsFiniteSet(PacketsOf(t)') /\ Cardinality(PacketsOf(t)') = sent[t] + 1
    BY <2>1, FS_AddElement DEF PacketsAreCounted
  <2>4. sent'[t] = sent[t] + 1 /\ \A u \in Tasks : u # t => sent'[u] = sent[u]
    BY <1>1 DEF TypeOK
  <2>5. QED
    BY <1>1, <2>2, <2>3, <2>4 DEF PacketsAreCounted
<1>9. QED
  BY <1>3, <1>4, <1>6, <1>7, <1>8

-----------------------------------------------------------------------------
LEMMA NextInv == IInv /\ [Next]_vars => IInv'
<1> SUFFICES ASSUME IInv, [Next]_vars PROVE IInv'
  OBVIOUS
<1>1. CASE MainStep
  BY <1>1, MainStepInv
<1>2. CASE \E t \in Tasks : CallbackReceives(t)
  BY <1>2, CallbackReceivesInv
<1>3. CASE HandlerTakes
  BY <1>3, HandlerTakesInv
<1>4. CASE CallbackReturns \/ StreamEnds \/ HandlerExits \/ Exited \/ UNCHANGED vars
  BY <1>4, OtherStreamAndHandlerSteps
<1>5. CASE \E t \in Tasks : ThreadStep(t)
  BY <1>5, QuietStepInv, SendPacketInv DEF ThreadStep
<1>6. QED
  BY <1>1, <1>2, <1>3, <1>4, <1>5 DEF Next, StreamStep

(* The invariant holds in every behaviour of a client. *)
THEOREM Invariance == Spec => []IInv
BY InitInv, NextInv, PTL DEF Spec

(* Every variable has its type, and whoever holds the mutex is pinging: the  *)
(* mutex is released on every way out of a ping, panics included.            *)
THEOREM TypeCorrect == Spec => []TypeOK
<1>1. IInv => TypeOK
  BY DEF IInv
<1>2. QED
  BY <1>1, Invariance, PTL

(* Lines 179-180: packets of different tasks are never mixed.                *)
THEOREM OnePingAtATime == Spec => []PingsDoNotMix
<1>1. IInv => PingsDoNotMix
  BY DEF IInv
<1>2. QED
  BY <1>1, Invariance, PTL

(* Line 192: the server is told that a task is finished only when each of    *)
(* its addresses has been pinged.                                            *)
THEOREM ServerIsToldTheTruth == Spec => []FinishedMeansPinged
<1>1. IInv => FinishedMeansPinged
  <2> SUFFICES ASSUME IInv, NEW t \in notified
               PROVE  Cardinality(PacketsOf(t)) = Destinations[t]
    BY DEF FinishedMeansPinged, PacketsOf
  <2>1. t \in Tasks
    BY DEF IInv, TypeOK
  <2>2. QED
    BY <2>1 DEF IInv, PacketsAreCounted
<1>2. QED
  BY <1>1, Invariance, PTL

(* Lines 67-77: select looks at the channel before the shutdown signal, so   *)
(* every task that was received has got its thread when the handler exits.   *)
THEOREM ReceivedTasksStart == Spec => []NoTaskLeftBehind
<1>1. IInv => NoTaskLeftBehind
  BY EmptySeq DEF IInv, EndsInOrder, ChannelHoldsQueued, NoTaskLeftBehind
<1>2. QED
  BY <1>1, Invariance, PTL

(* client/mod.rs line 121 and ping_outbound.rs line 81: the unwraps of the   *)
(* callback and of exit never panic.                                         *)
THEOREM UnwrapsSucceed == Spec => []NoUnwrapPanics
<1>1. IInv => NoUnwrapPanics
  BY DEF IInv, EndsInOrder
<1>2. QED
  BY <1>1, Invariance, PTL
=============================================================================
