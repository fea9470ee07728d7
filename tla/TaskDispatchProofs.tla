------------------------- MODULE TaskDispatchProofs -------------------------
(***************************************************************************)
(* Theorems about TaskDispatch, for every set of streams and calls: the    *)
(* registry first, then what happens to the tasks, which is back pressure, *)
(* their order, that none is delivered twice and that acknowledgements are *)
(* true.                                                                   *)
(***************************************************************************)
EXTENDS TaskDispatch, SequenceFacts, FiniteSetTheorems, TLAPS

LEMMA IdsFacts ==
  /\ Ids \subseteq Nat
  /\ 0 \in Ids
  /\ \A n \in Ids : Increment(n) \in Ids
BY ConstantsAssumption DEF Ids, Increment

LEMMA MessageFacts ==
  /\ Keepalive \in Message
  /\ \A n \in Ids : Ping(n) \in Message
BY IdsFacts DEF Keepalive, Ping, Message

(* What a send and a receive do to the types of a channel. *)
LEMMA ParkType ==
  ASSUME NEW ch, NEW p \in Seq(Senders), NEW sender \in Senders
  PROVE  Channel!ParkIfFull(ch, p, sender) \in Seq(Senders)
BY DEF Channel!ParkIfFull

LEMMA UnparkType ==
  ASSUME NEW p \in Seq(Senders)
  PROVE  Channel!UnparkOne(p) \in Seq(Senders)
BY DEF Channel!UnparkOne

LEMMA SendType ==
  ASSUME TypeOK, NEW s \in Streams, NEW sender \in Senders, NEW m \in Message,
         SendOn(s, sender, m)
  PROVE  /\ chan' \in [Streams -> Seq(Message)]
         /\ parked' \in [Streams -> Seq(Senders)]
<1>1. Append(chan[s], m) \in Seq(Message)
  BY DEF TypeOK
<1>2. Channel!ParkIfFull(chan[s], parked[s], sender) \in Seq(Senders)
  BY ParkType DEF TypeOK
<1>3. QED
  BY <1>1, <1>2 DEF SendOn, TypeOK, Channel!Enqueue

(* A lookup returns registered streams only. *)
LEMMA LookupFindsStreams ==
  ASSUME TypeOK
  PROVE  /\ \A h \in Hostnames : ClientTxByHostname(h) \in SUBSET Streams
         /\ \A i \in Ids : ClientTxByIdx(i) \in SUBSET Streams
BY DEF TypeOK, ClientTxByHostname, ClientTxByIdx

LEMMA TypeInit == Init => TypeOK
BY IdsFacts, ConstantsAssumption DEF Init, TypeOK, Phases, CallStates, Acks

LEMMA TypeNext == TypeOK /\ [Next]_vars => TypeOK'
<1> SUFFICES ASSUME TypeOK, [Next]_vars PROVE TypeOK'
  OBVIOUS
<1> USE DEF registryVars, streamVars, transportVars, channelVars, callVars
<1>1. ASSUME NEW s \in Streams, ConnectGenerateId(s)
      PROVE  TypeOK'
  <2>1. connection_id' \in Ids
    BY <1>1, IdsFacts DEF TypeOK, ConnectGenerateId
  <2>2. QED
    BY <1>1, <2>1 DEF TypeOK, ConnectGenerateId, Phases
<1>2. ASSUME NEW s \in Streams, ConnectRegister(s) PROVE TypeOK'
  BY <1>2 DEF TypeOK, ConnectRegister, RegisterConnection, Phases
<1>3. ASSUME NEW s \in Streams, KeepaliveTick(s) PROVE TypeOK'
  <2>1. Timer \in Senders /\ Keepalive \in Message
    BY MessageFacts DEF Senders
  <2>2. CASE ReceiverExists(s)
    <3>1. SendOn(s, Timer, Keepalive) /\ UNCHANGED keepalive
      BY <1>3, <2>2 DEF KeepaliveTick
    <3>2. /\ chan' \in [Streams -> Seq(Message)]
          /\ parked' \in [Streams -> Seq(Senders)]
      BY <2>1, <3>1, SendType
    <3>3. QED
      BY <1>3, <3>1, <3>2 DEF TypeOK, KeepaliveTick
  <2>3. CASE ~ ReceiverExists(s)
    BY <1>3, <2>3 DEF TypeOK, KeepaliveTick
  <2>4. QED
    BY <2>2, <2>3
<1>4. ASSUME NEW s \in Streams, Forward(s) PROVE TypeOK'
  <2>1. Head(chan[s]) \in Message /\ Tail(chan[s]) \in Seq(Message)
    BY <1>4, HeadTailProperties DEF TypeOK, Forward
  <2>2. Append(sink[s], Head(chan[s])) \in Seq(Message)
    BY <2>1 DEF TypeOK
  <2>3. Channel!UnparkOne(parked[s]) \in Seq(Senders)
    BY UnparkType DEF TypeOK
  <2>4. QED
    BY <1>4, <2>1, <2>2, <2>3 DEF TypeOK, Forward
<1>5. ASSUME NEW s \in Streams, WriteReceived(s) PROVE TypeOK'
  <2>1. Head(sink[s]) \in Message /\ Tail(sink[s]) \in Seq(Message)
    BY <1>5, HeadTailProperties DEF TypeOK, WriteReceived
  <2>2. Append(received[s], Head(sink[s]).task_id) \in Seq(Ids)
    BY <2>1 DEF TypeOK, Message
  <2>3. received' \in [Streams -> Seq(Ids)]
    BY <1>5, <2>2 DEF TypeOK, WriteReceived
  <2>4. sink' \in [Streams -> Seq(Message)]
    BY <1>5, <2>1 DEF TypeOK, WriteReceived
  <2>5. QED
    BY <1>5, <2>3, <2>4 DEF TypeOK, WriteReceived
<1>6. ASSUME NEW s \in Streams, WriteCompletes(s) PROVE TypeOK'
  BY <1>6 DEF TypeOK, WriteCompletes
<1>7. ASSUME NEW s \in Streams, ForwarderFails(s) PROVE TypeOK'
  BY <1>7 DEF TypeOK, ForwarderFails, UnregisterConnection, Phases
<1>8. ASSUME NEW s \in Streams, DropReceiver(s) PROVE TypeOK'
  BY <1>8 DEF TypeOK, DropReceiver, Phases
<1>9. ASSUME NEW s \in Streams, PeerLeaves(s) PROVE TypeOK'
  BY <1>9 DEF TypeOK, PeerLeaves
<1>10. ASSUME NEW c \in Calls, DoTaskWithoutPing(c) PROVE TypeOK'
  BY <1>10 DEF TypeOK, DoTaskWithoutPing, Reply, Acks, CallStates
<1>11. ASSUME NEW c \in Calls, NEW found \in SUBSET Streams, DoTaskLookup(c, found)
       PROVE  TypeOK'
  <2>1. CASE found = {}
    BY <1>11, <2>1 DEF TypeOK, DoTaskLookup, Reply, Acks, CallStates
  <2>2. CASE found # {}
    <3>1. PICK s \in found : tx' = [tx EXCEPT ![c] = s]
      BY <1>11, <2>2 DEF DoTaskLookup
    <3>2. QED
      BY <1>11, <2>2, <3>1 DEF TypeOK, DoTaskLookup, CallStates
  <2>3. QED
    BY <2>1, <2>2
<1>12. ASSUME NEW c \in Calls, DoTaskObtainId(c) PROVE TypeOK'
  BY <1>12, IdsFacts DEF TypeOK, DoTaskObtainId, CallStates
<1>13. ASSUME NEW c \in Calls, DoTaskSend(c) PROVE TypeOK'
  <2>1. CASE ReceiverExists(tx[c])
    <3>1. c \in Senders /\ Ping(task_id[c]) \in Message
      BY MessageFacts DEF Senders, TypeOK
    <3>2. tx[c] \in Streams /\ SendOn(tx[c], c, Ping(task_id[c]))
      BY <1>13, <2>1 DEF TypeOK, DoTaskSend
    <3>3. /\ chan' \in [Streams -> Seq(Message)]
          /\ parked' \in [Streams -> Seq(Senders)]
      BY <3>1, <3>2, SendType
    <3>4. Append(queued[tx[c]], task_id[c]) \in Seq(Ids)
      BY <3>2 DEF TypeOK
    <3>5. QED
      BY <1>13, <2>1, <3>2, <3>3, <3>4 DEF TypeOK, DoTaskSend, CallStates
  <2>2. CASE ~ ReceiverExists(tx[c])
    BY <1>13, <2>2 DEF TypeOK, DoTaskSend, Reply, Acks, CallStates
  <2>3. QED
    BY <2>1, <2>2
<1>14. ASSUME NEW c \in Calls, DoTaskReply(c) PROVE TypeOK'
  BY <1>14 DEF TypeOK, DoTaskReply, Reply, Acks, CallStates
<1>15. CASE UNCHANGED vars
  BY <1>15 DEF TypeOK, vars
<1>16. QED
  BY <1>1, <1>2, <1>3, <1>4, <1>5, <1>6, <1>7, <1>8, <1>9, <1>10, <1>11,
     <1>12, <1>13, <1>14, <1>15, LookupFindsStreams
  DEF Next, StreamStep, CallStep, Quiescent, DoTaskByHostname, DoTaskByIndex

(* Every variable keeps its type and a handler past its lookup has a stream. *)
THEOREM TypeCorrect == Spec => []TypeOK
BY TypeInit, TypeNext, PTL DEF Spec

-----------------------------------------------------------------------------
(***************************************************************************)
(* The registry.  Without any assumption on the number of connects, an     *)
(* entry refers to a stream whose forwarder runs and that has this id:     *)
(* the failing forwarder removes the one entry that can refer to it before *)
(* its receiver is dropped.                                                *)
(***************************************************************************)
EntriesAreServing ==
  \A i \in Ids : connections[i] # NoStream =>
    phase[connections[i]] = "serving" /\ conn_id[connections[i]] = i

LEMMA EntriesInit == Init => EntriesAreServing
BY DEF Init, EntriesAreServing

LEMMA EntriesNext ==
  TypeOK /\ EntriesAreServing /\ [Next]_vars => EntriesAreServing'
<1> SUFFICES ASSUME TypeOK, EntriesAreServing, [Next]_vars
             PROVE  EntriesAreServing'
  OBVIOUS
<1> USE DEF EntriesAreServing, registryVars, streamVars, transportVars,
             channelVars, callVars
<1>1. ASSUME NEW s \in Streams, ConnectGenerateId(s)
      PROVE  EntriesAreServing'
  BY <1>1 DEF TypeOK, ConnectGenerateId
<1>2. ASSUME NEW s \in Streams, ConnectRegister(s) PROVE EntriesAreServing'
  BY <1>2, ConstantsAssumption DEF TypeOK, ConnectRegister, RegisterConnection
<1>3. ASSUME NEW s \in Streams, KeepaliveTick(s) PROVE EntriesAreServing'
  BY <1>3 DEF KeepaliveTick
<1>4. ASSUME NEW s \in Streams, Forward(s) \/ WriteReceived(s) \/ WriteCompletes(s)
      PROVE  EntriesAreServing'
  BY <1>4 DEF Forward, WriteReceived, WriteCompletes
<1>5. ASSUME NEW s \in Streams, ForwarderFails(s) PROVE EntriesAreServing'
  BY <1>5 DEF TypeOK, ForwarderFails, UnregisterConnection
<1>6. ASSUME NEW s \in Streams, DropReceiver(s) PROVE EntriesAreServing'
  BY <1>6 DEF TypeOK, DropReceiver
<1>7. ASSUME NEW s \in Streams, PeerLeaves(s) PROVE EntriesAreServing'
  BY <1>7 DEF PeerLeaves
<1>8. ASSUME NEW c \in Calls, CallStep(c) PROVE EntriesAreServing'
  BY <1>8 DEF CallStep, DoTaskWithoutPing, DoTaskByHostname, DoTaskByIndex,
              DoTaskLookup, DoTaskObtainId, DoTaskSend, DoTaskReply
<1>9. CASE UNCHANGED vars
  BY <1>9 DEF vars
<1>10. QED
  BY <1>1, <1>2, <1>3, <1>4, <1>5, <1>6, <1>7, <1>8, <1>9
  DEF Next, StreamStep, Quiescent

(* A lookup never returns a sender whose receiver is gone. *)
THEOREM RegistryIsOpen == Spec => []RegisteredChannelIsOpen
<1>1. EntriesAreServing => RegisteredChannelIsOpen
  BY DEF EntriesAreServing, RegisteredChannelIsOpen, ReceiverExists
<1>2. QED
  BY <1>1, EntriesInit, EntriesNext, TypeCorrect, PTL DEF Spec

-----------------------------------------------------------------------------
(***************************************************************************)
(* With fewer connects than a u32 has values, ids are unique, so that no   *)
(* registration replaces or removes another.                               *)
(***************************************************************************)
Started == {s \in Streams : phase[s] # "new"}

IdsAreUnique ==
  /\ connection_id = Cardinality(Started)
  /\ \A s \in Started : conn_id[s] <= connection_id
  /\ \A s, t \in Started : conn_id[s] = conn_id[t] => s = t

ServingIsRegistered ==
  \A s \in Streams : phase[s] = "serving" => connections[conn_id[s]] = s

LEMMA UniqueInit == Init => IdsAreUnique /\ ServingIsRegistered
<1> SUFFICES ASSUME Init PROVE IdsAreUnique /\ ServingIsRegistered
  OBVIOUS
<1>1. Started = {}
  BY DEF Init, Started
<1>2. QED
  BY <1>1, FS_EmptySet DEF Init, IdsAreUnique, ServingIsRegistered

(* A connect takes the next id, which no stream has. *)
LEMMA NewIdIsUnique ==
  ASSUME NoWrap, TypeOK, IdsAreUnique,
         NEW s \in Streams, ConnectGenerateId(s)
  PROVE  IdsAreUnique'
<1> DEFINE n == Cardinality(Started)
<1>1. /\ s \notin Started
      /\ Started' = Started \cup {s}
  BY DEF TypeOK, ConnectGenerateId, Started
<1>2. IsFiniteSet(Started) /\ n \in Nat
  BY FS_Subset, FS_CardinalityType DEF NoWrap, Started
<1>3. Cardinality(Started') = n + 1
  BY <1>1, <1>2, FS_AddElement
<1>4. n + 1 < IdSpace
  <2>1. Started' \subseteq Streams
    BY <1>1 DEF Started
  <2>2. Cardinality(Started') <= Cardinality(Streams)
    BY <2>1, FS_Subset DEF NoWrap
  <2>3. QED
    BY <2>2, <1>2, <1>3, FS_CardinalityType, ConstantsAssumption DEF NoWrap
<1>5. connection_id' = n + 1
  BY <1>2, <1>4, ConstantsAssumption
  DEF ConnectGenerateId, Increment, IdsAreUnique
<1>6. conn_id' = [conn_id EXCEPT ![s] = n + 1]
  BY <1>5 DEF ConnectGenerateId
<1>7. \A t \in Started : conn_id'[t] = conn_id[t] /\ conn_id[t] <= n
  BY <1>1, <1>6 DEF IdsAreUnique
<1>8. conn_id'[s] = n + 1
  BY <1>6 DEF TypeOK
<1>9. \A t \in Started : conn_id[t] \in Nat
  BY IdsFacts DEF TypeOK, Started
<1>10. QED
  BY <1>1, <1>2, <1>3, <1>5, <1>7, <1>8, <1>9 DEF IdsAreUnique

LEMMA UniqueNext ==
  ASSUME NoWrap, TypeOK, EntriesAreServing, IdsAreUnique, ServingIsRegistered,
         [Next]_vars
  PROVE  IdsAreUnique' /\ ServingIsRegistered'
<1> USE DEF registryVars, streamVars, transportVars, channelVars, callVars
<1>1. ASSUME NEW s \in Streams, ConnectGenerateId(s)
      PROVE  IdsAreUnique' /\ ServingIsRegistered'
  <2>1. ServingIsRegistered'
    BY <1>1 DEF TypeOK, ConnectGenerateId, ServingIsRegistered
  <2>2. QED
    BY <1>1, <2>1, NewIdIsUnique
<1>2. ASSUME NEW s \in Streams, phase[s] # "new", phase'[s] # "new",
             \A t \in Streams \ {s} : phase'[t] = phase[t],
             UNCHANGED <<connection_id, conn_id>>
      PROVE  IdsAreUnique'
  <2>1. Started' = Started
    BY <1>2 DEF Started
  <2>2. QED
    BY <1>2, <2>1 DEF IdsAreUnique
<1>3. ASSUME NEW s \in Streams, ConnectRegister(s)
      PROVE  IdsAreUnique' /\ ServingIsRegistered'
  <2>1. IdsAreUnique'
    BY <1>2, <1>3 DEF TypeOK, ConnectRegister
  <2>2. ServingIsRegistered'
    BY <1>3 DEF TypeOK, ConnectRegister, RegisterConnection, IdsAreUnique,
                Started, ServingIsRegistered
  <2>3. QED
    BY <2>1, <2>2
<1>4. ASSUME NEW s \in Streams, ForwarderFails(s)
      PROVE  IdsAreUnique' /\ ServingIsRegistered'
  <2>1. IdsAreUnique'
    BY <1>2, <1>4 DEF TypeOK, ForwarderFails
  <2>2. ServingIsRegistered'
    BY <1>4 DEF TypeOK, ForwarderFails, UnregisterConnection, IdsAreUnique,
                Started, ServingIsRegistered
  <2>3. QED
    BY <2>1, <2>2
<1>5. ASSUME NEW s \in Streams, DropReceiver(s)
      PROVE  IdsAreUnique' /\ ServingIsRegistered'
  <2>1. IdsAreUnique'
    BY <1>2, <1>5 DEF TypeOK, DropReceiver
  <2>2. ServingIsRegistered'
    BY <1>5 DEF TypeOK, DropReceiver, ServingIsRegistered
  <2>3. QED
    BY <2>1, <2>2
<1>6. CASE UNCHANGED <<registryVars, phase, conn_id>>
  BY <1>6 DEF IdsAreUnique, Started, ServingIsRegistered
<1>7. ASSUME NEW s \in Streams,
             KeepaliveTick(s) \/ Forward(s) \/ WriteReceived(s) \/ WriteCompletes(s)
               \/ PeerLeaves(s)
      PROVE  UNCHANGED <<registryVars, phase, conn_id>>
  BY <1>7 DEF KeepaliveTick, Forward, WriteReceived, WriteCompletes, PeerLeaves
<1>8. ASSUME NEW c \in Calls, CallStep(c)
      PROVE  UNCHANGED <<registryVars, phase, conn_id>>
  BY <1>8 DEF CallStep, DoTaskWithoutPing, DoTaskByHostname, DoTaskByIndex,
              DoTaskLookup, DoTaskObtainId, DoTaskSend, DoTaskReply
<1>9. CASE UNCHANGED vars
  BY <1>6, <1>9 DEF vars
<1>10. QED
  BY <1>1, <1>3, <1>4, <1>5, <1>6, <1>7, <1>8, <1>9
  DEF Next, StreamStep, Quiescent

(* The registry holds exactly the streams whose forwarder runs, each under   *)
(* its own id.                                                               *)
THEOREM RegistryIsExact ==
  ASSUME NoWrap PROVE Spec => []RegistryMatchesStreams
<1>1. TypeOK /\ EntriesAreServing /\ ServingIsRegistered => RegistryMatchesStreams
  BY ConstantsAssumption
  DEF TypeOK, EntriesAreServing, ServingIsRegistered, RegistryMatchesStreams
<1>2. TypeOK /\ EntriesAreServing /\ IdsAreUnique /\ ServingIsRegistered
        /\ [Next]_vars => IdsAreUnique' /\ ServingIsRegistered'
  BY UniqueNext
<1>3. QED
  BY <1>1, <1>2, UniqueInit, EntriesInit, EntriesNext, TypeCorrect, PTL DEF Spec

(* No step takes a registration from a stream but the failure of that        *)
(* stream's own forwarder.                                                   *)
THEOREM EntriesAreKept ==
  ASSUME NoWrap PROVE Spec => EntriesLeaveOnlyOnFailure
<1> DEFINE Kept == \A i \in Ids :
                     connections[i] # NoStream /\ connections'[i] # connections[i]
                       => phase'[connections[i]] = "failed"
<1>1. ASSUME TypeOK, EntriesAreServing, IdsAreUnique, [Next]_vars
      PROVE  Kept
  <2> SUFFICES ASSUME NEW i \in Ids, connections[i] # NoStream,
                      connections'[i] # connections[i]
               PROVE  phase'[connections[i]] = "failed"
    OBVIOUS
  <2> USE DEF registryVars, streamVars, transportVars, channelVars, callVars
  <2>1. ASSUME NEW s \in Streams, ConnectRegister(s) PROVE FALSE
    <3>1. conn_id[s] = i /\ phase[s] = "accepted"
      BY <1>1, <2>1 DEF TypeOK, ConnectRegister, RegisterConnection
    <3>2. /\ connections[i] \in Started /\ s \in Started
          /\ conn_id[connections[i]] = i /\ connections[i] # s
      BY <1>1, <3>1 DEF TypeOK, EntriesAreServing, Started
    <3>3. QED
      BY <1>1, <3>1, <3>2 DEF IdsAreUnique
  <2>2. ASSUME NEW s \in Streams, ForwarderFails(s)
        PROVE  phase'[connections[i]] = "failed"
    <3>1. conn_id[s] = i /\ phase[s] = "serving"
      BY <1>1, <2>2 DEF TypeOK, ForwarderFails, UnregisterConnection
    <3>2. /\ connections[i] \in Started /\ s \in Started
          /\ conn_id[connections[i]] = i
      BY <1>1, <3>1 DEF TypeOK, EntriesAreServing, Started
    <3>3. connections[i] = s
      BY <1>1, <3>1, <3>2 DEF IdsAreUnique
    <3>4. QED
      BY <1>1, <2>2, <3>3 DEF TypeOK, ForwarderFails
  <2>3. ASSUME NEW s \in Streams, StreamStep(s), ~ ConnectRegister(s),
               ~ ForwarderFails(s)
        PROVE  FALSE
    BY <1>1, <2>3 DEF StreamStep, ConnectGenerateId, KeepaliveTick, Forward,
                WriteReceived, WriteCompletes, DropReceiver, PeerLeaves
  <2>4. ASSUME NEW c \in Calls, CallStep(c) PROVE FALSE
    BY <1>1, <2>4 DEF CallStep, DoTaskWithoutPing, DoTaskByHostname, DoTaskByIndex,
                DoTaskLookup, DoTaskObtainId, DoTaskSend, DoTaskReply
  <2>5. CASE UNCHANGED vars
    BY <1>1, <2>5 DEF vars
  <2>6. QED
    BY <1>1, <2>1, <2>2, <2>3, <2>4, <2>5 DEF Next, Quiescent
<1>2. TypeOK /\ EntriesAreServing /\ IdsAreUnique /\ [Next]_vars => [Kept]_vars
  BY <1>1
<1>3. TypeOK /\ EntriesAreServing /\ IdsAreUnique /\ ServingIsRegistered
        /\ [Next]_vars => IdsAreUnique' /\ ServingIsRegistered'
  BY UniqueNext
<1>4. QED
  BY <1>2, <1>3, UniqueInit, EntriesInit, EntriesNext, TypeCorrect, PTL
  DEF Spec, EntriesLeaveOnlyOnFailure

-----------------------------------------------------------------------------
(***************************************************************************)
(* Back pressure.                                                          *)
(***************************************************************************)

(* A parked sender belongs to a call that waits on this channel. *)
ParkedAreSending ==
  \A s \in Streams : \A k \in 1 .. Len(parked[s]) :
    parked[s][k] # Timer => pc[parked[s][k]] = "sending" /\ tx[parked[s][k]] = s

(* The steps of the streams leave the calls alone, and the other way round. *)
LEMMA StreamFrame ==
  ASSUME NEW s \in Streams, StreamStep(s)
  PROVE  UNCHANGED callVars
BY DEF StreamStep, ConnectGenerateId, ConnectRegister, KeepaliveTick, Forward,
       WriteReceived, WriteCompletes, ForwarderFails, DropReceiver, PeerLeaves

(* The backlog of one channel. *)
Matches(ch, p) ==
  /\ Len(p) = IF Len(ch) > TaskBuffer THEN Len(ch) - TaskBuffer ELSE 0
  /\ \A k \in 1 .. Len(p) : ch[TaskBuffer + k] = MessageOf(p[k])

LEMMA SendMatches ==
  ASSUME NEW ch \in Seq(Message), NEW p \in Seq(Senders), Matches(ch, p),
         NEW sender \in Senders, MessageOf(sender) \in Message
  PROVE  Matches(Append(ch, MessageOf(sender)), Channel!ParkIfFull(ch, p, sender))
<1> DEFINE m == MessageOf(sender)
           ch2 == Append(ch, m)
           p2 == Append(p, sender)
<1>1. /\ Len(ch) \in Nat /\ Len(p) \in Nat /\ TaskBuffer \in Nat \ {0}
      /\ Len(ch2) = Len(ch) + 1 /\ (\A i \in 1 .. Len(ch) : ch2[i] = ch[i])
      /\ ch2[Len(ch) + 1] = m
      /\ Len(p2) = Len(p) + 1 /\ (\A i \in 1 .. Len(p) : p2[i] = p[i])
      /\ p2[Len(p) + 1] = sender
  BY AppendProperties, LenProperties, ConstantsAssumption
<1> HIDE DEF ch2, p2
<1>2. CASE Len(ch) + 1 > TaskBuffer
  <2>1. TaskBuffer + Len(p) = Len(ch)
    BY <1>1, <1>2 DEF Matches
  <2>2. ASSUME NEW k \in 1 .. Len(p2) PROVE ch2[TaskBuffer + k] = MessageOf(p2[k])
    <3>1. CASE k = Len(p) + 1
      BY <1>1, <2>1, <3>1
    <3>2. CASE k \in 1 .. Len(p)
      <4>1. TaskBuffer + k \in 1 .. Len(ch)
        BY <1>1, <2>1, <3>2
      <4>2. ch2[TaskBuffer + k] = ch[TaskBuffer + k] /\ p2[k] = p[k]
        BY <1>1, <3>2, <4>1
      <4>3. ch[TaskBuffer + k] = MessageOf(p[k])
        BY <3>2 DEF Matches
      <4>4. QED
        BY <4>2, <4>3
    <3>3. QED
      BY <1>1, <3>1, <3>2
  <2>3. Matches(ch2, p2)
    BY <1>1, <2>1, <2>2 DEF Matches
  <2>4. QED
    BY <1>2, <2>3 DEF Channel!ParkIfFull, ch2, p2
<1>3. CASE ~ (Len(ch) + 1 > TaskBuffer)
  <2>1. Matches(ch2, p)
    BY <1>1, <1>3 DEF Matches
  <2>2. QED
    BY <1>3, <2>1 DEF Channel!ParkIfFull, ch2
<1>4. QED
  BY <1>2, <1>3

LEMMA TakeMatches ==
  ASSUME NEW ch \in Seq(Message), NEW p \in Seq(Senders), Matches(ch, p), ch # <<>>
  PROVE  Matches(Tail(ch), Channel!UnparkOne(p))
<1>1. /\ Len(ch) \in Nat \ {0} /\ Len(p) \in Nat /\ TaskBuffer \in Nat \ {0}
      /\ Len(Tail(ch)) = Len(ch) - 1
      /\ \A i \in 1 .. Len(ch) - 1 : Tail(ch)[i] = ch[i + 1]
  BY TailFacts, LenProperties, ConstantsAssumption
<1>2. CASE p = <<>>
  <2>1. Len(p) = 0
    BY <1>2, EmptySeq
  <2>2. ~ (Len(ch) > TaskBuffer) /\ ~ (Len(Tail(ch)) > TaskBuffer)
    <3>1. Len(p) = IF Len(ch) > TaskBuffer THEN Len(ch) - TaskBuffer ELSE 0
      BY DEF Matches
    <3>2. Len(ch) \in Nat /\ TaskBuffer \in Nat /\ Len(Tail(ch)) = Len(ch) - 1
      BY <1>1
    <3>3. ~ (Len(ch) > TaskBuffer)
      <4>1. SUFFICES ASSUME Len(ch) > TaskBuffer PROVE FALSE
        OBVIOUS
      <4>2. Len(p) = Len(ch) - TaskBuffer
        BY <3>1, <4>1
      <4>3. Len(ch) - TaskBuffer > 0
        BY <3>2, <4>1
      <4>4. QED
        BY <4>2, <4>3, <2>1
    <3>4. QED
      BY <3>2, <3>3
  <2>3. Matches(Tail(ch), p)
    <3>1. \A k \in 1 .. Len(p) : FALSE
      BY <2>1
    <3>2. QED
      BY <2>1, <2>2, <3>1 DEF Matches
  <2>4. QED
    BY <1>2, <2>3 DEF Channel!UnparkOne
<1>3. CASE p # <<>>
  <2>1. /\ Len(p) > 0 /\ Len(Tail(p)) = Len(p) - 1
        /\ \A i \in 1 .. Len(p) - 1 : Tail(p)[i] = p[i + 1]
    BY <1>3, TailFacts
  <2>2. Len(ch) = TaskBuffer + Len(p)
    BY <1>1, <2>1 DEF Matches
  <2>3. ASSUME NEW k \in 1 .. Len(p) - 1
        PROVE  Tail(ch)[TaskBuffer + k] = MessageOf(Tail(p)[k])
    <3>1. /\ k + 1 \in 1 .. Len(p) /\ TaskBuffer + (k + 1) = (TaskBuffer + k) + 1
          /\ TaskBuffer + k \in 1 .. Len(ch) - 1
      BY <1>1, <2>2
    <3>2. ch[TaskBuffer + (k + 1)] = MessageOf(p[k + 1])
      BY <3>1 DEF Matches
    <3>3. QED
      BY <1>1, <2>1, <3>1, <3>2
  <2>4. Matches(Tail(ch), Tail(p))
    BY <1>1, <2>1, <2>2, <2>3 DEF Matches
  <2>5. QED
    BY <1>3, <2>4 DEF Channel!UnparkOne
<1>4. QED
  BY <1>2, <1>3

Backlog == ParkedAreSending /\ ParkedSendersMatchBacklog

LEMMA MatchesAll ==
  ParkedSendersMatchBacklog <=> \A s \in Streams : Matches(chan[s], parked[s])
BY DEF ParkedSendersMatchBacklog, Matches

LEMMA BacklogInit == Init => Backlog
<1>1. Len(<<>>) = 0
  BY EmptySeq
<1>2. QED
  BY <1>1, ConstantsAssumption DEF Init, Backlog, ParkedAreSending, ParkedSendersMatchBacklog

(* Parking adds the sender, unparking takes one away. *)
LEMMA ParkAdds ==
  ASSUME NEW p \in Seq(Senders), NEW ch, NEW sender \in Senders,
         NEW k \in 1 .. Len(Channel!ParkIfFull(ch, p, sender))
  PROVE  \/ Channel!ParkIfFull(ch, p, sender)[k] = sender
         \/ k \in 1 .. Len(p) /\ Channel!ParkIfFull(ch, p, sender)[k] = p[k]
BY AppendProperties, LenProperties DEF Channel!ParkIfFull

LEMMA UnparkTakes ==
  ASSUME NEW p \in Seq(Senders), NEW k \in 1 .. Len(Channel!UnparkOne(p))
  PROVE  \E j \in 1 .. Len(p) : Channel!UnparkOne(p)[k] = p[j]
<1>1. CASE p = <<>>
  BY <1>1 DEF Channel!UnparkOne
<1>2. CASE p # <<>>
  <2>1. k \in 1 .. Len(p) - 1 /\ Tail(p)[k] = p[k + 1] /\ Channel!UnparkOne(p) = Tail(p)
    BY <1>2, TailFacts DEF Channel!UnparkOne
  <2>2. k + 1 \in 1 .. Len(p)
    BY <2>1, LenProperties
  <2>3. QED
    BY <2>1, <2>2
<1>3. QED
  BY <1>1, <1>2

(* A step that moves senders of stream s only. *)
LEMMA BacklogOfOne ==
  ASSUME TypeOK, Backlog, NEW s \in Streams, UNCHANGED task_id,
         \A t \in Streams \ {s} : chan'[t] = chan[t] /\ parked'[t] = parked[t],
         Matches(chan'[s], parked'[s])
  PROVE  ParkedSendersMatchBacklog'
<1>1. \A t \in Streams : Matches(chan'[t], parked'[t])
  BY MatchesAll DEF Backlog
<1>2. QED
  BY <1>1 DEF Matches, MessageOf, ParkedSendersMatchBacklog

LEMMA BacklogTake ==
  ASSUME TypeOK, Backlog, NEW s \in Streams, UNCHANGED callVars, chan[s] # <<>>,
         chan' = [chan EXCEPT ![s] = Tail(@)],
         parked' = [parked EXCEPT ![s] = Channel!UnparkOne(@)]
  PROVE  Backlog'
<1>1. /\ chan[s] \in Seq(Message) /\ parked[s] \in Seq(Senders)
      /\ chan'[s] = Tail(chan[s]) /\ parked'[s] = Channel!UnparkOne(parked[s])
      /\ \A t \in Streams \ {s} : chan'[t] = chan[t] /\ parked'[t] = parked[t]
  BY DEF TypeOK
<1>2. Matches(chan'[s], parked'[s])
  BY <1>1, TakeMatches, MatchesAll DEF Backlog
<1>3. ParkedSendersMatchBacklog'
  BY <1>1, <1>2, BacklogOfOne DEF callVars
<1>4. \A k \in 1 .. Len(parked'[s]) : \E j \in 1 .. Len(parked[s]) : parked'[s][k] = parked[s][j]
  BY <1>1, UnparkTakes
<1>5. ParkedAreSending'
  BY <1>1, <1>4 DEF Backlog, ParkedAreSending, callVars
<1>6. QED
  BY <1>3, <1>5 DEF Backlog

LEMMA BacklogSend ==
  ASSUME TypeOK, Backlog, NEW s \in Streams, NEW sender \in Senders,
         SendOn(s, sender, MessageOf(sender)), UNCHANGED <<tx, task_id>>,
         \A c \in Calls : pc'[c] = pc[c] \/ c = sender,
         sender # Timer => pc[sender] # "sending" /\ pc'[sender] = "sending" /\ tx[sender] = s
  PROVE  Backlog'
<1>1. MessageOf(sender) \in Message
  BY MessageFacts DEF MessageOf, TypeOK, Senders
<1>2. /\ chan[s] \in Seq(Message) /\ parked[s] \in Seq(Senders)
      /\ chan'[s] = Append(chan[s], MessageOf(sender))
      /\ parked'[s] = Channel!ParkIfFull(chan[s], parked[s], sender)
      /\ \A t \in Streams \ {s} : chan'[t] = chan[t] /\ parked'[t] = parked[t]
  BY DEF TypeOK, SendOn, Channel!Enqueue
<1>3. Matches(chan'[s], parked'[s])
  BY <1>1, <1>2, SendMatches, MatchesAll DEF Backlog
<1>4. ParkedSendersMatchBacklog'
  BY <1>2, <1>3, BacklogOfOne
<1>5. \A t \in Streams : \A k \in 1 .. Len(parked'[t]) :
        \/ parked'[t][k] = sender /\ t = s
        \/ k \in 1 .. Len(parked[t]) /\ parked'[t][k] = parked[t][k]
  BY <1>2, ParkAdds
<1>6. \A t \in Streams : \A k \in 1 .. Len(parked[t]) : parked[t][k] \in Senders
  BY ElementOfSeq DEF TypeOK
<1>7. ParkedAreSending'
  BY <1>5, <1>6 DEF Backlog, ParkedAreSending, Senders
<1>8. QED
  BY <1>4, <1>7 DEF Backlog

(* A step of a call that sends nothing: the call is not parked before it. *)
LEMMA BacklogCall ==
  ASSUME TypeOK, Backlog, NEW c \in Calls, UNCHANGED <<chan, parked>>,
         \A d \in Calls \ {c} : pc'[d] = pc[d] /\ tx'[d] = tx[d] /\ task_id'[d] = task_id[d],
         pc[c] = "sending" => ~ Channel!IsParked(parked[tx[c]], c)
  PROVE  Backlog'
<1>1. \A s \in Streams : \A k \in 1 .. Len(parked[s]) : parked[s][k] \in Senders \ {c}
  BY ElementOfSeq, ConstantsAssumption
     DEF TypeOK, Backlog, ParkedAreSending, Channel!IsParked
<1>2. \A s \in Streams : \A k \in 1 .. Len(parked[s]) :
        MessageOf(parked[s][k])' = MessageOf(parked[s][k])
  BY <1>1 DEF MessageOf, Senders
<1>3. QED
  BY <1>1, <1>2 DEF Backlog, ParkedAreSending, ParkedSendersMatchBacklog, Senders

LEMMA BacklogNext == TypeOK /\ Backlog /\ [Next]_vars => Backlog'
<1> SUFFICES ASSUME TypeOK, Backlog, [Next]_vars PROVE Backlog'
  OBVIOUS
<1>0. ASSUME UNCHANGED <<chan, parked, callVars>> PROVE Backlog'
  BY <1>0 DEF callVars, Backlog, ParkedAreSending, ParkedSendersMatchBacklog, MessageOf
<1>1. ASSUME NEW s \in Streams, KeepaliveTick(s) PROVE Backlog'
  <2>1. CASE ReceiverExists(s)
    BY <1>1, <2>1, BacklogSend DEF KeepaliveTick, MessageOf, Senders, callVars
  <2>2. CASE ~ ReceiverExists(s)
    BY <1>0, <1>1, <2>2 DEF KeepaliveTick
  <2>3. QED
    BY <2>1, <2>2
<1>2. ASSUME NEW s \in Streams, Forward(s) PROVE Backlog'
  BY <1>2, BacklogTake DEF Forward
<1>3. ASSUME NEW s \in Streams, DropReceiver(s) PROVE Backlog'
  <2>1. /\ chan'[s] = <<>> /\ parked'[s] = <<>> /\ UNCHANGED callVars
        /\ \A t \in Streams \ {s} : chan'[t] = chan[t] /\ parked'[t] = parked[t]
    BY <1>3 DEF DropReceiver, TypeOK
  <2>2. Len(<<>>) = 0
    BY EmptySeq
  <2>3. Matches(chan'[s], parked'[s])
    BY <2>1, <2>2, ConstantsAssumption DEF Matches
  <2>4. ParkedSendersMatchBacklog'
    BY <2>1, <2>3, BacklogOfOne DEF callVars
  <2>5. QED
    BY <2>1, <2>2, <2>4 DEF Backlog, ParkedAreSending, callVars
<1>4. ASSUME NEW s \in Streams, StreamStep(s),
             ~ KeepaliveTick(s), ~ Forward(s), ~ DropReceiver(s)
      PROVE  Backlog'
  BY <1>0, <1>4, StreamFrame
     DEF StreamStep, ConnectGenerateId, ConnectRegister, WriteReceived, WriteCompletes,
         ForwarderFails, PeerLeaves, channelVars
<1>5. ASSUME NEW c \in Calls, DoTaskSend(c) PROVE Backlog'
  <2>1. CASE ReceiverExists(tx[c])
    <3>1. c # Timer /\ tx[c] \in Streams /\ c \in Senders
      BY <1>5, ConstantsAssumption DEF TypeOK, DoTaskSend, Senders
    <3>2. /\ SendOn(tx[c], c, MessageOf(c)) /\ UNCHANGED <<tx, task_id>>
          /\ pc[c] = "numbered" /\ pc' = [pc EXCEPT ![c] = "sending"]
      BY <1>5, <2>1, <3>1 DEF DoTaskSend, MessageOf
    <3>3. QED
      BY <3>1, <3>2, BacklogSend DEF TypeOK
  <2>2. CASE ~ ReceiverExists(tx[c])
    BY <1>5, <2>2, BacklogCall DEF DoTaskSend, Reply, TypeOK
  <2>3. QED
    BY <2>1, <2>2
<1>6. ASSUME NEW c \in Calls, CallStep(c), ~ DoTaskSend(c) PROVE Backlog'
  <2>1. /\ UNCHANGED <<chan, parked>>
        /\ pc[c] = "sending" => ~ Channel!IsParked(parked[tx[c]], c)
    BY <1>6 DEF CallStep, DoTaskWithoutPing, DoTaskByHostname, DoTaskByIndex,
                DoTaskLookup, DoTaskObtainId, DoTaskReply, channelVars
  <2>2. \A d \in Calls \ {c} : pc'[d] = pc[d] /\ tx'[d] = tx[d] /\ task_id'[d] = task_id[d]
    BY <1>6 DEF TypeOK, CallStep, DoTaskWithoutPing, DoTaskByHostname, DoTaskByIndex,
                DoTaskLookup, DoTaskObtainId, DoTaskReply, Reply
  <2>3. QED
    BY <2>1, <2>2, BacklogCall
<1>7. CASE UNCHANGED vars
  BY <1>0, <1>7 DEF vars, channelVars
<1>8. QED
  BY <1>1, <1>2, <1>3, <1>4, <1>5, <1>6, <1>7 DEF Next, Quiescent

(* A channel holds TaskBuffer messages and one more for each sender parked   *)
(* on it, in the order of those senders: the channel never runs over, and a  *)
(* do_task call waits exactly as long as its task is behind the first        *)
(* TaskBuffer messages.                                                      *)
THEOREM BackPressure == Spec => []ParkedSendersMatchBacklog
<1>1. Backlog => ParkedSendersMatchBacklog
  BY DEF Backlog
<1>2. QED
  BY <1>1, BacklogInit, BacklogNext, TypeCorrect, PTL DEF Spec

-----------------------------------------------------------------------------
(***************************************************************************)
(* The order of the tasks.  For a client that exists, the pings in transit *)
(* are the tasks that were sent to it and that it has not received, in the *)
(* order in which they were sent: rank[i] counts the tasks received and    *)
(* the pings among the first i messages in transit, and the ping at i is   *)
(* the task sent as number rank[i].                                        *)
(***************************************************************************)
Counts(m) == IF m.ping THEN 1 ELSE 0

IsRank(rank, messages, n, tasks) ==
  /\ rank \in [0 .. Len(messages) -> 0 .. Len(tasks)]
  /\ rank[0] = n /\ rank[Len(messages)] = Len(tasks)
  /\ \A i \in 1 .. Len(messages) :
       /\ rank[i] = rank[i - 1] + Counts(messages[i])
       /\ messages[i].ping => tasks[rank[i]] = messages[i].task_id

InStep(messages, n, tasks) ==
  \E rank \in [0 .. Len(messages) -> 0 .. Len(tasks)] : IsRank(rank, messages, n, tasks)

LEMMA InStepEmpty == InStep(<<>>, 0, <<>>)
<1> DEFINE rank == [i \in 0 .. 0 |-> 0]
<1>1. Len(<<>>) = 0
  BY EmptySeq
<1>2. rank \in [0 .. 0 -> 0 .. 0] /\ rank[0] = 0
  OBVIOUS
<1>3. \A i \in 1 .. Len(<<>>) : FALSE
  BY <1>1
<1> HIDE DEF rank
<1>4. IsRank(rank, <<>>, 0, <<>>)
  BY <1>1, <1>2, <1>3 DEF IsRank
<1>5. QED
  BY <1>4 DEF InStep, IsRank

(* One more message in transit, and one more task sent if it is a ping. *)
LEMMA InStepSend ==
  ASSUME NEW messages \in Seq(Message), NEW n \in Nat, NEW tasks \in Seq(Ids),
         InStep(messages, n, tasks), NEW m \in Message
  PROVE  /\ ~ m.ping => InStep(Append(messages, m), n, tasks)
         /\ m.ping => InStep(Append(messages, m), n, Append(tasks, m.task_id))
<1> DEFINE more == Append(messages, m)
           tasks2 == IF m.ping THEN Append(tasks, m.task_id) ELSE tasks
           len == Len(messages)
<1>1. PICK rank : IsRank(rank, messages, n, tasks)
  BY DEF InStep
<1>2. /\ len \in Nat /\ Len(tasks) \in Nat /\ Len(more) = len + 1
      /\ \A i \in 1 .. len : more[i] = messages[i]
      /\ more[len + 1] = m /\ m.ping \in BOOLEAN /\ m.task_id \in Ids
  BY AppendProperties, LenProperties DEF Message
<1>3. /\ Len(tasks2) = Len(tasks) + Counts(m)
      /\ \A i \in 1 .. Len(tasks) : tasks2[i] = tasks[i]
      /\ m.ping => tasks2[Len(tasks) + 1] = m.task_id
  BY <1>2, AppendProperties DEF Counts
<1> DEFINE rank2 == [i \in 0 .. Len(more) |->
                       IF i = len + 1 THEN Len(tasks2) ELSE rank[i]]
<1> HIDE DEF more, tasks2, len
<1>4. \A i \in 0 .. len : rank[i] \in 0 .. Len(tasks)
  BY <1>1 DEF IsRank, len
<1>5. Len(tasks2) \in Nat /\ Len(tasks2) >= Len(tasks)
  BY <1>2, <1>3 DEF Counts
<1>6. rank2 \in [0 .. Len(more) -> 0 .. Len(tasks2)]
  BY <1>2, <1>4, <1>5
<1>7. rank2[0] = n /\ rank2[Len(more)] = Len(tasks2)
  BY <1>1, <1>2 DEF IsRank
<1>8. ASSUME NEW i \in 1 .. Len(more)
      PROVE  /\ rank2[i] = rank2[i - 1] + Counts(more[i])
             /\ more[i].ping => tasks2[rank2[i]] = more[i].task_id
  <2>1. CASE i = len + 1
    <3>1. rank2[i] = Len(tasks2) /\ rank2[i - 1] = Len(tasks) /\ more[i] = m
      BY <1>1, <1>2, <2>1 DEF IsRank, len
    <3>2. m.ping => Len(tasks2) = Len(tasks) + 1
      BY <1>3 DEF Counts
    <3>3. QED
      BY <1>3, <3>1, <3>2
  <2>2. CASE i \in 1 .. len
    <3>1. rank2[i] = rank[i] /\ rank2[i - 1] = rank[i - 1] /\ more[i] = messages[i]
      BY <1>2, <2>2
    <3>2. /\ rank[i] = rank[i - 1] + Counts(messages[i])
          /\ messages[i].ping => tasks[rank[i]] = messages[i].task_id
      BY <1>1, <2>2 DEF IsRank, len
    <3>3. messages[i].ping => rank[i] \in 1 .. Len(tasks)
      <4>1. rank[i] \in 0 .. Len(tasks) /\ rank[i - 1] \in 0 .. Len(tasks)
        BY <1>2, <1>4, <2>2
      <4>2. QED
        BY <1>2, <3>2, <4>1 DEF Counts
    <3>4. QED
      BY <1>3, <3>1, <3>2, <3>3
  <2>3. QED
    BY <1>2, <2>1, <2>2
<1> HIDE DEF rank2
<1>9. InStep(more, n, tasks2)
  BY <1>6, <1>7, <1>8 DEF InStep, IsRank
<1>10. QED
  BY <1>9 DEF more, tasks2

(* The first message in transit is received: if it is a ping, it is the next *)
(* task.                                                                     *)
LEMMA InStepReceive ==
  ASSUME NEW messages \in Seq(Message), NEW n \in Nat, NEW tasks \in Seq(Ids),
         InStep(messages, n, tasks), messages # <<>>
  PROVE  /\ InStep(Tail(messages), n + Counts(Head(messages)), tasks)
         /\ Head(messages).ping => n < Len(tasks) /\ tasks[n + 1] = Head(messages).task_id
<1> DEFINE len == Len(messages)
           rest == Tail(messages)
<1>1. PICK rank : IsRank(rank, messages, n, tasks)
  BY DEF InStep
<1>2. /\ len \in Nat \ {0} /\ Len(tasks) \in Nat /\ Len(rest) = len - 1
      /\ \A i \in 1 .. len - 1 : rest[i] = messages[i + 1]
      /\ Head(messages) = messages[1]
  BY TailFacts, LenProperties
<1> DEFINE rank2 == [i \in 0 .. Len(rest) |-> rank[i + 1]]
<1> HIDE DEF len, rest
<1>3. /\ \A i \in 0 .. len : rank[i] \in 0 .. Len(tasks)
      /\ rank[0] = n /\ rank[len] = Len(tasks)
      /\ \A i \in 1 .. len :
           /\ rank[i] = rank[i - 1] + Counts(messages[i])
           /\ messages[i].ping => tasks[rank[i]] = messages[i].task_id
  BY <1>1 DEF IsRank, len
<1>4. rank[1] = n + Counts(messages[1]) /\ rank[1] \in 0 .. Len(tasks)
  <2>1. 1 \in 0 .. len /\ 1 \in 1 .. len /\ 1 - 1 = 0
    BY <1>2
  <2>2. QED
    BY <1>3, <2>1
<1>5. rank2 \in [0 .. Len(rest) -> 0 .. Len(tasks)]
  BY <1>2, <1>3
<1>6. rank2[0] = n + Counts(messages[1]) /\ rank2[Len(rest)] = Len(tasks)
  BY <1>2, <1>3, <1>4
<1>7. ASSUME NEW i \in 1 .. Len(rest)
      PROVE  /\ rank2[i] = rank2[i - 1] + Counts(rest[i])
             /\ rest[i].ping => tasks[rank2[i]] = rest[i].task_id
  <2>1. /\ i + 1 \in 1 .. len /\ (i + 1) - 1 = i /\ (i - 1) + 1 = i
        /\ i \in 0 .. Len(rest) /\ i - 1 \in 0 .. Len(rest) /\ i \in 1 .. len - 1
    BY <1>2
  <2>2. rank2[i] = rank[i + 1] /\ rank2[i - 1] = rank[i] /\ rest[i] = messages[i + 1]
    BY <1>2, <2>1
  <2>3. QED
    BY <1>3, <2>1, <2>2
<1> HIDE DEF rank2
<1>8. InStep(rest, n + Counts(messages[1]), tasks)
  BY <1>5, <1>6, <1>7 DEF InStep, IsRank
<1>9. messages[1].ping => n < Len(tasks) /\ tasks[n + 1] = messages[1].task_id
  <2>1. 1 \in 1 .. len
    BY <1>2
  <2>2. QED
    BY <1>2, <1>3, <1>4, <2>1 DEF Counts
<1>10. QED
  BY <1>2, <1>8, <1>9 DEF rest

(***************************************************************************)
(* What the steps do to the messages in transit.                           *)
(***************************************************************************)
LEMMA TransitType ==
  ASSUME TypeOK, NEW s \in Streams
  PROVE  /\ sink[s] \in Seq(Message) /\ chan[s] \in Seq(Message)
         /\ InTransit(s) \in Seq(Message) /\ Len(InTransit(s)) \in Nat
BY ConcatProperties, LenProperties DEF TypeOK, InTransit

LEMMA TransitForward ==
  ASSUME TypeOK, NEW s \in Streams, Forward(s), NEW t \in Streams
  PROVE  InTransit(t)' = InTransit(t)
<1>1. chan[s] # <<>> /\ sink' = [sink EXCEPT ![s] = Append(@, Head(chan[s]))]
      /\ chan' = [chan EXCEPT ![s] = Tail(@)]
  BY DEF Forward
<1>2. CASE t = s
  <2>1. Append(sink[s], Head(chan[s])) \o Tail(chan[s]) = sink[s] \o chan[s]
    BY <1>1, MoveHead, TransitType
  <2>2. QED
    BY <1>1, <1>2, <2>1 DEF InTransit, TypeOK
<1>3. CASE t # s
  BY <1>1, <1>3 DEF InTransit, TypeOK
<1>4. QED
  BY <1>2, <1>3

LEMMA TransitSend ==
  ASSUME TypeOK, NEW s \in Streams, NEW m \in Message, NEW sender,
         SendOn(s, sender, m), UNCHANGED sink
  PROVE  /\ InTransit(s)' = Append(InTransit(s), m)
         /\ \A t \in Streams \ {s} : InTransit(t)' = InTransit(t)
<1>1. chan'[s] = Append(chan[s], m) /\ \A t \in Streams \ {s} : chan'[t] = chan[t]
  BY DEF SendOn, Channel!Enqueue, TypeOK
<1>2. sink[s] \o Append(chan[s], m) = Append(sink[s] \o chan[s], m)
  BY AppendToLast DEF TypeOK
<1>3. QED
  BY <1>1, <1>2 DEF InTransit

LEMMA TransitReceive ==
  ASSUME TypeOK, NEW s \in Streams, WriteReceived(s)
  PROVE  /\ InTransit(s) # <<>> /\ Head(InTransit(s)) = Head(sink[s])
         /\ Head(sink[s]) \in Message
         /\ InTransit(s)' = Tail(InTransit(s))
         /\ \A t \in Streams \ {s} : InTransit(t)' = InTransit(t)
<1>1. sink[s] \in Seq(Message) /\ chan[s] \in Seq(Message) /\ sink[s] # <<>>
  BY DEF TypeOK, WriteReceived
<1>2. /\ sink' = [sink EXCEPT ![s] = Tail(@)] /\ UNCHANGED chan
      /\ sink'[s] = Tail(sink[s]) /\ \A t \in Streams \ {s} : sink'[t] = sink[t]
  BY DEF TypeOK, WriteReceived
<1>3. /\ sink[s] \o chan[s] # <<>> /\ Head(sink[s] \o chan[s]) = Head(sink[s])
      /\ Head(sink[s]) \in Message
      /\ Tail(sink[s] \o chan[s]) = Tail(sink[s]) \o chan[s]
  BY <1>1, TakeFirst
<1>4. QED
  BY <1>2, <1>3 DEF InTransit

-----------------------------------------------------------------------------
(***************************************************************************)
(* The refinement of OrderedDelivery.                                      *)
(***************************************************************************)

(* A client that exists is served, or is about to be. *)
OpenIsServed == \A s \in Streams : peer[s] => phase[s] \in {"accepted", "serving"}

Open(s) == phase[s] = "new" \/ peer[s]

TasksAreInStep ==
  \A s \in Streams : Open(s) => InStep(InTransit(s), Len(received[s]), queued[s])

LEMMA OrderInit == Init => OpenIsServed /\ TasksAreInStep
<1> SUFFICES ASSUME Init PROVE OpenIsServed /\ TasksAreInStep
  OBVIOUS
<1>1. ASSUME NEW s \in Streams
      PROVE  InTransit(s) = <<>> /\ Len(received[s]) = 0 /\ queued[s] = <<>>
  <2>1. <<>> \o <<>> = <<>>
    BY ConcatEmptySeq, EmptySeq
  <2>2. QED
    BY <2>1, EmptySeq DEF Init, InTransit
<1>2. TasksAreInStep
  BY <1>1, InStepEmpty DEF TasksAreInStep
<1>3. QED
  BY <1>2 DEF Init, OpenIsServed

LEMMA OpenNext == TypeOK /\ OpenIsServed /\ [Next]_vars => OpenIsServed'
<1> SUFFICES ASSUME TypeOK, OpenIsServed, [Next]_vars PROVE OpenIsServed'
  OBVIOUS
<1> USE DEF OpenIsServed, TypeOK
<1>1. ASSUME NEW s \in Streams, StreamStep(s) PROVE OpenIsServed'
  <2>1. CASE ConnectGenerateId(s)
    BY <2>1 DEF ConnectGenerateId
  <2>2. CASE ConnectRegister(s)
    BY <2>2 DEF ConnectRegister
  <2>3. CASE ForwarderFails(s)
    BY <2>3 DEF ForwarderFails
  <2>4. CASE DropReceiver(s)
    BY <2>4 DEF DropReceiver
  <2>5. CASE PeerLeaves(s)
    BY <2>5 DEF PeerLeaves
  <2>6. CASE UNCHANGED <<phase, peer>>
    BY <2>6
  <2>7. QED
    BY <1>1, <2>1, <2>2, <2>3, <2>4, <2>5, <2>6
       DEF StreamStep, KeepaliveTick, Forward, WriteReceived, WriteCompletes, streamVars
<1>2. ASSUME NEW c \in Calls, CallStep(c) PROVE UNCHANGED <<phase, peer>>
  BY <1>2 DEF CallStep, DoTaskWithoutPing, DoTaskByHostname, DoTaskByIndex,
              DoTaskLookup, DoTaskObtainId, DoTaskSend, DoTaskReply, streamVars
<1>3. QED
  BY <1>1, <1>2 DEF Next, Quiescent, vars, streamVars

(* What a send does to one stream. *)
LEMMA TaskIsSent ==
  ASSUME TypeOK, NEW c \in Calls, DoTaskSend(c), ReceiverExists(tx[c])
  PROVE  /\ tx[c] \in Streams /\ task_id[c] \in Ids /\ Ping(task_id[c]) \in Message
         /\ SendOn(tx[c], c, Ping(task_id[c])) /\ UNCHANGED <<phase, peer, sink, received>>
         /\ queued' = [queued EXCEPT ![tx[c]] = Append(@, task_id[c])]
BY MessageFacts DEF TypeOK, DoTaskSend, streamVars, transportVars

LEMMA InStepNext ==
  TypeOK /\ OpenIsServed /\ TasksAreInStep /\ [Next]_vars => TasksAreInStep'
<1> SUFFICES ASSUME TypeOK, OpenIsServed, TasksAreInStep, [Next]_vars PROVE TasksAreInStep'
  OBVIOUS
<1>0. \A t \in Streams : /\ InTransit(t) \in Seq(Message) /\ queued[t] \in Seq(Ids)
                         /\ received[t] \in Seq(Ids) /\ Len(received[t]) \in Nat
  BY TransitType, LenProperties DEF TypeOK
<1>1. ASSUME UNCHANGED <<received, queued>>,
             \A t \in Streams : Open(t)' => Open(t) /\ InTransit(t)' = InTransit(t)
      PROVE  TasksAreInStep'
  BY <1>1 DEF TasksAreInStep
<1>2. ASSUME NEW s \in Streams, KeepaliveTick(s) PROVE TasksAreInStep'
  <2>1. CASE ReceiverExists(s)
    <3>1. /\ SendOn(s, Timer, Keepalive) /\ Keepalive \in Message /\ ~ Keepalive.ping
          /\ UNCHANGED <<received, queued, sink, phase, peer>>
      BY <1>2, <2>1, MessageFacts DEF KeepaliveTick, Keepalive, transportVars
    <3>2. /\ InTransit(s)' = Append(InTransit(s), Keepalive)
          /\ \A t \in Streams \ {s} : InTransit(t)' = InTransit(t)
      BY <3>1, TransitSend
    <3>3. InStep(InTransit(s), Len(received[s]), queued[s])
            => InStep(InTransit(s)', Len(received[s]), queued[s])
      BY <1>0, <3>1, <3>2, InStepSend
    <3>4. QED
      BY <3>1, <3>2, <3>3 DEF TasksAreInStep, Open
  <2>2. CASE ~ ReceiverExists(s)
    BY <1>1, <1>2, <2>2 DEF KeepaliveTick, transportVars, InTransit, Open
  <2>3. QED
    BY <2>1, <2>2
<1>3. ASSUME NEW s \in Streams, Forward(s) PROVE TasksAreInStep'
  <2>1. \A t \in Streams : InTransit(t)' = InTransit(t)
    BY <1>3, TransitForward
  <2>2. QED
    BY <1>1, <1>3, <2>1 DEF Forward, streamVars, Open
<1>4. ASSUME NEW s \in Streams, WriteReceived(s) PROVE TasksAreInStep'
  <2>1. /\ InTransit(s) # <<>> /\ Head(InTransit(s)) = Head(sink[s])
        /\ Head(sink[s]) \in Message /\ InTransit(s)' = Tail(InTransit(s))
        /\ \A t \in Streams \ {s} : InTransit(t)' = InTransit(t)
    BY <1>4, TransitReceive
  <2>2. /\ UNCHANGED <<phase, peer, queued>> /\ phase[s] = "serving"
        /\ received' = IF peer[s] /\ Head(sink[s]).ping
                         THEN [received EXCEPT ![s] = Append(@, Head(sink[s]).task_id)]
                         ELSE received
    BY <1>4 DEF WriteReceived, streamVars
  <2>3. ASSUME peer[s] PROVE Len(received'[s]) = Len(received[s]) + Counts(Head(sink[s]))
    <3>1. Head(sink[s]).task_id \in Ids
      BY <2>1 DEF Message
    <3>2. CASE Head(sink[s]).ping
      <4>1. received'[s] = Append(received[s], Head(sink[s]).task_id)
        BY <2>2, <2>3, <3>2 DEF TypeOK
      <4>2. QED
        BY <1>0, <3>1, <3>2, <4>1, AppendProperties DEF Counts
    <3>3. CASE ~ Head(sink[s]).ping
      BY <1>0, <2>2, <3>3 DEF Counts
    <3>4. QED
      BY <3>2, <3>3
  <2>4. InStep(InTransit(s), Len(received[s]), queued[s])
          => InStep(Tail(InTransit(s)), Len(received[s]) + Counts(Head(InTransit(s))), queued[s])
    BY <1>0, <2>1, InStepReceive
  <2>5. Open(s)' => InStep(InTransit(s)', Len(received'[s]), queued[s])
    BY <2>1, <2>2, <2>3, <2>4 DEF TasksAreInStep, Open
  <2>6. \A t \in Streams \ {s} : received'[t] = received[t] /\ Open(t)' = Open(t)
    BY <2>2 DEF TypeOK, Open
  <2>7. QED
    BY <2>1, <2>2, <2>5, <2>6 DEF TasksAreInStep
<1>5. ASSUME NEW s \in Streams, ForwarderFails(s) \/ DropReceiver(s) PROVE TasksAreInStep'
  <2>1. ~ peer[s] /\ ~ Open(s)'
    BY <1>5 DEF ForwarderFails, DropReceiver, OpenIsServed, TypeOK, Open
  <2>2. /\ UNCHANGED <<received, queued>>
        /\ \A t \in Streams \ {s} : Open(t)' = Open(t) /\ InTransit(t)' = InTransit(t)
    BY <1>5 DEF ForwarderFails, DropReceiver, transportVars, TypeOK, Open, InTransit
  <2>3. QED
    BY <2>1, <2>2 DEF TasksAreInStep
<1>6. ASSUME NEW s \in Streams,
             ConnectGenerateId(s) \/ ConnectRegister(s) \/ WriteCompletes(s) \/ PeerLeaves(s)
      PROVE  TasksAreInStep'
  <2>1. UNCHANGED <<received, queued, sink, chan>>
    BY <1>6 DEF ConnectGenerateId, ConnectRegister, WriteCompletes, PeerLeaves, channelVars,
                transportVars
  <2>2. \A t \in Streams : Open(t)' => Open(t)
    BY <1>6 DEF ConnectGenerateId, ConnectRegister, WriteCompletes, PeerLeaves, streamVars,
                TypeOK, Open
  <2>3. QED
    BY <1>1, <2>1, <2>2 DEF InTransit
<1>7. ASSUME NEW c \in Calls, DoTaskSend(c), ReceiverExists(tx[c]) PROVE TasksAreInStep'
  <2>1. PICK s \in Streams, m \in Message :
          /\ m = Ping(task_id[c]) /\ SendOn(s, c, m) /\ UNCHANGED <<phase, peer, sink, received>>
          /\ queued' = [queued EXCEPT ![s] = Append(@, task_id[c])]
    BY <1>7, TaskIsSent
  <2>2. m.ping /\ m.task_id = task_id[c] /\ task_id[c] \in Ids
    BY <2>1 DEF Ping, TypeOK
  <2>3. /\ InTransit(s)' = Append(InTransit(s), m)
        /\ \A t \in Streams \ {s} : InTransit(t)' = InTransit(t)
    BY <2>1, TransitSend
  <2>4. InStep(InTransit(s), Len(received[s]), queued[s])
          => InStep(Append(InTransit(s), m), Len(received[s]), Append(queued[s], m.task_id))
    BY <1>0, <2>1, <2>2, InStepSend
  <2>5. /\ queued'[s] = Append(queued[s], m.task_id)
        /\ \A t \in Streams \ {s} : queued'[t] = queued[t]
    BY <2>1, <2>2 DEF TypeOK
  <2>6. \A t \in Streams : Open(t)' = Open(t) /\ received'[t] = received[t]
    BY <2>1 DEF Open
  <2>7. ASSUME NEW t \in Streams, Open(t)
        PROVE  InStep(InTransit(t)', Len(received'[t]), queued'[t])
    <3>1. InStep(InTransit(t), Len(received[t]), queued[t])
      BY <2>7 DEF TasksAreInStep
    <3>2. CASE t = s
      BY <2>3, <2>4, <2>5, <2>6, <3>1, <3>2
    <3>3. CASE t # s
      BY <2>3, <2>5, <2>6, <3>1, <3>3
    <3>4. QED
      BY <3>2, <3>3
  <2>8. QED
    BY <2>6, <2>7 DEF TasksAreInStep
<1>8. ASSUME NEW c \in Calls, CallStep(c), ~ (DoTaskSend(c) /\ ReceiverExists(tx[c]))
      PROVE  UNCHANGED <<received, queued, sink, chan, phase, peer>>
  BY <1>8 DEF CallStep, DoTaskWithoutPing, DoTaskByHostname, DoTaskByIndex, DoTaskLookup,
              DoTaskObtainId, DoTaskSend, DoTaskReply, streamVars, channelVars, transportVars
<1>9. CASE UNCHANGED <<received, queued, sink, chan, phase, peer>>
  BY <1>1, <1>9 DEF InTransit, Open
<1>10. QED
  BY <1>2, <1>3, <1>4, <1>5, <1>6, <1>7, <1>8, <1>9
     DEF Next, StreamStep, Quiescent, vars, streamVars, channelVars, transportVars

(* A step that changes neither histories nor clients is invisible. *)
LEMMA Unseen ==
  ASSUME UNCHANGED <<received, queued>>,
         \A s \in Streams : Open(s)' <=> Open(s)
  PROVE  UNCHANGED Delivery!vars
BY DEF Delivery!vars, streamStatus, Open

LEMMA DeliveryStep ==
  TypeOK /\ OpenIsServed /\ TasksAreInStep /\ [Next]_vars => [Delivery!Next]_(Delivery!vars)
<1> SUFFICES ASSUME TypeOK, OpenIsServed, TasksAreInStep, [Next]_vars
             PROVE  Delivery!Next \/ UNCHANGED Delivery!vars
  OBVIOUS
<1>1. ASSUME NEW s \in Streams, PeerLeaves(s) PROVE Delivery!Break(s)
  <2>1. /\ peer[s] /\ phase[s] # "new" /\ UNCHANGED <<phase, queued, received>>
        /\ peer' = [peer EXCEPT ![s] = FALSE]
    BY <1>1 DEF PeerLeaves, OpenIsServed, channelVars, transportVars
  <2>2. /\ streamStatus[s] = "open"
        /\ streamStatus' = [streamStatus EXCEPT ![s] = "broken"]
    BY <2>1 DEF streamStatus, TypeOK
  <2>3. QED
    BY <2>1, <2>2 DEF Delivery!Break
<1>2. ASSUME NEW s \in Streams, WriteReceived(s)
      PROVE  Delivery!Deliver(s) \/ UNCHANGED Delivery!vars
  <2>1. /\ UNCHANGED <<phase, peer, queued>>
        /\ received' = IF peer[s] /\ Head(sink[s]).ping
                         THEN [received EXCEPT ![s] = Append(@, Head(sink[s]).task_id)]
                         ELSE received
    BY <1>2 DEF WriteReceived, streamVars
  <2>2. CASE peer[s] /\ Head(sink[s]).ping
    <3>1. InTransit(s) # <<>> /\ Head(InTransit(s)) = Head(sink[s])
      BY <1>2, TransitReceive
    <3>2. InStep(InTransit(s), Len(received[s]), queued[s])
      BY <2>2 DEF TasksAreInStep, Open
    <3>3. /\ InTransit(s) \in Seq(Message) /\ Len(received[s]) \in Nat /\ queued[s] \in Seq(Ids)
      BY TransitType, LenProperties DEF TypeOK
    <3>4. /\ Len(received[s]) < Len(queued[s])
          /\ queued[s][Len(received[s]) + 1] = Head(sink[s]).task_id
      BY <2>2, <3>1, <3>2, <3>3, InStepReceive
    <3>5. streamStatus[s] = "open" /\ streamStatus' = streamStatus
      BY <2>1, <2>2 DEF streamStatus
    <3>6. QED
      BY <2>1, <2>2, <3>4, <3>5 DEF Delivery!Deliver
  <2>3. CASE ~ (peer[s] /\ Head(sink[s]).ping)
    BY <2>1, <2>3, Unseen DEF Open
  <2>4. QED
    BY <2>2, <2>3
<1>3. ASSUME NEW c \in Calls, DoTaskSend(c), ReceiverExists(tx[c])
      PROVE  \E s \in Streams, m \in Ids : Delivery!Accept(s, m)
  <2>1. PICK s \in Streams, m \in Ids :
          queued' = [queued EXCEPT ![s] = Append(@, m)] /\ UNCHANGED <<phase, peer, received>>
    BY <1>3, TaskIsSent
  <2>2. streamStatus[s] # "complete" /\ streamStatus' = streamStatus
    BY <2>1 DEF streamStatus
  <2>3. Delivery!Accept(s, m)
    BY <2>1, <2>2 DEF Delivery!Accept
  <2>4. QED
    BY <2>3
<1>4. ASSUME NEW s \in Streams, StreamStep(s), ~ PeerLeaves(s), ~ WriteReceived(s)
      PROVE  UNCHANGED Delivery!vars
  <2>1. UNCHANGED <<received, queued>>
    BY <1>4 DEF StreamStep, ConnectGenerateId, ConnectRegister, KeepaliveTick, Forward,
                WriteCompletes, ForwarderFails, DropReceiver, channelVars, transportVars
  <2>2. \A t \in Streams : Open(t)' <=> Open(t)
    BY <1>4 DEF StreamStep, ConnectGenerateId, ConnectRegister, KeepaliveTick, Forward,
                WriteCompletes, ForwarderFails, DropReceiver, streamVars, TypeOK, Open
  <2>3. QED
    BY <2>1, <2>2, Unseen
<1>5. ASSUME NEW c \in Calls, CallStep(c), ~ (DoTaskSend(c) /\ ReceiverExists(tx[c]))
      PROVE  UNCHANGED <<received, queued, phase, peer>>
  BY <1>5 DEF CallStep, DoTaskWithoutPing, DoTaskByHostname, DoTaskByIndex, DoTaskLookup,
              DoTaskObtainId, DoTaskSend, DoTaskReply, streamVars, channelVars, transportVars
<1>6. CASE UNCHANGED <<received, queued, phase, peer>>
  BY <1>6, Unseen DEF Open
<1>7. QED
  BY <1>1, <1>2, <1>3, <1>4, <1>5, <1>6
     DEF Next, Quiescent, Delivery!Next, vars, streamVars, channelVars, transportVars

(* The task side of the server implements ordered delivery: whatever the     *)
(* interleaving of do_task calls, keepalives, forwarder and failures, a      *)
(* client that exists receives the tasks sent to it in the order in which    *)
(* they were enqueued, with none missing in between.                         *)
THEOREM StreamsImplementDelivery == Spec => TasksDeliveredInOrder
<1>1. Init => Delivery!Init
  BY DEF Init, Delivery!Init, streamStatus
<1>2. QED
  BY <1>1, OrderInit, OpenNext, InStepNext, DeliveryStep, TypeCorrect, PTL
  DEF Spec, TasksDeliveredInOrder, Delivery!Spec

-----------------------------------------------------------------------------
(***************************************************************************)
(* The tasks of one stream: r has been received, q is in transit.          *)
(***************************************************************************)
Pings(q) == {i \in 1 .. Len(q) : q[i].ping}

TasksOf(r, q) == {r[i] : i \in 1 .. Len(r)} \cup {q[i].task_id : i \in Pings(q)}

Distinct(r, q) ==
  /\ \A i, j \in 1 .. Len(r) : r[i] = r[j] => i = j
  /\ \A i, j \in Pings(q) : q[i].task_id = q[j].task_id => i = j
  /\ \A i \in 1 .. Len(r), j \in Pings(q) : r[i] # q[j].task_id

(* Messages in transit are lost, or the first of them is received. *)
LEMMA TasksMove ==
  ASSUME NEW r \in Seq(Ids), NEW r2 \in Seq(Ids), NEW q \in Seq(Message), NEW q2 \in Seq(Message),
         NEW k \in Nat, Len(q2) + k <= Len(q), \A i \in 1 .. Len(q2) : q2[i] = q[i + k],
         r2 = r \/ (k = 1 /\ q[1].ping /\ r2 = Append(r, q[1].task_id))
  PROVE  /\ TasksOf(r2, q2) \subseteq TasksOf(r, q)
         /\ Distinct(r, q) => Distinct(r2, q2)
<1>1. /\ Len(q) \in Nat /\ Len(q2) \in Nat /\ Len(r) \in Nat
      /\ \A i \in Pings(q2) : i + k \in Pings(q) /\ i + k > k
                              /\ q2[i].task_id = q[i + k].task_id
  BY LenProperties DEF Pings
<1>2. CASE r2 = r
  <2>1. TasksOf(r2, q2) \subseteq TasksOf(r, q)
    BY <1>1, <1>2 DEF TasksOf
  <2>2. ASSUME Distinct(r, q), NEW i \in Pings(q2), NEW j \in Pings(q2),
               q2[i].task_id = q2[j].task_id
        PROVE  i = j
    <3>1. i + k = j + k
      BY <1>1, <2>2 DEF Distinct
    <3>2. QED
      BY <3>1 DEF Pings
  <2>3. QED
    BY <1>1, <1>2, <2>1, <2>2 DEF Distinct
<1>3. CASE k = 1 /\ q[1].ping /\ r2 = Append(r, q[1].task_id)
  <2>1. 1 \in Pings(q) /\ q[1].task_id \in Ids
    <3>1. 1 \in 1 .. Len(q)
      BY <1>1, <1>3, LenProperties
    <3>2. q[1] \in Message
      BY <3>1, ElementOfSeq
    <3>3. QED
      BY <1>3, <3>1, <3>2 DEF Pings, Message
  <2>2. /\ Len(r2) = Len(r) + 1 /\ \A i \in 1 .. Len(r) : r2[i] = r[i]
        /\ r2[Len(r) + 1] = q[1].task_id
    BY <1>3, <2>1, AppendProperties
  <2>3. \A i \in 1 .. Len(r2) : i \in 1 .. Len(r) \/ i = Len(r) + 1
    BY <1>1, <2>2
  <2>4. TasksOf(r2, q2) \subseteq TasksOf(r, q)
    <3>1. ASSUME NEW i \in 1 .. Len(r2) PROVE r2[i] \in TasksOf(r, q)
      <4>1. CASE i \in 1 .. Len(r)
        BY <2>2, <4>1 DEF TasksOf
      <4>2. CASE i = Len(r) + 1
        BY <2>1, <2>2, <4>2 DEF TasksOf
      <4>3. QED
        BY <2>3, <4>1, <4>2
    <3>2. ASSUME NEW i \in Pings(q2) PROVE q2[i].task_id \in TasksOf(r, q)
      BY <1>1, <3>2 DEF TasksOf
    <3>3. QED
      BY <3>1, <3>2 DEF TasksOf
  <2>5. ASSUME Distinct(r, q), NEW i \in 1 .. Len(r2), NEW j \in 1 .. Len(r2), r2[i] = r2[j]
        PROVE  i = j
    BY <2>1, <2>2, <2>3, <2>5 DEF Distinct
  <2>6. ASSUME Distinct(r, q), NEW i \in Pings(q2), NEW j \in Pings(q2),
               q2[i].task_id = q2[j].task_id
        PROVE  i = j
    <3>1. i + k = j + k
      BY <1>1, <2>6 DEF Distinct
    <3>2. QED
      BY <3>1 DEF Pings
  <2>7. ASSUME Distinct(r, q), NEW i \in 1 .. Len(r2), NEW j \in Pings(q2)
        PROVE  r2[i] # q2[j].task_id
    <3>1. j + 1 \in Pings(q) /\ q2[j].task_id = q[j + 1].task_id /\ j + 1 # 1
      BY <1>1, <1>3
    <3>2. CASE i \in 1 .. Len(r)
      BY <2>2, <2>7, <3>1, <3>2 DEF Distinct
    <3>3. CASE i = Len(r) + 1
      BY <2>1, <2>2, <2>7, <3>1, <3>3 DEF Distinct
    <3>4. QED
      BY <2>3, <3>2, <3>3
  <2>8. QED
    BY <2>4, <2>5, <2>6, <2>7 DEF Distinct
<1>4. QED
  BY <1>2, <1>3

(* Receiving the first message loses no task. *)
LEMMA TasksKept ==
  ASSUME NEW r \in Seq(Ids), NEW q \in Seq(Message), q # <<>>
  PROVE  TasksOf(r, q)
           \subseteq TasksOf(IF q[1].ping THEN Append(r, q[1].task_id) ELSE r, Tail(q))
<1> DEFINE r2 == IF q[1].ping THEN Append(r, q[1].task_id) ELSE r
           q2 == Tail(q)
<1>1. /\ Len(q) \in Nat \ {0} /\ Len(q2) = Len(q) - 1 /\ q[1] \in Message
      /\ \A i \in 1 .. Len(q) - 1 : q2[i] = q[i + 1]
  BY TailFacts
<1>2. /\ Len(r) \in Nat /\ \A i \in 1 .. Len(r) : i \in 1 .. Len(r2) /\ r2[i] = r[i]
      /\ q[1].ping => Len(r) + 1 \in 1 .. Len(r2) /\ r2[Len(r) + 1] = q[1].task_id
  <2>1. q[1].task_id \in Ids /\ Len(r) \in Nat
    BY <1>1, LenProperties DEF Message
  <2>2. QED
    BY <2>1, AppendProperties
<1> HIDE DEF r2, q2
<1>3. ASSUME NEW i \in Pings(q) PROVE q[i].task_id \in TasksOf(r2, q2)
  <2>1. CASE i = 1
    BY <1>2, <2>1 DEF Pings, TasksOf
  <2>2. CASE i # 1
    <3>1. i - 1 \in 1 .. Len(q) - 1 /\ (i - 1) + 1 = i
      BY <1>1, <2>2 DEF Pings
    <3>2. i - 1 \in Pings(q2) /\ q2[i - 1] = q[i]
      BY <1>1, <3>1 DEF Pings
    <3>3. QED
      BY <3>2 DEF TasksOf
  <2>3. QED
    BY <2>1, <2>2
<1>4. TasksOf(r, q) \subseteq TasksOf(r2, q2)
  BY <1>2, <1>3 DEF TasksOf
<1>5. QED
  BY <1>4 DEF r2, q2

(* Sending adds the task of a ping. *)
LEMMA TasksAdd ==
  ASSUME NEW r \in Seq(Ids), NEW q \in Seq(Message), NEW m \in Message
  PROVE  /\ TasksOf(r, Append(q, m))
              = IF m.ping THEN TasksOf(r, q) \cup {m.task_id} ELSE TasksOf(r, q)
         /\ Distinct(r, q) /\ (m.ping => m.task_id \notin TasksOf(r, q))
              => Distinct(r, Append(q, m))
<1> DEFINE q2 == Append(q, m)
<1>1. /\ Len(q) \in Nat /\ Len(q2) = Len(q) + 1
      /\ \A i \in 1 .. Len(q) : q2[i] = q[i]
      /\ q2[Len(q) + 1] = m /\ m.ping \in BOOLEAN
  BY AppendProperties, LenProperties DEF Message
<1> HIDE DEF q2
<1>2. Pings(q2) = IF m.ping THEN Pings(q) \cup {Len(q) + 1} ELSE Pings(q)
  BY <1>1 DEF Pings
<1>3. \A i \in Pings(q) : q2[i] = q[i] /\ i # Len(q) + 1
  BY <1>1 DEF Pings
<1>4. TasksOf(r, q2) = IF m.ping THEN TasksOf(r, q) \cup {m.task_id} ELSE TasksOf(r, q)
  BY <1>1, <1>2, <1>3 DEF TasksOf
<1>5. Distinct(r, q) /\ (m.ping => m.task_id \notin TasksOf(r, q)) => Distinct(r, q2)
  BY <1>1, <1>2, <1>3 DEF TasksOf, Distinct
<1>6. QED
  BY <1>4, <1>5 DEF q2

(***************************************************************************)
(* Where the tasks of a stream are, and whose they are.                    *)
(***************************************************************************)
Tasks(s) == TasksOf(received[s], InTransit(s))

(* The calls that have taken a task id, and those that have sent it. *)
Numbered ==
  {c \in Calls : pc[c] \in {"numbered", "sending"} \/ ack[c] \in {"success", "unable"}}

Sent(c) == pc[c] = "sending" \/ ack[c] = "success"

TaskIdsAreUnique ==
  /\ current_task_id = Cardinality(Numbered)
  /\ \A c \in Numbered : task_id[c] < current_task_id
  /\ \A c, d \in Numbered : task_id[c] = task_id[d] => c = d

(* Replies are final, and a call that has found a stream found a connected   *)
(* one.                                                                      *)
CallsAreRegular ==
  \A c \in Calls :
    /\ pc[c] # "replied" => ack[c] = "none"
    /\ pc[c] \in {"found", "numbered"} \/ Sent(c) => tx[c] \in Streams /\ phase[tx[c]] # "new"

TasksAreDistinct == \A s \in Streams : Distinct(received[s], InTransit(s))

TasksWereSent ==
  \A s \in Streams : \A n \in Tasks(s) :
    \E c \in Calls : Sent(c) /\ tx[c] = s /\ task_id[c] = n

SentAreKept == \A c \in Calls : Sent(c) /\ peer[tx[c]] => task_id[c] \in Tasks(tx[c])

TasksAreTraced ==
  TaskIdsAreUnique /\ CallsAreRegular /\ TasksAreDistinct /\ TasksWereSent /\ SentAreKept

LEMMA TracedInit == Init => TasksAreTraced
<1> SUFFICES ASSUME Init PROVE TasksAreTraced
  OBVIOUS
<1>1. Numbered = {} /\ current_task_id = 0 /\ \A c \in Calls : ~ Sent(c)
  BY DEF Init, Numbered, Sent
<1>2. TaskIdsAreUnique
  BY <1>1, FS_EmptySet DEF TaskIdsAreUnique
<1>3. \A s \in Streams : Len(received[s]) = 0 /\ Len(InTransit(s)) = 0
  <2>1. <<>> \o <<>> = <<>>
    BY ConcatEmptySeq, EmptySeq
  <2>2. QED
    BY <2>1, EmptySeq DEF Init, InTransit
<1>4. \A s \in Streams : Tasks(s) = {} /\ Distinct(received[s], InTransit(s))
  BY <1>3 DEF Tasks, TasksOf, Distinct, Pings
<1>5. QED
  BY <1>1, <1>2, <1>4
     DEF Init, TasksAreTraced, CallsAreRegular, TasksAreDistinct, TasksWereSent, SentAreKept

(* A step of a stream loses tasks only together with the client, and neither *)
(* adds nor doubles any.                                                     *)
LEMMA StreamTasks ==
  ASSUME TypeOK, OpenIsServed, NEW s \in Streams, StreamStep(s), NEW t \in Streams
  PROVE  /\ Tasks(t)' \subseteq Tasks(t)
         /\ Distinct(received[t], InTransit(t)) => Distinct(received[t], InTransit(t))'
         /\ phase[t] # "new" => phase'[t] # "new"
         /\ phase[t] # "new" /\ peer'[t] => peer[t] /\ Tasks(t) \subseteq Tasks(t)'
<1>0. /\ received[t] \in Seq(Ids) /\ received[s] \in Seq(Ids)
      /\ InTransit(t) \in Seq(Message) /\ InTransit(s) \in Seq(Message)
      /\ Len(InTransit(t)) \in Nat
  BY TransitType DEF TypeOK
<1>1. CASE ConnectGenerateId(s) \/ ConnectRegister(s) \/ WriteCompletes(s) \/ PeerLeaves(s)
  <2>1. UNCHANGED <<received, sink, chan>>
    BY <1>1 DEF ConnectGenerateId, ConnectRegister, WriteCompletes, PeerLeaves, channelVars,
                transportVars
  <2>2. /\ phase[t] # "new" => phase'[t] # "new"
        /\ phase[t] # "new" /\ peer'[t] => peer[t]
    BY <1>1 DEF ConnectGenerateId, ConnectRegister, WriteCompletes, PeerLeaves, streamVars, TypeOK
  <2>3. QED
    BY <2>1, <2>2 DEF Tasks, InTransit
<1>2. CASE KeepaliveTick(s)
  <2>1. UNCHANGED <<received, sink, phase, peer>>
    BY <1>2 DEF KeepaliveTick, transportVars
  <2>2. CASE ReceiverExists(s) /\ t = s
    <3>1. /\ SendOn(s, Timer, Keepalive) /\ Keepalive \in Message /\ ~ Keepalive.ping
      BY <1>2, <2>2, MessageFacts DEF KeepaliveTick, Keepalive
    <3>2. InTransit(s)' = Append(InTransit(s), Keepalive)
      BY <2>1, <3>1, TransitSend
    <3>3. QED
      BY <1>0, <2>1, <2>2, <3>1, <3>2, TasksAdd DEF Tasks
  <2>3. CASE ~ ReceiverExists(s) \/ t # s
    <3>1. chan'[t] = chan[t]
      BY <1>2, <2>3 DEF KeepaliveTick, SendOn, TypeOK
    <3>2. QED
      BY <2>1, <3>1 DEF Tasks, InTransit
  <2>4. QED
    BY <2>2, <2>3
<1>3. CASE Forward(s)
  <2>1. InTransit(t)' = InTransit(t)
    BY <1>3, TransitForward
  <2>2. UNCHANGED <<received, phase, peer>>
    BY <1>3 DEF Forward, streamVars
  <2>3. QED
    BY <2>1, <2>2 DEF Tasks
<1>4. CASE WriteReceived(s)
  <2>1. /\ InTransit(s) # <<>> /\ Head(InTransit(s)) = Head(sink[s])
        /\ InTransit(s)' = Tail(InTransit(s))
        /\ t # s => InTransit(t)' = InTransit(t)
    BY <1>4, TransitReceive
  <2>2. /\ UNCHANGED <<phase, peer>>
        /\ received' = IF peer[s] /\ Head(sink[s]).ping
                         THEN [received EXCEPT ![s] = Append(@, Head(sink[s]).task_id)]
                         ELSE received
    BY <1>4 DEF WriteReceived, streamVars
  <2>3. CASE t = s
    <3> DEFINE q == InTransit(s)
               q2 == Tail(q)
    <3>1. /\ q2 \in Seq(Message) /\ Len(q) \in Nat \ {0} /\ Len(q2) = Len(q) - 1
          /\ \A i \in 1 .. Len(q) - 1 : q2[i] = q[i + 1]
          /\ Head(q) = q[1]
      BY <1>0, <2>1, TailFacts
    <3>2. received'[s] = IF peer[s] /\ q[1].ping THEN Append(received[s], q[1].task_id)
                                                 ELSE received[s]
      BY <2>1, <2>2, <3>1 DEF TypeOK
    <3>3. /\ received'[s] = received[s]
               \/ (1 = 1 /\ q[1].ping /\ received'[s] = Append(received[s], q[1].task_id))
      BY <3>2
    <3>4. received'[s] \in Seq(Ids)
      BY <1>4, TypeNext DEF Next, StreamStep, TypeOK
    <3>5. Len(q2) + 1 <= Len(q) /\ \A i \in 1 .. Len(q2) : q2[i] = q[i + 1]
      BY <3>1
    <3>6. /\ TasksOf(received'[s], q2) \subseteq TasksOf(received[s], q)
          /\ Distinct(received[s], q) => Distinct(received'[s], q2)
      BY <1>0, <3>1, <3>3, <3>4, <3>5, TasksMove
    <3>7. peer[s] => TasksOf(received[s], q) \subseteq TasksOf(received'[s], q2)
      BY <1>0, <2>1, <3>2, TasksKept
    <3>8. QED
      BY <2>1, <2>2, <2>3, <3>6, <3>7 DEF Tasks
  <2>4. CASE t # s
    BY <2>1, <2>2, <2>4 DEF Tasks, TypeOK
  <2>5. QED
    BY <2>3, <2>4
<1>5. CASE ForwarderFails(s) \/ DropReceiver(s)
  <2>1. ~ peer[s] /\ UNCHANGED <<received, peer>> /\ phase'[s] # "new"
        /\ \A u \in Streams \ {s} : phase'[u] = phase[u] /\ InTransit(u)' = InTransit(u)
    BY <1>5 DEF ForwarderFails, DropReceiver, OpenIsServed, TypeOK, InTransit, transportVars
  <2>2. CASE t = s
    <3> DEFINE a == sink[s]
               b == chan[s]
               q == a \o b
    <3>1. /\ a \in Seq(Message) /\ b \in Seq(Message) /\ q \in Seq(Message)
          /\ Len(a) \in Nat /\ Len(b) \in Nat /\ Len(q) = Len(a) + Len(b)
          /\ \A i \in 1 .. Len(a) + Len(b) : q[i] = IF i <= Len(a) THEN a[i] ELSE b[i - Len(a)]
      BY ConcatProperties, LenProperties DEF TypeOK
    <3>2. ASSUME NEW q2 \in Seq(Message), NEW k \in Nat, Len(q2) + k <= Len(q),
                 \A i \in 1 .. Len(q2) : q2[i] = q[i + k]
          PROVE  /\ TasksOf(received[s], q2) \subseteq TasksOf(received[s], q)
                 /\ Distinct(received[s], q) => Distinct(received[s], q2)
      BY <1>0, <3>1, <3>2, TasksMove
    <3> HIDE DEF a, b, q
    <3>3. CASE ForwarderFails(s)
      <4>1. InTransit(s)' = <<>> \o b
        BY <3>3 DEF ForwarderFails, InTransit, TypeOK, b
      <4>2. <<>> \o b = b
        BY <3>1, ConcatEmptySeq
      <4>3. /\ Len(b) + Len(a) <= Len(q)
            /\ \A i \in 1 .. Len(b) : b[i] = q[i + Len(a)]
        <5>1. ASSUME NEW i \in 1 .. Len(b) PROVE b[i] = q[i + Len(a)]
          <6>1. i + Len(a) \in 1 .. Len(a) + Len(b) /\ ~ (i + Len(a) <= Len(a))
                /\ (i + Len(a)) - Len(a) = i
            BY <3>1
          <6>2. QED
            BY <3>1, <6>1
        <5>2. QED
          BY <3>1, <5>1
      <4>4. /\ TasksOf(received[s], b) \subseteq TasksOf(received[s], q)
            /\ Distinct(received[s], q) => Distinct(received[s], b)
        BY <3>1, <3>2, <4>3
      <4>5. QED
        BY <2>1, <2>2, <4>1, <4>2, <4>4 DEF Tasks, InTransit, a, b, q
    <3>4. CASE DropReceiver(s)
      <4>1. InTransit(s)' = a \o <<>>
        BY <3>4 DEF DropReceiver, InTransit, TypeOK, transportVars, a
      <4>2. a \o <<>> = a
        BY <3>1, ConcatEmptySeq
      <4>3. Len(a) + 0 <= Len(q) /\ \A i \in 1 .. Len(a) : a[i] = q[i + 0]
        BY <3>1
      <4>4. /\ TasksOf(received[s], a) \subseteq TasksOf(received[s], q)
            /\ Distinct(received[s], q) => Distinct(received[s], a)
        BY <3>1, <3>2, <4>3
      <4>5. QED
        BY <2>1, <2>2, <4>1, <4>2, <4>4 DEF Tasks, InTransit, a, b, q
    <3>5. QED
      BY <1>5, <3>3, <3>4
  <2>3. CASE t # s
    BY <2>1, <2>3 DEF Tasks
  <2>4. QED
    BY <2>2, <2>3
<1>6. QED
  BY <1>1, <1>2, <1>3, <1>4, <1>5 DEF StreamStep

(* A call other than one that sends leaves the tasks where they are. *)
LEMMA CallTasks ==
  ASSUME NEW c \in Calls, CallStep(c), ~ (DoTaskSend(c) /\ ReceiverExists(tx[c]))
  PROVE  UNCHANGED <<received, sink, chan, phase, peer>>
BY DEF CallStep, DoTaskWithoutPing, DoTaskByHostname, DoTaskByIndex, DoTaskLookup,
       DoTaskObtainId, DoTaskSend, DoTaskReply, streamVars, channelVars, transportVars

LEMMA TracedStream ==
  ASSUME TypeOK, OpenIsServed, TasksAreTraced, NEW s \in Streams, StreamStep(s)
  PROVE  TasksAreTraced'
<1>1. UNCHANGED <<pc, tx, task_id, ack, current_task_id>>
  BY StreamFrame DEF callVars
<1>2. ASSUME NEW t \in Streams
      PROVE  /\ Tasks(t)' \subseteq Tasks(t)
             /\ Distinct(received[t], InTransit(t)) => Distinct(received[t], InTransit(t))'
             /\ phase[t] # "new" => phase'[t] # "new"
             /\ phase[t] # "new" /\ peer'[t] => peer[t] /\ Tasks(t) \subseteq Tasks(t)'
  BY StreamTasks
<1>3. TaskIdsAreUnique'
  BY <1>1 DEF TasksAreTraced, TaskIdsAreUnique, Numbered
<1>4. CallsAreRegular'
  BY <1>1, <1>2 DEF TasksAreTraced, CallsAreRegular, Sent
<1>5. TasksAreDistinct'
  BY <1>2 DEF TasksAreTraced, TasksAreDistinct
<1>6. TasksWereSent'
  BY <1>1, <1>2 DEF TasksAreTraced, TasksWereSent, Sent
<1>7. SentAreKept'
  <2> SUFFICES ASSUME NEW c \in Calls, Sent(c), peer'[tx[c]]
               PROVE  task_id[c] \in Tasks(tx[c])'
    BY <1>1 DEF SentAreKept, Sent
  <2>1. PICK t \in Streams : t = tx[c] /\ phase[t] # "new" /\ peer'[t]
    BY DEF TasksAreTraced, CallsAreRegular
  <2>2. Tasks(t) \subseteq Tasks(t)' /\ task_id[c] \in Tasks(t)
    BY <1>2, <2>1 DEF TasksAreTraced, SentAreKept
  <2>3. QED
    BY <1>1, <2>1, <2>2
<1>8. QED
  BY <1>3, <1>4, <1>5, <1>6, <1>7 DEF TasksAreTraced

(* A call that obtains an id obtains a new one. *)
LEMMA NewTaskIdIsUnique ==
  ASSUME NoWrap, TypeOK, CallsAreRegular, TaskIdsAreUnique, NEW c \in Calls, DoTaskObtainId(c)
  PROVE  TaskIdsAreUnique'
<1> DEFINE n == Cardinality(Numbered)
<1>1. c \notin Numbered /\ Numbered' = Numbered \cup {c}
  BY DEF TypeOK, DoTaskObtainId, CallsAreRegular, Numbered
<1>2. IsFiniteSet(Numbered) /\ n \in Nat
  BY FS_Subset, FS_CardinalityType DEF NoWrap, Numbered
<1>3. Cardinality(Numbered') = n + 1
  BY <1>1, <1>2, FS_AddElement
<1>4. n + 1 < IdSpace
  <2>1. Cardinality(Numbered') <= Cardinality(Calls)
    BY <1>1, FS_Subset DEF NoWrap, Numbered
  <2>2. QED
    BY <1>2, <1>3, <2>1, FS_CardinalityType, ConstantsAssumption DEF NoWrap
<1>5. current_task_id' = n + 1 /\ task_id' = [task_id EXCEPT ![c] = n]
  BY <1>2, <1>4, ConstantsAssumption DEF DoTaskObtainId, Increment, TaskIdsAreUnique
<1>6. task_id'[c] = n /\ \A d \in Numbered : /\ task_id'[d] = task_id[d] /\ task_id[d] < n
                                             /\ task_id[d] \in Nat
  BY <1>1, <1>5, IdsFacts DEF TypeOK, TaskIdsAreUnique, Numbered
<1>7. QED
  BY <1>1, <1>2, <1>3, <1>5, <1>6 DEF TaskIdsAreUnique

(* The tasks of a stream are those of calls that have taken an id. *)
LEMMA TracedSend ==
  ASSUME TypeOK, TasksAreTraced, NEW c \in Calls, DoTaskSend(c), ReceiverExists(tx[c])
  PROVE  TasksAreTraced'
<1>1. PICK s \in Streams, m \in Message :
        /\ s = tx[c] /\ m = Ping(task_id[c]) /\ SendOn(s, c, m)
        /\ UNCHANGED <<phase, peer, sink, received>>
  BY TaskIsSent
<1>2. /\ m.ping /\ m.task_id = task_id[c] /\ pc[c] = "numbered"
      /\ pc' = [pc EXCEPT ![c] = "sending"] /\ UNCHANGED <<tx, task_id, ack, current_task_id>>
  BY <1>1 DEF Ping, DoTaskSend
<1>3. /\ InTransit(s)' = Append(InTransit(s), m)
      /\ \A t \in Streams \ {s} : InTransit(t)' = InTransit(t)
  BY <1>1, TransitSend
<1>4. received[s] \in Seq(Ids) /\ InTransit(s) \in Seq(Message)
  BY TransitType DEF TypeOK
<1>5. /\ c \in Numbered /\ Numbered' = Numbered /\ ~ Sent(c) /\ Sent(c)'
      /\ \A d \in Calls : Sent(d) => d \in Numbered /\ d # c
      /\ \A d \in Calls \ {c} : Sent(d)' = Sent(d)
  BY <1>2 DEF TypeOK, TasksAreTraced, CallsAreRegular, Numbered, Sent
<1>6. \A t \in Streams : task_id[c] \notin Tasks(t)
  BY <1>5 DEF TasksAreTraced, TasksWereSent, TaskIdsAreUnique
<1>7. /\ Tasks(s)' = Tasks(s) \cup {task_id[c]}
      /\ Distinct(received[s], InTransit(s)) => Distinct(received[s], InTransit(s))'
  BY <1>1, <1>2, <1>3, <1>4, <1>6, TasksAdd DEF Tasks
<1>8. ASSUME NEW t \in Streams, t # s
      PROVE  /\ Tasks(t)' = Tasks(t)
             /\ Distinct(received[t], InTransit(t)) => Distinct(received[t], InTransit(t))'
  BY <1>1, <1>3, <1>8 DEF Tasks
<1>9. TaskIdsAreUnique'
  BY <1>2, <1>5 DEF TasksAreTraced, TaskIdsAreUnique
<1>10. CallsAreRegular'
  BY <1>1, <1>2, <1>5 DEF TypeOK, TasksAreTraced, CallsAreRegular
<1>11. TasksAreDistinct'
  BY <1>7, <1>8 DEF TasksAreTraced, TasksAreDistinct
<1>12. TasksWereSent'
  <2>1. ASSUME NEW t \in Streams, NEW n \in Tasks(t)
        PROVE  \E d \in Calls : Sent(d)' /\ tx'[d] = t /\ task_id'[d] = n
    BY <1>2, <1>5 DEF TasksAreTraced, TasksWereSent
  <2>2. Sent(c)' /\ tx'[c] = s /\ task_id'[c] = task_id[c]
    BY <1>1, <1>2, <1>5
  <2>3. QED
    BY <1>7, <1>8, <2>1, <2>2 DEF TasksWereSent
<1>13. SentAreKept'
  <2>1. \A t \in Streams : Tasks(t) \subseteq Tasks(t)'
    BY <1>7, <1>8
  <2>2. ASSUME NEW d \in Calls, d # c, Sent(d)', peer'[tx'[d]]
        PROVE  task_id'[d] \in Tasks(tx[d])'
    <3>1. PICK t \in Streams : t = tx[d]
      BY <1>5, <2>2 DEF TasksAreTraced, CallsAreRegular
    <3>2. task_id[d] \in Tasks(t)
      BY <1>1, <1>2, <1>5, <2>2, <3>1 DEF TasksAreTraced, SentAreKept
    <3>3. QED
      BY <1>2, <2>1, <3>1, <3>2
  <2>3. task_id'[c] \in Tasks(tx[c])'
    <3>1. PICK t \in Streams : t = tx[c] /\ t = s
      BY <1>1
    <3>2. task_id[c] \in Tasks(t)'
      BY <1>7, <3>1
    <3>3. QED
      BY <1>2, <3>1, <3>2
  <2>4. QED
    BY <2>2, <2>3 DEF SentAreKept
<1>14. QED
  BY <1>9, <1>10, <1>11, <1>12, <1>13 DEF TasksAreTraced

(* A call that neither enqueues nor loses a task. *)
LEMMA TracedQuietCall ==
  ASSUME TypeOK, TasksAreTraced, NEW c \in Calls, UNCHANGED <<received, sink, chan, phase, peer>>,
         TaskIdsAreUnique', CallsAreRegular',
         \A d \in Calls : /\ Sent(d)' <=> Sent(d)
                          /\ Sent(d) => tx'[d] = tx[d] /\ task_id'[d] = task_id[d]
  PROVE  TasksAreTraced'
<1>1. \A t \in Streams : /\ Tasks(t)' = Tasks(t)
                         /\ Distinct(received[t], InTransit(t))' = Distinct(received[t], InTransit(t))
  BY DEF Tasks, InTransit
<1>2. TasksAreDistinct' /\ TasksWereSent'
  BY <1>1 DEF TasksAreTraced, TasksAreDistinct, TasksWereSent
<1>3. ASSUME NEW d \in Calls, Sent(d)', peer'[tx'[d]] PROVE task_id'[d] \in Tasks(tx[d])'
  <2>1. PICK t \in Streams : t = tx[d] /\ tx'[d] = tx[d] /\ task_id'[d] = task_id[d]
    BY <1>3 DEF TasksAreTraced, CallsAreRegular
  <2>2. task_id[d] \in Tasks(t)
    BY <1>3, <2>1 DEF TasksAreTraced, SentAreKept
  <2>3. QED
    BY <1>1, <2>1, <2>2
<1>4. QED
  BY <1>2, <1>3 DEF TasksAreTraced, SentAreKept

LEMMA TracedCall ==
  ASSUME NoWrap, TypeOK, EntriesAreServing, TasksAreTraced,
         NEW c \in Calls, CallStep(c), ~ (DoTaskSend(c) /\ ReceiverExists(tx[c]))
  PROVE  TasksAreTraced'
<1> USE DEF TypeOK, TasksAreTraced
<1>1. UNCHANGED <<received, sink, chan, phase, peer>>
  BY CallTasks
<1>2. ASSUME NEW found \in SUBSET Streams, \A s \in found : phase[s] # "new",
             DoTaskLookup(c, found)
      PROVE  TasksAreTraced'
  <2>1. CallsAreRegular'
    <3>1. CASE found = {}
      BY <1>1, <1>2, <3>1 DEF DoTaskLookup, Reply, CallsAreRegular, Sent
    <3>2. CASE found # {}
      <4>1. PICK s \in found : tx' = [tx EXCEPT ![c] = s]
        BY <1>2, <3>2 DEF DoTaskLookup
      <4>2. QED
        BY <1>1, <1>2, <3>2, <4>1 DEF DoTaskLookup, CallsAreRegular, Sent
    <3>3. QED
      BY <3>1, <3>2
  <2>2. Numbered' = Numbered /\ UNCHANGED <<task_id, current_task_id>>
    BY <1>2 DEF DoTaskLookup, Reply, CallsAreRegular, Numbered
  <2>3. TaskIdsAreUnique'
    BY <2>2 DEF TaskIdsAreUnique
  <2>4. \A d \in Calls : /\ Sent(d)' <=> Sent(d)
                         /\ Sent(d) => tx'[d] = tx[d] /\ task_id'[d] = task_id[d]
    BY <1>2 DEF DoTaskLookup, Reply, CallsAreRegular, Sent
  <2>5. QED
    BY <1>1, <2>1, <2>3, <2>4, TracedQuietCall
<1>3. CASE DoTaskObtainId(c)
  <2>1. TaskIdsAreUnique'
    BY <1>3, NewTaskIdIsUnique
  <2>2. CallsAreRegular'
    BY <1>1, <1>3 DEF DoTaskObtainId, CallsAreRegular, Sent
  <2>3. \A d \in Calls : /\ Sent(d)' <=> Sent(d)
                         /\ Sent(d) => tx'[d] = tx[d] /\ task_id'[d] = task_id[d]
    BY <1>3 DEF DoTaskObtainId, CallsAreRegular, Sent
  <2>4. QED
    BY <1>1, <2>1, <2>2, <2>3, TracedQuietCall
<1>4. CASE \/ DoTaskWithoutPing(c) \/ DoTaskReply(c)
           \/ DoTaskSend(c) /\ ~ ReceiverExists(tx[c])
  <2>1. UNCHANGED <<tx, task_id, current_task_id>>
    BY <1>4 DEF DoTaskWithoutPing, DoTaskReply, DoTaskSend
  <2>2. Numbered' = Numbered /\ \A d \in Calls : Sent(d)' <=> Sent(d)
    BY <1>4 DEF DoTaskWithoutPing, DoTaskReply, DoTaskSend, Reply, CallsAreRegular, Numbered, Sent
  <2>3. CallsAreRegular'
    BY <1>1, <1>4, <2>1, <2>2
       DEF DoTaskWithoutPing, DoTaskReply, DoTaskSend, Reply, CallsAreRegular, Sent
  <2>4. TaskIdsAreUnique'
    BY <2>1, <2>2 DEF TaskIdsAreUnique
  <2>5. QED
    BY <1>1, <2>1, <2>2, <2>3, <2>4, TracedQuietCall
<1>5. ASSUME NEW h \in Hostnames, DoTaskByHostname(c, h) PROVE TasksAreTraced'
  <2>1. ASSUME NEW s \in ClientTxByHostname(h) PROVE phase[s] # "new"
    <3>1. PICK i \in Ids : connections[i] = s /\ s # NoStream
      BY ConstantsAssumption DEF ClientTxByHostname
    <3>2. QED
      BY <3>1 DEF EntriesAreServing
  <2>2. QED
    BY <1>2, <1>5, <2>1, LookupFindsStreams DEF DoTaskByHostname
<1>6. ASSUME NEW i \in Ids, DoTaskByIndex(c, i) PROVE TasksAreTraced'
  <2>1. \A s \in ClientTxByIdx(i) : phase[s] # "new"
    BY DEF ClientTxByIdx, EntriesAreServing
  <2>2. QED
    BY <1>2, <1>6, <2>1, LookupFindsStreams DEF DoTaskByIndex
<1>7. QED
  BY <1>3, <1>4, <1>5, <1>6 DEF CallStep

LEMMA TracedNext ==
  ASSUME NoWrap
  PROVE  TypeOK /\ EntriesAreServing /\ OpenIsServed /\ TasksAreTraced /\ [Next]_vars
           => TasksAreTraced'
<1> SUFFICES ASSUME TypeOK, EntriesAreServing, OpenIsServed, TasksAreTraced, [Next]_vars
             PROVE  TasksAreTraced'
  OBVIOUS
<1>1. CASE UNCHANGED vars
  BY <1>1 DEF vars, streamVars, transportVars, channelVars, callVars, TasksAreTraced,
              TaskIdsAreUnique, Numbered, CallsAreRegular, Sent, TasksAreDistinct,
              TasksWereSent, SentAreKept, Tasks, InTransit
<1>2. QED
  BY <1>1, TracedStream, TracedSend, TracedCall DEF Next, CallStep, Quiescent

(* What NoTaskTwice and AckTellsTheTruth say of places, in terms of tasks. *)
LEMMA PlacesAreTasks ==
  ASSUME NEW s \in Streams
  PROVE  /\ Tasks(s) = {TaskAt(s, p) : p \in Places(s)}
         /\ Distinct(received[s], InTransit(s))
              => \A p1, p2 \in Places(s) : TaskAt(s, p1) = TaskAt(s, p2) => p1 = p2
<1>1. ASSUME NEW p \in Places(s)
      PROVE  \/ \E i \in 1 .. Len(received[s]) :
                  p = <<"received", i>> /\ TaskAt(s, p) = received[s][i]
             \/ \E i \in Pings(InTransit(s)) :
                  p = <<"in transit", i>> /\ TaskAt(s, p) = InTransit(s)[i].task_id
  <2>1. CASE \E i \in 1 .. Len(received[s]) : p = <<"received", i>>
    BY <2>1 DEF TaskAt
  <2>2. CASE \E i \in Pings(InTransit(s)) : p = <<"in transit", i>>
    <3>1. PICK i \in Pings(InTransit(s)) : p = <<"in transit", i>>
      BY <2>2
    <3>2. p[1] = "in transit" /\ p[2] = i /\ p[1] # "received"
      BY <3>1
    <3>3. TaskAt(s, p) = InTransit(s)[p[2]].task_id
      BY <3>2 DEF TaskAt
    <3>4. QED
      BY <3>1, <3>2, <3>3
  <2>3. QED
    BY <1>1, <2>1, <2>2, Zenon DEF Places, Pings
<1>2. ASSUME NEW i \in 1 .. Len(received[s])
      PROVE  <<"received", i>> \in Places(s) /\ TaskAt(s, <<"received", i>>) = received[s][i]
  BY DEF Places, TaskAt
<1>3. ASSUME NEW i \in Pings(InTransit(s))
      PROVE  /\ <<"in transit", i>> \in Places(s)
             /\ TaskAt(s, <<"in transit", i>>) = InTransit(s)[i].task_id
  BY DEF Places, TaskAt, Pings
<1>4. Tasks(s) = {TaskAt(s, p) : p \in Places(s)}
  <2>1. ASSUME NEW n \in Tasks(s) PROVE n \in {TaskAt(s, p) : p \in Places(s)}
    <3>1. CASE \E i \in 1 .. Len(received[s]) : n = received[s][i]
      BY <1>2, <3>1
    <3>2. CASE \E i \in Pings(InTransit(s)) : n = InTransit(s)[i].task_id
      BY <1>3, <3>2
    <3>3. QED
      BY <2>1, <3>1, <3>2 DEF Tasks, TasksOf
  <2>2. ASSUME NEW p \in Places(s) PROVE TaskAt(s, p) \in Tasks(s)
    BY <1>1, <2>2 DEF Tasks, TasksOf
  <2>3. QED
    BY <2>1, <2>2
<1>5. ASSUME Distinct(received[s], InTransit(s)), NEW p1 \in Places(s), NEW p2 \in Places(s),
             TaskAt(s, p1) = TaskAt(s, p2)
      PROVE  p1 = p2
  BY <1>1, <1>5 DEF Distinct
<1>6. QED
  BY <1>4, <1>5

(* While the task ids do not wrap around, no task is with two clients or     *)
(* twice with one: whatever is on its way to a client, or was received, was  *)
(* sent by a call of its own, and messages are only moved or lost.           *)
THEOREM NoTaskIsDoubled ==
  ASSUME NoWrap PROVE Spec => []NoTaskTwice
<1>1. TasksAreTraced => NoTaskTwice
  <2> SUFFICES ASSUME TasksAreTraced,
                      NEW s1 \in Streams, NEW s2 \in Streams,
                      NEW p1 \in Places(s1), NEW p2 \in Places(s2),
                      TaskAt(s1, p1) = TaskAt(s2, p2)
               PROVE  s1 = s2 /\ p1 = p2
    BY DEF NoTaskTwice
  <2>1. TaskAt(s1, p1) \in Tasks(s1) /\ TaskAt(s1, p1) \in Tasks(s2)
    BY PlacesAreTasks
  <2>2. PICK c \in Calls, d \in Calls :
          /\ Sent(c) /\ tx[c] = s1 /\ task_id[c] = TaskAt(s1, p1)
          /\ Sent(d) /\ tx[d] = s2 /\ task_id[d] = TaskAt(s1, p1)
    BY <2>1 DEF TasksAreTraced, TasksWereSent
  <2>3. c = d
    BY <2>2 DEF TasksAreTraced, TaskIdsAreUnique, Numbered, Sent
  <2>4. s1 = s2
    BY <2>2, <2>3
  <2>5. p1 = p2
    BY <2>4, PlacesAreTasks DEF TasksAreTraced, TasksAreDistinct
  <2>6. QED
    BY <2>4, <2>5
<1>2. TypeOK /\ EntriesAreServing /\ OpenIsServed /\ TasksAreTraced /\ [Next]_vars
        => TasksAreTraced'
  BY TracedNext
<1>3. QED
  BY <1>1, <1>2, OrderInit, OpenNext, EntriesInit, EntriesNext, TracedInit, TypeCorrect, PTL
     DEF Spec

(* While the task ids do not wrap around, a task acknowledged with success   *)
(* is on its way to its client or was received, as long as the client        *)
(* exists, and one acknowledged with failure is with nobody.                 *)
THEOREM AcksAreTrue ==
  ASSUME NoWrap PROVE Spec => []AckTellsTheTruth
<1>1. TypeOK /\ TasksAreTraced => AckTellsTheTruth
  <2> SUFFICES ASSUME TypeOK, TasksAreTraced PROVE AckTellsTheTruth
    OBVIOUS
  <2>1. ASSUME NEW c \in Calls, ack[c] = "success", peer[tx[c]]
        PROVE  \E p \in Places(tx[c]) : TaskAt(tx[c], p) = task_id[c]
    <3>1. tx[c] \in Streams /\ task_id[c] \in Tasks(tx[c])
      BY <2>1 DEF TasksAreTraced, CallsAreRegular, SentAreKept, Sent
    <3>2. QED
      BY <3>1, PlacesAreTasks
  <2>2. ASSUME NEW c \in Calls, ack[c] = "unable", NEW s \in Streams, NEW p \in Places(s),
               TaskAt(s, p) = task_id[c]
        PROVE  FALSE
    <3>1. task_id[c] \in Tasks(s)
      BY <2>2, PlacesAreTasks
    <3>2. PICK d \in Calls : Sent(d) /\ task_id[d] = task_id[c]
      BY <3>1 DEF TasksAreTraced, TasksWereSent
    <3>3. d = c
      BY <2>2, <3>2 DEF TasksAreTraced, TaskIdsAreUnique, Numbered, Sent
    <3>4. QED
      BY <2>2, <3>2, <3>3 DEF TypeOK, TasksAreTraced, CallsAreRegular, Sent
  <2>3. QED
    BY <2>1, <2>2 DEF AckTellsTheTruth
<1>2. TypeOK /\ EntriesAreServing /\ OpenIsServed /\ TasksAreTraced /\ [Next]_vars
        => TasksAreTraced'
  BY TracedNext
<1>3. QED
  BY <1>1, <1>2, OrderInit, OpenNext, EntriesInit, EntriesNext, TracedInit, TypeCorrect, PTL
     DEF Spec

=============================================================================
