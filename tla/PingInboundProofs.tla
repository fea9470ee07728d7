-------------------------- MODULE PingInboundProofs --------------------------
(***************************************************************************)
(* Theorems about PingInbound, for every set of packets, every greatest    *)
(* task id and every size of the channel.                                  *)
(***************************************************************************)
EXTENDS PingInbound, SequenceFacts

TaskResults == [task : TaskIds, client : BOOLEAN, list : Seq(Packets)]

Sent == [wake : Nat, task : TaskIds, client : BOOLEAN, list : Seq(Packets)]

TypeOK ==
  /\ task_id \in [Packets -> TaskIds \cup {NoPayload}]
  /\ socket \in Seq(Packets) /\ arrived \in Seq(Packets)
  /\ chan \in Seq(Packets) /\ result_queue \in Seq(Packets)
  /\ transmitter \in {"new", "sleeping", "grouping", "ended"}
  /\ rq \in Seq(Packets)
  /\ tr \in TaskResults
  /\ transmitted \in Seq(Packets)
  /\ failed \in SUBSET Packets
  /\ wakes \in Nat
  /\ batches \in Seq(Sent)

-----------------------------------------------------------------------------
(* What sequences of packets contain. *)
LEMMA Contents ==
  ASSUME NEW s \in Seq(Packets)
  PROVE  /\ ToSet(s) \subseteq Packets
         /\ \A p : p \in ToSet(s) <=> \E k \in 1 .. Len(s) : s[k] = p
         /\ ToSet(s) = {} <=> s = <<>>
<1>1. DOMAIN s = 1 .. Len(s) /\ Len(s) \in Nat /\ \A k \in 1 .. Len(s) : s[k] \in Packets
  BY LenProperties, ElementOfSeq
<1>2. s # <<>> => 1 \in 1 .. Len(s)
  BY EmptySeq
<1>3. s = <<>> => ToSet(s) = {}
  BY EmptySeq, <1>1 DEF ToSet
<1>4. QED
  BY <1>1, <1>2, <1>3 DEF ToSet

LEMMA ContentsOfConcat ==
  ASSUME NEW s \in Seq(Packets), NEW u \in Seq(Packets)
  PROVE  ToSet(s \o u) = ToSet(s) \cup ToSet(u)
<1> DEFINE c == s \o u
<1>1. /\ c \in Seq(Packets) /\ Len(s) \in Nat /\ Len(u) \in Nat /\ Len(c) = Len(s) + Len(u)
      /\ \A i \in 1 .. Len(s) + Len(u) : c[i] = IF i <= Len(s) THEN s[i] ELSE u[i - Len(s)]
  BY ConcatProperties, LenProperties
<1> HIDE DEF c
<1>2. \A i \in 1 .. Len(s) : i \in 1 .. Len(c) /\ c[i] = s[i]
  BY <1>1
<1>3. ASSUME NEW i \in 1 .. Len(u)
      PROVE  Len(s) + i \in 1 .. Len(c) /\ c[Len(s) + i] = u[i]
  <2>1. /\ Len(s) + i \in 1 .. Len(s) + Len(u) /\ ~ (Len(s) + i <= Len(s))
        /\ (Len(s) + i) - Len(s) = i
    BY <1>1
  <2>2. QED
    BY <1>1, <2>1
<1>4. \A i \in 1 .. Len(c) : \/ i \in 1 .. Len(s) /\ c[i] = s[i]
                             \/ i - Len(s) \in 1 .. Len(u) /\ c[i] = u[i - Len(s)]
  BY <1>1
<1>5. /\ \A p : p \in ToSet(c) <=> \E k \in 1 .. Len(c) : c[k] = p
      /\ \A p : p \in ToSet(s) <=> \E k \in 1 .. Len(s) : s[k] = p
      /\ \A p : p \in ToSet(u) <=> \E k \in 1 .. Len(u) : u[k] = p
  BY <1>1, Contents
<1>6. ASSUME NEW p \in ToSet(c) PROVE p \in ToSet(s) \/ p \in ToSet(u)
  <2>1. PICK i \in 1 .. Len(c) : c[i] = p
    BY <1>5
  <2>2. QED
    BY <1>4, <1>5, <2>1
<1>7. ASSUME NEW p \in ToSet(s) PROVE p \in ToSet(c)
  BY <1>2, <1>5
<1>8. ASSUME NEW p \in ToSet(u) PROVE p \in ToSet(c)
  BY <1>3, <1>5
<1>9. QED
  BY <1>6, <1>7, <1>8 DEF c

LEMMA ContentsOfOne ==
  ASSUME NEW p \in Packets
  PROVE  <<p>> \in Seq(Packets) /\ Len(<<p>>) = 1 /\ <<p>>[1] = p /\ ToSet(<<p>>) = {p}
BY DEF ToSet

LEMMA ContentsOfAppend ==
  ASSUME NEW s \in Seq(Packets), NEW p \in Packets
  PROVE  /\ Append(s, p) \in Seq(Packets)
         /\ ToSet(Append(s, p)) = ToSet(s) \cup {p}
<1>1. <<p>> \in Seq(Packets) /\ ToSet(<<p>>) = {p}
  BY ContentsOfOne
<1>2. Append(s, p) \in Seq(Packets) /\ Append(s, p) = s \o <<p>>
  BY AppendIsConcat, AppendProperties
<1>3. ToSet(s \o <<p>>) = ToSet(s) \cup ToSet(<<p>>)
  BY <1>1, ContentsOfConcat
<1>4. QED
  BY <1>1, <1>2, <1>3

LEMMA ContentsOfTail ==
  ASSUME NEW s \in Seq(Packets), s # <<>>
  PROVE  /\ Tail(s) \in Seq(Packets) /\ Head(s) \in Packets
         /\ ToSet(s) = ToSet(Tail(s)) \cup {Head(s)}
<1>1. Tail(s) \in Seq(Packets) /\ Head(s) \in Packets
  BY HeadTailProperties
<1>2. <<>> \in Seq(Packets) /\ ToSet(<<>>) = {}
  BY EmptySeq, Contents
<1>3. Append(<<>>, Head(s)) \o Tail(s) = <<>> \o s /\ <<>> \o s = s
  BY <1>2, MoveHead, ConcatEmptySeq
<1>4. Append(<<>>, Head(s)) \in Seq(Packets)
      /\ ToSet(Append(<<>>, Head(s))) = ToSet(<<>>) \cup {Head(s)}
  BY <1>1, <1>2, ContentsOfAppend
<1>5. ToSet(Append(<<>>, Head(s)) \o Tail(s)) = ToSet(Append(<<>>, Head(s))) \cup ToSet(Tail(s))
  BY <1>1, <1>4, ContentsOfConcat
<1>6. QED
  BY <1>1, <1>2, <1>3, <1>4, <1>5

-----------------------------------------------------------------------------
(***************************************************************************)
(* Order.  Two packets are in place, one before the other, if they differ  *)
(* and the later one, if it is of the same task, came later.               *)
(***************************************************************************)
InPlace(p, q) == p # q /\ (task_id[p] = task_id[q] => CameBefore(p, q))

Ordered(s) == \A j, k \in 1 .. Len(s) : j < k => InPlace(s[j], s[k])
Precedes(s, u) == \A p \in ToSet(s), q \in ToSet(u) : InPlace(p, q)

LEMMA OrderedConcat ==
  ASSUME NEW s \in Seq(Packets), NEW u \in Seq(Packets)
  PROVE  Ordered(s \o u) <=> Ordered(s) /\ Ordered(u) /\ Precedes(s, u)
<1> DEFINE c == s \o u
<1>1. /\ c \in Seq(Packets) /\ Len(s) \in Nat /\ Len(u) \in Nat /\ Len(c) = Len(s) + Len(u)
      /\ \A i \in 1 .. Len(s) + Len(u) : c[i] = IF i <= Len(s) THEN s[i] ELSE u[i - Len(s)]
  BY ConcatProperties, LenProperties
<1> HIDE DEF c
<1>2. \A i \in 1 .. Len(s) : i \in 1 .. Len(c) /\ c[i] = s[i]
  BY <1>1
<1>3. ASSUME NEW i \in 1 .. Len(u)
      PROVE  Len(s) + i \in 1 .. Len(c) /\ c[Len(s) + i] = u[i]
  <2>1. /\ Len(s) + i \in 1 .. Len(s) + Len(u) /\ ~ (Len(s) + i <= Len(s))
        /\ (Len(s) + i) - Len(s) = i
    BY <1>1
  <2>2. QED
    BY <1>1, <2>1
<1>4. ASSUME Ordered(c) PROVE Ordered(s) /\ Ordered(u) /\ Precedes(s, u)
  <2>1. Ordered(s)
    BY <1>2, <1>4 DEF Ordered
  <2>2. ASSUME NEW j \in 1 .. Len(u), NEW k \in 1 .. Len(u), j < k PROVE InPlace(u[j], u[k])
    <3>1. Len(s) + j < Len(s) + k
      BY <1>1, <2>2
    <3>2. InPlace(c[Len(s) + j], c[Len(s) + k])
      BY <1>3, <1>4, <3>1 DEF Ordered
    <3>3. QED
      BY <1>3, <3>2
  <2>3. ASSUME NEW j \in 1 .. Len(s), NEW k \in 1 .. Len(u) PROVE InPlace(s[j], u[k])
    <3>1. j < Len(s) + k
      BY <1>1
    <3>2. InPlace(c[j], c[Len(s) + k])
      BY <1>2, <1>3, <1>4, <3>1 DEF Ordered
    <3>3. QED
      BY <1>2, <1>3, <3>2
  <2>4. Precedes(s, u)
    BY <2>3, Contents DEF Precedes
  <2>5. QED
    BY <2>1, <2>2, <2>4 DEF Ordered
<1>5. ASSUME Ordered(s), Ordered(u), Precedes(s, u),
             NEW j \in 1 .. Len(c), NEW k \in 1 .. Len(c), j < k
      PROVE  InPlace(c[j], c[k])
  <2>1. CASE k <= Len(s)
    <3>1. j \in 1 .. Len(s) /\ k \in 1 .. Len(s) /\ c[j] = s[j] /\ c[k] = s[k]
      BY <1>1, <1>5, <2>1
    <3>2. QED
      BY <1>5, <3>1 DEF Ordered
  <2>2. CASE j <= Len(s) /\ ~ (k <= Len(s))
    <3>1. j \in 1 .. Len(s) /\ k - Len(s) \in 1 .. Len(u) /\ c[j] = s[j] /\ c[k] = u[k - Len(s)]
      BY <1>1, <2>2
    <3>2. s[j] \in ToSet(s) /\ u[k - Len(s)] \in ToSet(u)
      BY <3>1, Contents
    <3>3. QED
      BY <1>5, <3>1, <3>2 DEF Precedes
  <2>3. CASE ~ (j <= Len(s)) /\ ~ (k <= Len(s))
    <3>1. /\ j - Len(s) \in 1 .. Len(u) /\ k - Len(s) \in 1 .. Len(u)
          /\ c[j] = u[j - Len(s)] /\ c[k] = u[k - Len(s)] /\ j - Len(s) < k - Len(s)
      BY <1>1, <1>5, <2>3
    <3>2. QED
      BY <1>5, <3>1 DEF Ordered
  <2>4. QED
    BY <1>1, <1>5, <2>1, <2>2, <2>3
<1>6. QED
  BY <1>4, <1>5 DEF Ordered, c

(* y is no worse than x: it has nothing that x has not, and is in order if x *)
(* is.                                                                       *)
Refines(y, x) == ToSet(y) \subseteq ToSet(x) /\ (Ordered(x) => Ordered(y))

LEMMA RefinesSecond ==
  ASSUME NEW s \in Seq(Packets), NEW x \in Seq(Packets), NEW y \in Seq(Packets), Refines(y, x)
  PROVE  Refines(s \o y, s \o x)
BY ContentsOfConcat, OrderedConcat DEF Refines, Precedes

LEMMA RefinesFirst ==
  ASSUME NEW s \in Seq(Packets), NEW x \in Seq(Packets), NEW y \in Seq(Packets), Refines(y, x)
  PROVE  Refines(y \o s, x \o s)
BY ContentsOfConcat, OrderedConcat DEF Refines, Precedes

LEMMA RefinesTail ==
  ASSUME NEW s \in Seq(Packets), s # <<>>
  PROVE  Refines(Tail(s), s)
<1>1. Tail(s) \in Seq(Packets) /\ ToSet(Tail(s)) \subseteq ToSet(s)
  BY ContentsOfTail
<1>2. /\ Len(s) \in Nat /\ Len(Tail(s)) = Len(s) - 1
      /\ \A i \in 1 .. Len(s) - 1 : Tail(s)[i] = s[i + 1]
  BY TailFacts
<1>3. ASSUME Ordered(s), NEW j \in 1 .. Len(s) - 1, NEW k \in 1 .. Len(s) - 1, j < k
      PROVE  InPlace(Tail(s)[j], Tail(s)[k])
  <2>1. j + 1 \in 1 .. Len(s) /\ k + 1 \in 1 .. Len(s) /\ j + 1 < k + 1
    BY <1>2, <1>3
  <2>2. InPlace(s[j + 1], s[k + 1])
    BY <1>3, <2>1 DEF Ordered
  <2>3. QED
    BY <1>2, <2>2
<1>4. QED
  BY <1>1, <1>2, <1>3 DEF Refines, Ordered

LEMMA RefinesEmpty ==
  ASSUME NEW s \in Seq(Packets)
  PROVE  Refines(<<>>, s)
<1>1. ToSet(<<>>) = {} /\ Len(<<>>) = 0
  BY Contents, EmptySeq
<1>2. QED
  BY <1>1 DEF Refines, Ordered

-----------------------------------------------------------------------------
(* The sort keeps the results, and the order of those of equal task id, and  *)
(* puts the task ids in ascending order.                                     *)
Ascending(s) == \A j, k \in 1 .. Len(s) : j < k => task_id[s[j]] <= task_id[s[k]]

LEMMA SortFacts ==
  ASSUME NEW r \in Seq(Packets), NEW s \in SortedByTask(r),
         \A p \in ToSet(r) : task_id[p] \in TaskIds
  PROVE  /\ s \in Seq(Packets) /\ ToSet(s) = ToSet(r)
         /\ Refines(s, r) /\ Ascending(s)
<1>1. DOMAIN r = 1 .. Len(r) /\ Len(r) \in Nat /\ \A k \in 1 .. Len(r) : r[k] \in Packets
  BY LenProperties, ElementOfSeq
<1>2. PICK o \in Bijection(1 .. Len(r), 1 .. Len(r)) : IsStable(r, o) /\ s = Sorted(r, o)
  BY <1>1 DEF SortedByTask
<1>3. /\ \A k \in 1 .. Len(r) : o[k] \in 1 .. Len(r)
      /\ \A j \in 1 .. Len(r) : \E k \in 1 .. Len(r) : o[k] = j
  BY <1>2 DEF Bijection, Injection, Surjection
<1>4. s = [k \in 1 .. Len(r) |-> r[o[k]]]
  BY <1>1, <1>2 DEF Sorted
<1>5. s \in Seq(Packets)
  <2>1. s \in [1 .. Len(r) -> Packets]
    BY <1>1, <1>3, <1>4
  <2>2. QED
    BY <1>1, <2>1
<1>6. Len(s) = Len(r) /\ \A k \in 1 .. Len(r) : s[k] = r[o[k]]
  BY <1>1, <1>4, <1>5
<1>7. ToSet(s) = ToSet(r)
  <2>1. /\ \A p : p \in ToSet(s) <=> \E k \in 1 .. Len(s) : s[k] = p
        /\ \A p : p \in ToSet(r) <=> \E k \in 1 .. Len(r) : r[k] = p
    BY <1>5, Contents
  <2>2. \A p \in ToSet(s) : p \in ToSet(r)
    BY <1>3, <1>6, <2>1
  <2>3. ASSUME NEW p \in ToSet(r) PROVE p \in ToSet(s)
    <3>1. PICK j \in 1 .. Len(r) : r[j] = p
      BY <2>1
    <3>2. PICK k \in 1 .. Len(r) : o[k] = j
      BY <1>3
    <3>3. k \in 1 .. Len(s) /\ s[k] = p
      BY <1>6, <3>1, <3>2
    <3>4. QED
      BY <2>1, <3>3
  <2>4. QED
    BY <2>2, <2>3
<1>8. \A k \in 1 .. Len(r) : task_id[r[k]] \in Nat
  BY Contents DEF TaskIds
<1>9. ASSUME NEW j \in 1 .. Len(r), NEW k \in 1 .. Len(r), j < k
      PROVE  /\ task_id[s[j]] <= task_id[s[k]]
             /\ Ordered(r) => InPlace(s[j], s[k])
  <2>1. \/ task_id[r[o[j]]] < task_id[r[o[k]]]
        \/ task_id[r[o[j]]] = task_id[r[o[k]]] /\ o[j] < o[k]
    BY <1>1, <1>2, <1>9 DEF IsStable
  <2>2. task_id[r[o[j]]] \in Nat /\ task_id[r[o[k]]] \in Nat
    BY <1>3, <1>8
  <2>3. CASE task_id[r[o[j]]] < task_id[r[o[k]]]
    <3>1. task_id[r[o[j]]] # task_id[r[o[k]]] /\ r[o[j]] # r[o[k]]
      BY <2>2, <2>3
    <3>2. QED
      BY <1>6, <2>2, <2>3, <3>1 DEF InPlace
  <2>4. CASE task_id[r[o[j]]] = task_id[r[o[k]]] /\ o[j] < o[k]
    <3>1. o[j] \in 1 .. Len(r) /\ o[k] \in 1 .. Len(r) /\ s[j] = r[o[j]] /\ s[k] = r[o[k]]
      BY <1>3, <1>6
    <3>2. Ordered(r) => InPlace(r[o[j]], r[o[k]])
      BY <2>4, <3>1 DEF Ordered
    <3>3. task_id[s[j]] <= task_id[s[k]]
      BY <2>2, <2>4, <3>1
    <3>4. QED
      BY <3>1, <3>2, <3>3
  <2>5. QED
    BY <2>1, <2>3, <2>4
<1>10. QED
  BY <1>5, <1>6, <1>7, <1>9 DEF Refines, Ordered, Ascending

-----------------------------------------------------------------------------
(* What every result that is collected has, and when nothing is grouped.     *)
QueuedHaveTasks ==
  \A p \in ToSet(rq) \cup ToSet(result_queue) : task_id[p] \in TaskIds

AsleepIsEmpty ==
  /\ main = "new" => transmitter = "new"
  /\ transmitter # "grouping" => rq = <<>> /\ tr.list = <<>>

Inv == TypeOK /\ QueuedHaveTasks /\ AsleepIsEmpty

LEMMA InvInit == Init => Inv
<1> SUFFICES ASSUME Init PROVE Inv
  OBVIOUS
<1>1. <<>> \in Seq(Packets) /\ ToSet(<<>>) = {}
  BY EmptySeq, Contents
<1>2. EmptyTaskResult \in TaskResults /\ EmptyTaskResult.list = <<>>
  BY <1>1, ConstantsAssumption DEF EmptyTaskResult, TaskResults, TaskIds
<1>3. TypeOK
  BY <1>1, <1>2 DEF Init, TypeOK
<1>4. QED
  BY <1>1, <1>2, <1>3 DEF Init, Inv, QueuedHaveTasks, AsleepIsEmpty

(* The steps that the pipeline takes no part in. *)
pipeVars ==
  <<task_id, socket, arrived, chan, result_queue, transmitter, rq, tr, batches, transmitted,
    failed, wakes>>

LEMMA QuietSteps ==
  ASSUME ReceiverEnds \/ ReceiveFails \/ ProcessorEnds \/ ShutdownSocket \/ ClosePoison
           \/ JoinThreads \/ Exited
  PROVE  UNCHANGED pipeVars /\ (main' = "new" => main = "new")
BY DEF ReceiverEnds, ReceiveFails, ProcessorEnds, ShutdownSocket, ClosePoison, JoinThreads, Exited,
       vars, socketVars, receiverVars, senderVars, pipeVars

LEMMA WaitSteps ==
  ASSUME Start \/ TransmitterEnds \/ Sleep
  PROVE  /\ UNCHANGED <<task_id, socket, arrived, chan, result_queue, rq, tr, batches, transmitted,
                        failed, wakes>>
         /\ transmitter' \in {"sleeping", "ended"} /\ (Start => main' # "new") /\ (~ Start => main' = main)
         /\ Start => main = "new"
         /\ TransmitterEnds => transmitter = "sleeping"
         /\ Sleep => rq = <<>> /\ tr.list = <<>> /\ transmitter = "grouping"
<1>1. CASE Start
  BY <1>1 DEF Start, TransmitterEnds, Sleep, socketVars
<1>2. CASE ~ Start
  BY <1>2 DEF TransmitterEnds, Sleep, socketVars, receiverVars
<1>3. QED
  BY <1>1, <1>2

LEMMA InvNext == Inv /\ [Next]_vars => Inv'
<1> SUFFICES ASSUME Inv, [Next]_vars PROVE Inv'
  OBVIOUS
<1> USE DEF socketVars, receiverVars, senderVars
<1>0. TypeOK /\ QueuedHaveTasks /\ AsleepIsEmpty
  BY DEF Inv
<1>1. CASE UNCHANGED pipeVars /\ (main' = "new" => main = "new")
  BY <1>0, <1>1 DEF pipeVars, Inv, TypeOK, QueuedHaveTasks, AsleepIsEmpty
<1>2. ASSUME NEW p \in Packets, Arrive(p) PROVE Inv'
  BY <1>0, <1>2, AppendProperties DEF Arrive, Inv, TypeOK, QueuedHaveTasks, AsleepIsEmpty
<1>3. CASE Receive
  <2>1. Tail(socket) \in Seq(Packets) /\ Append(chan, Head(socket)) \in Seq(Packets)
    BY <1>0, <1>3, HeadTailProperties, AppendProperties DEF Receive, TypeOK
  <2>2. QED
    BY <1>0, <1>3, <2>1 DEF Receive, Channel!Enqueue, Inv, TypeOK, QueuedHaveTasks, AsleepIsEmpty
<1>4. CASE Process
  <2>1. chan \in Seq(Packets) /\ chan # <<>> /\ result_queue \in Seq(Packets)
    BY <1>0, <1>4 DEF Process, TypeOK
  <2>2. Tail(chan) \in Seq(Packets) /\ Head(chan) \in Packets
    BY <2>1, HeadTailProperties
  <2>3. /\ Append(result_queue, Head(chan)) \in Seq(Packets)
        /\ ToSet(Append(result_queue, Head(chan))) = ToSet(result_queue) \cup {Head(chan)}
    BY <2>1, <2>2, ContentsOfAppend
  <2>4. task_id[Head(chan)] # NoPayload => task_id[Head(chan)] \in TaskIds
    BY <1>0, <2>2 DEF TypeOK
  <2>5. TypeOK'
    BY <1>0, <1>4, <2>2, <2>3 DEF Process, TypeOK
  <2>6. QueuedHaveTasks' /\ AsleepIsEmpty'
    BY <1>0, <1>4, <2>3, <2>4 DEF Process, QueuedHaveTasks, AsleepIsEmpty
  <2>7. QED
    BY <2>5, <2>6 DEF Inv
<1>5. CASE Wake
  <2>1. /\ rq' \in Seq(Packets) /\ ToSet(rq') = ToSet(result_queue)
        /\ result_queue' = <<>> /\ result_queue \in Seq(Packets)
    BY <1>0, <1>5, SortFacts DEF Wake, TypeOK, QueuedHaveTasks
  <2>2. <<>> \in Seq(Packets) /\ ToSet(<<>>) = {} /\ EmptyTaskResult \in TaskResults
    <3>1. <<>> \in Seq(Packets) /\ ToSet(<<>>) = {}
      BY EmptySeq, Contents
    <3>2. MaxTask \in TaskIds
      BY ConstantsAssumption DEF TaskIds
    <3>3. QED
      BY <3>1, <3>2 DEF EmptyTaskResult, TaskResults
  <2>3. TypeOK'
    BY <1>0, <1>5, <2>1, <2>2 DEF Wake, TypeOK
  <2>4. QueuedHaveTasks' /\ AsleepIsEmpty'
    BY <1>0, <1>5, <2>1, <2>2 DEF Wake, QueuedHaveTasks, AsleepIsEmpty
  <2>5. QED
    BY <2>3, <2>4 DEF Inv
<1>6. CASE AddToTaskResult \/ StartTaskResult
  <2>1. /\ rq \in Seq(Packets) /\ rq # <<>> /\ transmitter = "grouping" /\ tr.list \in Seq(Packets)
        /\ rq' = Tail(rq) /\ transmitter' = transmitter /\ main' = main
        /\ UNCHANGED <<task_id, socket, arrived, chan, result_queue, batches, transmitted,
                       failed, wakes>>
    BY <1>0, <1>6 DEF AddToTaskResult, StartTaskResult, Fits, TypeOK, TaskResults
  <2>2. /\ Tail(rq) \in Seq(Packets) /\ Head(rq) \in Packets
        /\ ToSet(Tail(rq)) \subseteq ToSet(rq) /\ Head(rq) \in ToSet(rq)
    BY <2>1, ContentsOfTail
  <2>3. Append(tr.list, Head(rq)) \in Seq(Packets) /\ <<Head(rq)>> \in Seq(Packets)
    BY <2>1, <2>2, ContentsOfAppend, ContentsOfOne
  <2>4. task_id[Head(rq)] \in TaskIds
    BY <1>0, <2>2 DEF QueuedHaveTasks
  <2>5. tr' \in TaskResults
    <3>1. CASE AddToTaskResult
      BY <1>0, <2>3, <3>1 DEF AddToTaskResult, TypeOK, TaskResults
    <3>2. CASE StartTaskResult
      BY <2>3, <2>4, <3>2 DEF StartTaskResult, NewTaskResult, TaskResults
    <3>3. QED
      BY <1>6, <3>1, <3>2
  <2>6. TypeOK'
    BY <1>0, <2>1, <2>2, <2>5 DEF TypeOK
  <2>7. QueuedHaveTasks' /\ AsleepIsEmpty'
    BY <1>0, <2>1, <2>2 DEF QueuedHaveTasks, AsleepIsEmpty
  <2>8. QED
    BY <2>6, <2>7 DEF Inv
<1>7. ASSUME NEW success \in BOOLEAN, Transmit(success) PROVE Inv'
  <2>1. tr \in TaskResults /\ tr.list \in Seq(Packets) /\ <<>> \in Seq(Packets)
    BY <1>0, EmptySeq DEF TypeOK, TaskResults
  <2>2. tr' \in TaskResults /\ tr'.list = <<>>
    BY <1>7, <2>1 DEF Transmit, TaskResults
  <2>3. transmitted \o tr.list \in Seq(Packets) /\ ToSet(tr.list) \subseteq Packets
    BY <1>0, <2>1, ConcatProperties, Contents DEF TypeOK
  <2>4. [wake |-> wakes, task |-> tr.task, client |-> tr.client, list |-> tr.list]
          \in Sent
    BY <1>0, <2>1 DEF TypeOK, TaskResults, Sent
  <2>5. batches' \in Seq(Sent)
    <3>1. \/ batches' = batches
          \/ batches' = Append(batches, [wake |-> wakes, task |-> tr.task, client |-> tr.client,
                                         list |-> tr.list])
      BY <1>7 DEF Transmit
    <3>2. batches \in Seq(Sent)
      BY <1>0 DEF TypeOK
    <3>3. QED
      BY <2>4, <3>1, <3>2, AppendProperties
  <2>6. transmitted' \in Seq(Packets) /\ failed' \in SUBSET Packets
    BY <1>0, <1>7, <2>3 DEF Transmit, TypeOK
  <2>7. /\ transmitter = "grouping"
        /\ UNCHANGED <<task_id, main, socket, arrived, chan, result_queue, transmitter, rq, wakes>>
    BY <1>7 DEF Transmit
  <2>8. TypeOK'
    BY <1>0, <2>2, <2>5, <2>6, <2>7 DEF TypeOK
  <2>9. QueuedHaveTasks' /\ AsleepIsEmpty'
    BY <1>0, <2>7 DEF QueuedHaveTasks, AsleepIsEmpty
  <2>10. QED
    BY <2>8, <2>9 DEF Inv
<1>8. CASE Start \/ TransmitterEnds \/ Sleep
  <2>1. rq = <<>> /\ tr.list = <<>>
    BY <1>0, <1>8, WaitSteps DEF AsleepIsEmpty
  <2>2. main' # "new"
    BY <1>0, <1>8, WaitSteps DEF AsleepIsEmpty
  <2>3. QED
    BY <1>0, <1>8, <2>1, <2>2, WaitSteps DEF Inv, TypeOK, QueuedHaveTasks, AsleepIsEmpty
<1>9. CASE UNCHANGED vars
  BY <1>1, <1>9 DEF vars, pipeVars
<1>10. QED
  BY <1>1, <1>2, <1>3, <1>4, <1>5, <1>6, <1>7, <1>8, <1>9, QuietSteps
     DEF Next, ReceiverStep, ProcessorStep, TransmitterStep, MainStep

(* The variables and the results on their way have their types; a thread     *)
(* that sleeps has nothing left to send.                                     *)
THEOREM TypeCorrect == Spec => []Inv
BY InvInit, InvNext, PTL DEF Spec

-----------------------------------------------------------------------------
(***************************************************************************)
(* The way of the replies.  The line from the server back to the socket is *)
(* in order, and holds what has arrived and has neither failed nor been    *)
(* dropped.  A step moves the boundary between two places in it, which     *)
(* leaves the line as it is, takes packets out of it, sorts one place, or  *)
(* adds a packet at the end.                                               *)
(***************************************************************************)
PlaceInv ==
  /\ Ordered(Line)
  /\ failed \subseteq ToSet(arrived)
  /\ ToSet(Line) \subseteq ToSet(arrived) \ failed
  /\ \A p \in ToSet(arrived) \ failed : task_id[p] # NoPayload => p \in ToSet(Line)

LEMMA LineType ==
  ASSUME TypeOK
  PROVE  /\ transmitted \in Seq(Packets) /\ tr.list \in Seq(Packets) /\ rq \in Seq(Packets)
         /\ result_queue \in Seq(Packets) /\ chan \in Seq(Packets) /\ socket \in Seq(Packets)
         /\ chan \o socket \in Seq(Packets)
         /\ result_queue \o (chan \o socket) \in Seq(Packets)
         /\ rq \o (result_queue \o (chan \o socket)) \in Seq(Packets)
         /\ tr.list \o (rq \o (result_queue \o (chan \o socket))) \in Seq(Packets)
         /\ Line \in Seq(Packets)
<1>1. /\ transmitted \in Seq(Packets) /\ tr.list \in Seq(Packets) /\ rq \in Seq(Packets)
      /\ result_queue \in Seq(Packets) /\ chan \in Seq(Packets) /\ socket \in Seq(Packets)
  BY DEF TypeOK, TaskResults
<1>2. chan \o socket \in Seq(Packets)
  BY <1>1, ConcatProperties
<1>3. result_queue \o (chan \o socket) \in Seq(Packets)
  BY <1>1, <1>2, ConcatProperties
<1>4. rq \o (result_queue \o (chan \o socket)) \in Seq(Packets)
  BY <1>1, <1>3, ConcatProperties
<1>5. tr.list \o (rq \o (result_queue \o (chan \o socket))) \in Seq(Packets)
  BY <1>1, <1>4, ConcatProperties
<1>6. Line \in Seq(Packets)
  BY <1>1, <1>5, ConcatProperties DEF Line
<1>7. QED
  BY <1>1, <1>2, <1>3, <1>4, <1>5, <1>6

LEMMA LineIsSeq == TypeOK => Line \in Seq(Packets)
BY LineType

LEMMA LineContents ==
  ASSUME TypeOK
  PROVE  ToSet(Line) = ToSet(transmitted) \cup ToSet(tr.list) \cup ToSet(rq)
                         \cup ToSet(result_queue) \cup ToSet(chan) \cup ToSet(socket)
<1>1. ToSet(chan \o socket) = ToSet(chan) \cup ToSet(socket)
  BY LineType, ContentsOfConcat
<1>2. ToSet(result_queue \o (chan \o socket)) = ToSet(result_queue) \cup ToSet(chan \o socket)
  BY LineType, ContentsOfConcat
<1>3. ToSet(rq \o (result_queue \o (chan \o socket)))
        = ToSet(rq) \cup ToSet(result_queue \o (chan \o socket))
  BY LineType, ContentsOfConcat
<1>4. ToSet(tr.list \o (rq \o (result_queue \o (chan \o socket))))
        = ToSet(tr.list) \cup ToSet(rq \o (result_queue \o (chan \o socket)))
  BY LineType, ContentsOfConcat
<1>5. ToSet(Line)
        = ToSet(transmitted) \cup ToSet(tr.list \o (rq \o (result_queue \o (chan \o socket))))
  BY LineType, ContentsOfConcat DEF Line
<1>6. QED
  BY <1>1, <1>2, <1>3, <1>4, <1>5

LEMMA PlaceInit == Init => PlaceInv
<1> SUFFICES ASSUME Init PROVE PlaceInv
  OBVIOUS
<1>1. <<>> \in Seq(Packets) /\ ToSet(<<>>) = {} /\ Len(<<>>) = 0 /\ <<>> \o <<>> = <<>>
  BY EmptySeq, Contents, ConcatEmptySeq
<1>2. Line = <<>>
  BY <1>1 DEF Init, Line, EmptyTaskResult
<1>3. Ordered(Line)
  BY <1>1, <1>2 DEF Ordered
<1>4. QED
  BY <1>1, <1>2, <1>3 DEF Init, PlaceInv

(* A step after which the line is l.                                         *)
LEMMA PlaceKept ==
  ASSUME PlaceInv, UNCHANGED <<task_id, arrived>>, NEW l, Line' = l, Refines(l, Line),
         failed \subseteq failed', failed' \subseteq ToSet(arrived), ToSet(l) \cap failed' = {},
         \A p \in ToSet(Line) \ ToSet(l) : task_id[p] = NoPayload \/ p \in failed'
  PROVE  PlaceInv'
<1>1. Ordered(l) /\ ToSet(l) \subseteq ToSet(Line)
  BY DEF PlaceInv, Refines
<1>2. Ordered(Line)'
  BY <1>1 DEF Ordered, InPlace, CameBefore
<1>3. QED
  BY <1>1, <1>2 DEF PlaceInv

LEMMA PlaceUnchanged ==
  ASSUME PlaceInv, UNCHANGED <<task_id, arrived, failed>>, Line' = Line
  PROVE  PlaceInv'
<1>1. Ordered(Line)'
  BY DEF PlaceInv, Ordered, InPlace, CameBefore
<1>2. QED
  BY <1>1 DEF PlaceInv

(* A packet arrives at the end of the line.                                  *)
LEMMA PlaceArrive ==
  ASSUME TypeOK, PlaceInv, NEW p \in Packets, Arrive(p)
  PROVE  PlaceInv'
<1>1. /\ socket' = Append(socket, p) /\ arrived' = Append(arrived, p)
      /\ UNCHANGED <<task_id, chan, result_queue, rq, tr, transmitted, failed>>
      /\ arrived \in Seq(Packets)
  BY DEF Arrive, receiverVars, senderVars, TypeOK
<1>2. Line' = Append(Line, p)
  <2> DEFINE fromChan == chan \o socket
             fromQueue == result_queue \o fromChan
             fromRq == rq \o fromQueue
             list == tr.list
             fromTr == list \o fromRq
  <2>1. /\ fromChan \in Seq(Packets) /\ fromQueue \in Seq(Packets)
        /\ fromRq \in Seq(Packets) /\ fromTr \in Seq(Packets)
        /\ transmitted \in Seq(Packets) /\ list \in Seq(Packets) /\ rq \in Seq(Packets)
        /\ result_queue \in Seq(Packets) /\ chan \in Seq(Packets) /\ socket \in Seq(Packets)
    BY LineType
  <2>2. chan \o Append(socket, p) = Append(fromChan, p)
    BY <2>1, AppendToLast
  <2> HIDE DEF fromChan
  <2>3. result_queue \o Append(fromChan, p) = Append(fromQueue, p)
    BY <2>1, AppendToLast
  <2> HIDE DEF fromQueue
  <2>4. rq \o Append(fromQueue, p) = Append(fromRq, p)
    BY <2>1, AppendToLast
  <2> HIDE DEF fromRq, list
  <2>5. list \o Append(fromRq, p) = Append(fromTr, p)
    BY <2>1, AppendToLast
  <2> HIDE DEF fromTr
  <2>6. transmitted \o Append(fromTr, p) = Append(transmitted \o fromTr, p)
    BY <2>1, AppendToLast
  <2>7. QED
    BY <1>1, <2>2, <2>3, <2>4, <2>5, <2>6 DEF Line, fromTr, list, fromRq, fromQueue, fromChan
<1>3. p \notin ToSet(arrived)
  BY DEF Arrive, Contains, ToSet
<1>4. /\ ToSet(arrived') = ToSet(arrived) \cup {p} /\ ToSet(Line') = ToSet(Line) \cup {p}
      /\ Line \in Seq(Packets)
  BY <1>1, <1>2, LineType, ContentsOfAppend
<1>5. /\ Len(arrived) \in Nat /\ Len(arrived') = Len(arrived) + 1
      /\ arrived'[Len(arrived) + 1] = p
      /\ \A k \in 1 .. Len(arrived) : arrived'[k] = arrived[k]
      /\ 1 .. Len(arrived) \subseteq 1 .. Len(arrived')
      /\ Len(arrived) + 1 \in 1 .. Len(arrived')
  BY <1>1, AppendProperties, LenProperties
<1>6. \A x, y : CameBefore(x, y) => CameBefore(x, y)'
  BY <1>5 DEF CameBefore
<1>7. ASSUME NEW x \in ToSet(arrived) PROVE CameBefore(x, p)'
  <2>1. PICK k \in 1 .. Len(arrived) : arrived[k] = x
    BY <1>1, Contents
  <2>2. /\ k \in 1 .. Len(arrived') /\ k < Len(arrived) + 1 /\ arrived'[k] = x
    BY <1>5, <2>1
  <2>3. QED
    BY <1>5, <2>2 DEF CameBefore
<1>8. Ordered(Line)'
  <2>1. /\ Len(Line) \in Nat /\ Len(Line') = Len(Line) + 1 /\ Line'[Len(Line) + 1] = p
        /\ \A k \in 1 .. Len(Line) : Line'[k] = Line[k] /\ Line[k] \in ToSet(Line)
    BY <1>2, <1>4, Contents, AppendProperties, LenProperties
  <2>2. ASSUME NEW j \in 1 .. Len(Line'), NEW k \in 1 .. Len(Line'), j < k
        PROVE  InPlace(Line[j], Line[k])'
    <3>1. j \in 1 .. Len(Line)
      BY <2>1, <2>2
    <3>2. CASE k \in 1 .. Len(Line)
      <4>1. InPlace(Line[j], Line[k]) /\ Line'[j] = Line[j] /\ Line'[k] = Line[k]
        BY <2>1, <2>2, <3>1, <3>2 DEF PlaceInv, Ordered
      <4>2. QED
        BY <1>1, <1>6, <4>1 DEF InPlace
    <3>3. CASE k = Len(Line) + 1
      <4>1. Line'[j] \in ToSet(arrived) /\ Line'[k] = p
        BY <2>1, <3>1, <3>3 DEF PlaceInv
      <4>2. QED
        BY <1>3, <1>7, <4>1 DEF InPlace
    <3>4. QED
      BY <2>1, <2>2, <3>2, <3>3
  <2>3. QED
    BY <2>2 DEF Ordered
<1>9. QED
  BY <1>1, <1>3, <1>4, <1>8 DEF PlaceInv

(* What the places before a part of the line make of a change in it.         *)
LEMMA RefinesBehind ==
  ASSUME TypeOK, NEW x \in Seq(Packets), NEW y \in Seq(Packets), Refines(y, x),
         NEW s \in Seq(Packets), NEW u \in Seq(Packets)
  PROVE  Refines(s \o (u \o y), s \o (u \o x))
BY RefinesSecond, ConcatProperties

LEMMA MovesInLine ==
  \A a, b, c \in Seq(Packets) :
    b # <<>> => Append(a, Head(b)) \o (Tail(b) \o c) = a \o (b \o c)
BY MoveHeadOfSecond

(* The boundary between two places moves.                                    *)
LEMMA LineMoves ==
  ASSUME TypeOK
  PROVE  /\ Receive => Line' = Line
         /\ Process /\ task_id[Head(chan)] # NoPayload => Line' = Line
         /\ AddToTaskResult => Line' = Line
         /\ StartTaskResult => Line' = Line
         /\ Transmit(TRUE) => Line' = Line
<1>0. /\ transmitted \in Seq(Packets) /\ tr.list \in Seq(Packets) /\ rq \in Seq(Packets)
      /\ result_queue \in Seq(Packets) /\ chan \in Seq(Packets) /\ socket \in Seq(Packets)
      /\ chan \o socket \in Seq(Packets)
      /\ result_queue \o (chan \o socket) \in Seq(Packets)
      /\ rq \o (result_queue \o (chan \o socket)) \in Seq(Packets)
      /\ <<>> \in Seq(Packets)
  BY LineType, EmptySeq
<1>1. ASSUME Receive PROVE Line' = Line
  <2>1. /\ socket # <<>> /\ socket' = Tail(socket) /\ chan' = Append(chan, Head(socket))
        /\ UNCHANGED <<transmitted, tr, rq, result_queue>>
    BY <1>1 DEF Receive, Channel!Enqueue, senderVars
  <2>2. chan' \o socket' = chan \o socket
    BY <1>0, <2>1, MoveHead
  <2>3. QED
    BY <2>1, <2>2 DEF Line
<1>2. ASSUME Process, task_id[Head(chan)] # NoPayload PROVE Line' = Line
  <2>1. /\ chan # <<>> /\ chan' = Tail(chan) /\ result_queue' = Append(result_queue, Head(chan))
        /\ UNCHANGED <<transmitted, tr, rq, socket>>
    BY <1>2 DEF Process, senderVars, socketVars
  <2>2. Append(result_queue, Head(chan)) \o (Tail(chan) \o socket) = result_queue \o (chan \o socket)
    <3>1. /\ result_queue \in Seq(Packets) /\ chan \in Seq(Packets) /\ socket \in Seq(Packets)
          /\ chan # <<>>
      BY <1>0, <2>1
    <3>2. QED
      BY <3>1, MovesInLine
  <2>3. QED
    BY <2>1, <2>2 DEF Line
<1>3. ASSUME AddToTaskResult PROVE Line' = Line
  <2>1. /\ rq # <<>> /\ rq' = Tail(rq) /\ tr'.list = Append(tr.list, Head(rq))
        /\ UNCHANGED <<transmitted, result_queue, chan, socket>>
    BY <1>3 DEF AddToTaskResult, Fits, TypeOK, TaskResults, receiverVars, socketVars
  <2> DEFINE rest == result_queue \o (chan \o socket)
             list == tr.list
  <2>2. rest \in Seq(Packets) /\ list \in Seq(Packets) /\ rq \in Seq(Packets) /\ rq # <<>>
    BY <1>0, <2>1
  <2>3. rest' = rest
    BY <2>1
  <2> HIDE DEF rest, list
  <2>4. Append(list, Head(rq)) \o (Tail(rq) \o rest) = list \o (rq \o rest)
    BY <2>2, MovesInLine
  <2>5. QED
    BY <2>1, <2>3, <2>4 DEF Line, rest, list
<1>4. ASSUME StartTaskResult PROVE Line' = Line
  <2>1. /\ rq # <<>> /\ rq' = Tail(rq) /\ tr.list = <<>> /\ tr'.list = <<Head(rq)>>
        /\ UNCHANGED <<transmitted, result_queue, chan, socket>>
    BY <1>4 DEF StartTaskResult, NewTaskResult, receiverVars, socketVars
  <2> DEFINE rest == result_queue \o (chan \o socket)
  <2>2. rest \in Seq(Packets)
    BY <1>0
  <2>3. rest' = rest
    BY <2>1
  <2> HIDE DEF rest
  <2>4. Append(<<>>, Head(rq)) \o (Tail(rq) \o rest) = <<>> \o (rq \o rest)
    BY <1>0, <2>1, <2>2, MovesInLine
  <2>5. Append(<<>>, Head(rq)) = <<Head(rq)>>
    BY HeadTailProperties, <1>0, <2>1
  <2>6. QED
    BY <2>1, <2>3, <2>4, <2>5 DEF Line, rest
<1>5. ASSUME Transmit(TRUE) PROVE Line' = Line
  <2>1. /\ transmitted' = transmitted \o tr.list /\ tr'.list = <<>>
        /\ UNCHANGED <<rq, result_queue, chan, socket>>
    BY <1>5 DEF Transmit, TypeOK, TaskResults, receiverVars, socketVars
  <2> DEFINE rest == rq \o (result_queue \o (chan \o socket))
             list == tr.list
  <2>2. rest \in Seq(Packets) /\ list \in Seq(Packets) /\ transmitted \in Seq(Packets)
    BY <1>0
  <2>3. rest' = rest
    BY <2>1
  <2> HIDE DEF rest, list
  <2>4. (transmitted \o list) \o rest = transmitted \o (list \o rest) /\ <<>> \o rest = rest
    BY <2>2, ConcatAssociative, ConcatEmptySeq
  <2>5. QED
    BY <2>1, <2>3, <2>4 DEF Line, rest, list
<1>6. QED
  BY <1>1, <1>2, <1>3, <1>4, <1>5

LEMMA PlaceNext == Inv /\ PlaceInv /\ [Next]_vars => PlaceInv'
<1> SUFFICES ASSUME Inv, PlaceInv, [Next]_vars PROVE PlaceInv'
  OBVIOUS
<1>0. /\ TypeOK /\ QueuedHaveTasks /\ AsleepIsEmpty /\ TypeOK'
      /\ Line \in Seq(Packets) /\ Line' \in Seq(Packets)
      /\ ToSet(Line) = ToSet(transmitted) \cup ToSet(tr.list) \cup ToSet(rq)
                         \cup ToSet(result_queue) \cup ToSet(chan) \cup ToSet(socket)
      /\ (ToSet(Line) = ToSet(transmitted) \cup ToSet(tr.list) \cup ToSet(rq)
                         \cup ToSet(result_queue) \cup ToSet(chan) \cup ToSet(socket))'
  <2>1. Inv'
    BY InvNext
  <2>2. TypeOK /\ TypeOK'
    BY <2>1 DEF Inv
  <2>3. Line \in Seq(Packets)
    BY <2>2, LineType
  <2>4. (Line \in Seq(Packets))'
    BY <2>2, LineIsSeq, PTL
  <2>5. /\ ToSet(Line) = ToSet(transmitted) \cup ToSet(tr.list) \cup ToSet(rq)
                           \cup ToSet(result_queue) \cup ToSet(chan) \cup ToSet(socket)
        /\ (ToSet(Line) = ToSet(transmitted) \cup ToSet(tr.list) \cup ToSet(rq)
                           \cup ToSet(result_queue) \cup ToSet(chan) \cup ToSet(socket))'
    BY <2>2, LineContents, PTL
  <2>6. QED
    BY <2>2, <2>3, <2>4, <2>5 DEF Inv
<1>1. CASE UNCHANGED pipeVars
  BY <1>1, PlaceUnchanged DEF pipeVars, Line
<1>2. ASSUME NEW p \in Packets, Arrive(p) PROVE PlaceInv'
  BY <1>0, <1>2, PlaceArrive
<1>3. CASE \/ Receive \/ AddToTaskResult \/ StartTaskResult \/ Transmit(TRUE)
           \/ (Process /\ task_id[Head(chan)] # NoPayload)
  <2>1. UNCHANGED <<task_id, arrived, failed>>
    BY <1>3 DEF Receive, AddToTaskResult, StartTaskResult, Transmit, Process, socketVars, senderVars
  <2>2. Line' = Line
    BY <1>0, <1>3, LineMoves
  <2>3. QED
    BY <2>1, <2>2, PlaceUnchanged
<1>4. CASE Process /\ task_id[Head(chan)] = NoPayload
  <2>1. /\ chan # <<>> /\ chan' = Tail(chan)
        /\ UNCHANGED <<task_id, arrived, failed, transmitted, tr, rq, result_queue, socket>>
    BY <1>4 DEF Process, senderVars, socketVars
  <2>2. /\ Tail(chan) \in Seq(Packets) /\ ToSet(chan) = ToSet(Tail(chan)) \cup {Head(chan)}
        /\ Refines(Tail(chan), chan)
    BY <1>0, <2>1, LineType, ContentsOfTail, RefinesTail
  <2>3. Refines(Tail(chan) \o socket, chan \o socket) /\ Tail(chan) \o socket \in Seq(Packets)
    BY <1>0, <2>2, LineType, RefinesFirst, ConcatProperties
  <2>4. /\ Refines(rq \o (result_queue \o (Tail(chan) \o socket)),
                   rq \o (result_queue \o (chan \o socket)))
        /\ rq \o (result_queue \o (Tail(chan) \o socket)) \in Seq(Packets)
    BY <1>0, <2>3, LineType, RefinesBehind, ConcatProperties
  <2>5. Refines(transmitted \o (tr.list \o (rq \o (result_queue \o (Tail(chan) \o socket)))), Line)
    BY <1>0, <2>4, LineType, RefinesBehind DEF Line
  <2>6. Refines(Line', Line)
    BY <2>1, <2>5 DEF Line
  <2>7. ToSet(Line) = ToSet(Line') \cup {Head(chan)}
    BY <1>0, <2>1, <2>2
  <2>8. QED
    BY <1>4, <2>1, <2>6, <2>7, PlaceKept DEF PlaceInv
<1>5. CASE Wake
  <2>1. /\ rq = <<>> /\ tr.list = <<>> /\ rq' \in SortedByTask(result_queue) /\ result_queue' = <<>>
        /\ tr'.list = <<>>
        /\ UNCHANGED <<task_id, arrived, failed, transmitted, chan, socket>>
    BY <1>0, <1>5 DEF Wake, AsleepIsEmpty, EmptyTaskResult, receiverVars, socketVars
  <2>2. /\ rq' \in Seq(Packets) /\ ToSet(rq') = ToSet(result_queue) /\ Refines(rq', result_queue)
    BY <1>0, <2>1, LineType, SortFacts DEF QueuedHaveTasks
  <2>3. /\ Refines(rq' \o (chan \o socket), result_queue \o (chan \o socket))
        /\ rq' \o (chan \o socket) \in Seq(Packets)
    BY <1>0, <2>2, LineType, RefinesFirst, ConcatProperties
  <2>4. Refines(transmitted \o (rq' \o (chan \o socket)),
                transmitted \o (result_queue \o (chan \o socket)))
    BY <1>0, <2>3, LineType, RefinesSecond
  <2>5. \A x \in Seq(Packets) : <<>> \o x = x
    BY ConcatEmptySeq
  <2>6. Line = transmitted \o (result_queue \o (chan \o socket))
    BY <1>0, <2>1, <2>5, LineType DEF Line
  <2>7. Line' = transmitted \o (rq' \o (chan \o socket))
    BY <1>0, <2>1, <2>3, <2>5, LineType DEF Line
  <2>8. ToSet(Line) = ToSet(Line')
    BY <1>0, <2>1, <2>2
  <2>9. QED
    BY <2>1, <2>4, <2>6, <2>7, <2>8, PlaceKept DEF PlaceInv
<1>6. CASE Transmit(FALSE)
  <2> DEFINE rest == rq \o (result_queue \o (chan \o socket))
             list == tr.list
  <2>1. /\ failed' = failed \cup ToSet(list) /\ tr'.list = <<>>
        /\ UNCHANGED <<task_id, arrived, transmitted, rq, result_queue, chan, socket>>
    BY <1>0, <1>6 DEF Transmit, TypeOK, TaskResults, receiverVars, socketVars
  <2>2. /\ rest \in Seq(Packets) /\ list \in Seq(Packets) /\ transmitted \in Seq(Packets)
        /\ rest' = rest /\ Line = transmitted \o (list \o rest)
        /\ Line' = transmitted \o (<<>> \o rest)
    BY <1>0, <2>1, LineType DEF Line
  <2> HIDE DEF rest, list
  <2>3. <<>> \o rest = rest /\ <<>> \in Seq(Packets) /\ Refines(<<>>, list)
    BY <2>2, ConcatEmptySeq, EmptySeq, RefinesEmpty
  <2>4. Refines(rest, list \o rest) /\ list \o rest \in Seq(Packets)
    BY <2>2, <2>3, RefinesFirst, ConcatProperties
  <2>5. Refines(Line', Line)
    BY <2>2, <2>3, <2>4, RefinesSecond
  <2>6. ToSet(Line) = ToSet(transmitted) \cup (ToSet(list) \cup ToSet(rest))
        /\ ToSet(Line') = ToSet(transmitted) \cup ToSet(rest)
    <3>1. ToSet(list \o rest) = ToSet(list) \cup ToSet(rest)
      BY <2>2, ContentsOfConcat
    <3>2. ToSet(transmitted \o (list \o rest)) = ToSet(transmitted) \cup ToSet(list \o rest)
      BY <2>2, <2>4, ContentsOfConcat
    <3>3. ToSet(transmitted \o rest) = ToSet(transmitted) \cup ToSet(rest)
      BY <2>2, ContentsOfConcat
    <3>4. QED
      BY <2>2, <2>3, <3>1, <3>2, <3>3
  <2>7. ToSet(list) \cap ToSet(Line') = {}
    <3>1. Precedes(transmitted, list \o rest) /\ Precedes(list, rest)
      BY <2>2, <2>4, OrderedConcat DEF PlaceInv
    <3>2. ToSet(list \o rest) = ToSet(list) \cup ToSet(rest)
      BY <2>2, ContentsOfConcat
    <3>3. QED
      BY <2>6, <3>1, <3>2 DEF Precedes, InPlace
  <2>8. QED
    BY <2>1, <2>5, <2>6, <2>7, PlaceKept DEF PlaceInv
<1>7. CASE Start \/ TransmitterEnds \/ Sleep
  BY <1>7, WaitSteps, PlaceUnchanged DEF Line
<1>8. CASE UNCHANGED vars
  BY <1>1, <1>8 DEF vars, pipeVars, socketVars, receiverVars, senderVars
<1>9. QED
  <2>1. \A success \in BOOLEAN : success = TRUE \/ success = FALSE
    OBVIOUS
  <2>2. QED
    BY <1>1, <1>2, <1>3, <1>4, <1>5, <1>6, <1>7, <1>8, <2>1, QuietSteps
       DEF Next, ReceiverStep, ProcessorStep, TransmitterStep, MainStep

(* No reply is lost, duplicated or overtaken by a later one of its task,     *)
(* whatever the three threads do in between, how often the queue is swapped, *)
(* and which calls fail.                                                     *)
THEOREM RepliesStayInOrder == Spec => []RepliesKeepTheirPlace
<1>1. TypeOK /\ PlaceInv => RepliesKeepTheirPlace
  <2> SUFFICES ASSUME TypeOK, PlaceInv PROVE RepliesKeepTheirPlace
    OBVIOUS
  <2>1. \A j, k \in 1 .. Len(Line) : j < k => InPlace(Line[j], Line[k])
    BY DEF PlaceInv, Ordered
  <2>2. \A p \in Packets : task_id[p] # NoPayload =>
          (p \in ToSet(Line) <=> p \in ToSet(arrived) \ failed)
    BY DEF PlaceInv
  <2>3. QED
    BY <2>1, <2>2 DEF RepliesKeepTheirPlace, InPlace
<1>2. QED
  BY <1>1, PlaceInit, PlaceNext, TypeCorrect, PTL DEF Spec, Inv

-----------------------------------------------------------------------------
(***************************************************************************)
(* The TaskResults.  Within a wake-up the results come in ascending order  *)
(* of their task ids: the one being filled has the results of one task,    *)
(* none of those behind it is of a smaller one, and all of them are of     *)
(* greater ones than the TaskResults this wake-up has had acknowledged.    *)
(***************************************************************************)
Grouped ==
  /\ \A p \in ToSet(tr.list) : task_id[p] = tr.task
  /\ tr.client \/ tr.task = MaxTask
  /\ Ascending(rq)
  /\ \A p \in ToSet(tr.list), q \in ToSet(rq) : task_id[p] <= task_id[q]

SentBefore ==
  \A k \in 1 .. Len(batches) :
    /\ batches[k].wake <= wakes
    /\ batches[k].wake = wakes =>
         \A p \in ToSet(tr.list) \cup ToSet(rq) : batches[k].task < task_id[p]

BatchInv == Grouped /\ SentBefore /\ OneBatchPerTask

LEMMA AscendingTail ==
  ASSUME NEW s \in Seq(Packets), s # <<>>, Ascending(s)
  PROVE  /\ Ascending(Tail(s))
         /\ \A q \in ToSet(Tail(s)) : task_id[Head(s)] <= task_id[q]
<1>1. /\ Tail(s) \in Seq(Packets) /\ Len(s) \in Nat \ {0} /\ Len(Tail(s)) = Len(s) - 1
      /\ \A i \in 1 .. Len(s) - 1 : Tail(s)[i] = s[i + 1]
      /\ Head(s) = s[1]
  BY TailFacts
<1>2. ASSUME NEW j \in 1 .. Len(s) - 1, NEW k \in 1 .. Len(s) - 1, j < k
      PROVE  task_id[Tail(s)[j]] <= task_id[Tail(s)[k]]
  <2>1. j + 1 \in 1 .. Len(s) /\ k + 1 \in 1 .. Len(s) /\ j + 1 < k + 1
    BY <1>1, <1>2
  <2>2. task_id[s[j + 1]] <= task_id[s[k + 1]]
    BY <2>1 DEF Ascending
  <2>3. QED
    BY <1>1, <2>2
<1>3. ASSUME NEW q \in ToSet(Tail(s)) PROVE task_id[Head(s)] <= task_id[q]
  <2>1. PICK k \in 1 .. Len(s) - 1 : Tail(s)[k] = q
    BY <1>1, Contents
  <2>2. 1 \in 1 .. Len(s) /\ k + 1 \in 1 .. Len(s) /\ 1 < k + 1
    BY <1>1
  <2>3. task_id[s[1]] <= task_id[s[k + 1]]
    BY <2>2 DEF Ascending
  <2>4. QED
    BY <1>1, <2>1, <2>3
<1>4. QED
  BY <1>1, <1>2, <1>3 DEF Ascending

LEMMA BatchInit == Init => BatchInv
<1> SUFFICES ASSUME Init PROVE BatchInv
  OBVIOUS
<1>1. Len(<<>>) = 0 /\ ToSet(<<>>) = {}
  BY EmptySeq, Contents
<1>2. batches = <<>> /\ rq = <<>> /\ tr.list = <<>> /\ tr.task = MaxTask
  BY DEF Init, EmptyTaskResult
<1>3. QED
  BY <1>1, <1>2 DEF BatchInv, Grouped, SentBefore, OneBatchPerTask, Ascending

LEMMA BatchUnchanged ==
  ASSUME BatchInv, UNCHANGED <<task_id, rq, tr, batches, wakes>>
  PROVE  BatchInv'
BY DEF BatchInv, Grouped, SentBefore, OneBatchPerTask, Ascending

(* The next result is taken from rq into the TaskResult that is filled, be   *)
(* it the old one or a fresh one.                                            *)
LEMMA BatchTake ==
  ASSUME Inv, BatchInv, AddToTaskResult \/ StartTaskResult
  PROVE  BatchInv'
<1>1. /\ rq \in Seq(Packets) /\ rq # <<>> /\ rq' = Tail(rq) /\ tr \in TaskResults
      /\ UNCHANGED <<task_id, batches, wakes>>
  BY DEF AddToTaskResult, StartTaskResult, Fits, Inv, TypeOK
<1>2. /\ Tail(rq) \in Seq(Packets) /\ Head(rq) \in Packets
      /\ ToSet(rq) = ToSet(Tail(rq)) \cup {Head(rq)}
  BY <1>1, ContentsOfTail
<1>3. /\ Ascending(Tail(rq))
      /\ \A q \in ToSet(Tail(rq)) : task_id[Head(rq)] <= task_id[q]
  BY <1>1, AscendingTail DEF BatchInv, Grouped
<1>4. /\ \A p \in ToSet(tr'.list) : task_id[p] = tr'.task
      /\ tr'.client \/ tr'.task = MaxTask
      /\ ToSet(tr'.list) \subseteq ToSet(tr.list) \cup {Head(rq)}
  <2>1. CASE AddToTaskResult
    <3>1. /\ tr'.list = Append(tr.list, Head(rq)) /\ tr'.task = tr.task /\ tr'.client = tr.client
          /\ task_id[Head(rq)] = tr.task
      BY <1>1, <2>1 DEF AddToTaskResult, Fits, TaskResults
    <3>2. ToSet(Append(tr.list, Head(rq))) = ToSet(tr.list) \cup {Head(rq)}
      BY <1>1, <1>2, ContentsOfAppend DEF TaskResults
    <3>3. QED
      BY <3>1, <3>2 DEF BatchInv, Grouped
  <2>2. CASE StartTaskResult
    <3>1. tr'.list = <<Head(rq)>> /\ tr'.task = task_id[Head(rq)] /\ tr'.client = TRUE
      BY <2>2 DEF StartTaskResult, NewTaskResult
    <3>2. ToSet(<<Head(rq)>>) = {Head(rq)}
      BY <1>2, ContentsOfOne
    <3>3. QED
      BY <3>1, <3>2
  <2>3. QED
    BY <2>1, <2>2
<1>5. Grouped'
  <2>1. \A p \in ToSet(tr'.list), q \in ToSet(Tail(rq)) : task_id[p] <= task_id[q]
    BY <1>2, <1>3, <1>4 DEF BatchInv, Grouped
  <2>2. Ascending(rq)'
    BY <1>1, <1>3 DEF Ascending
  <2>3. QED
    BY <1>1, <1>4, <2>1, <2>2 DEF Grouped
<1>6. SentBefore' /\ OneBatchPerTask'
  BY <1>1, <1>2, <1>4 DEF BatchInv, SentBefore, OneBatchPerTask
<1>7. QED
  BY <1>5, <1>6 DEF BatchInv

LEMMA BatchTransmit ==
  ASSUME Inv, BatchInv, NEW success \in BOOLEAN, Transmit(success)
  PROVE  BatchInv'
<1> DEFINE sent == [wake |-> wakes, task |-> tr.task, client |-> tr.client, list |-> tr.list]
<1>1. /\ tr.list # <<>> /\ tr \in TaskResults /\ tr.task \in Nat /\ rq \in Seq(Packets)
      /\ tr'.list = <<>> /\ tr'.task = tr.task /\ tr'.client = tr.client
      /\ batches \in Seq(Sent) /\ wakes \in Nat
      /\ UNCHANGED <<task_id, rq, wakes>>
      /\ batches' = batches \/ batches' = Append(batches, sent)
  BY DEF Transmit, Inv, TypeOK, TaskResults, TaskIds
<1>2. ToSet(<<>>) = {} /\ tr.list \in Seq(Packets)
  BY <1>1, EmptySeq, Contents DEF TaskResults
<1>3. Grouped'
  <2>1. Ascending(rq)'
    BY <1>1 DEF BatchInv, Grouped, Ascending
  <2>2. QED
    BY <1>1, <1>2, <2>1 DEF BatchInv, Grouped
(* What is left in rq is of greater task ids than the TaskResult.            *)
<1>4. \A q \in ToSet(rq) : tr.task < task_id[q]
  <2>1. SUFFICES ASSUME NEW q \in ToSet(rq) PROVE tr.task < task_id[q]
    OBVIOUS
  <2>2. \A x \in ToSet(rq) : task_id[x] \in Nat
    BY DEF Inv, QueuedHaveTasks, TaskIds
  <2>3. rq # <<>>
    BY <1>2
  <2>4. /\ ToSet(rq) = ToSet(Tail(rq)) \cup {Head(rq)}
        /\ \A x \in ToSet(Tail(rq)) : task_id[Head(rq)] <= task_id[x]
    BY <1>1, <2>3, ContentsOfTail, AscendingTail DEF BatchInv, Grouped
  <2>5. task_id[Head(rq)] # tr.task
    BY <2>3 DEF Transmit, Fits
  <2>6. tr.task <= task_id[Head(rq)]
    <3>1. PICK p \in ToSet(tr.list) : TRUE
      BY <1>1, <1>2, Contents
    <3>2. task_id[p] = tr.task /\ task_id[p] <= task_id[Head(rq)]
      BY <2>4 DEF BatchInv, Grouped
    <3>3. QED
      BY <3>2
  <2>7. tr.task < task_id[Head(rq)]
    BY <1>1, <2>2, <2>4, <2>5, <2>6
  <2>8. task_id[Head(rq)] <= task_id[q] /\ task_id[Head(rq)] \in Nat /\ task_id[q] \in Nat
    BY <2>2, <2>4
  <2>9. QED
    BY <1>1, <2>7, <2>8
<1>5. CASE batches' = batches
  <2>1. SentBefore'
    BY <1>1, <1>2, <1>5 DEF BatchInv, SentBefore
  <2>2. OneBatchPerTask'
    BY <1>1, <1>5 DEF BatchInv, OneBatchPerTask
  <2>3. QED
    BY <1>3, <2>1, <2>2 DEF BatchInv
<1>6. CASE batches' = Append(batches, sent)
  <2>1. sent \in Sent
    BY <1>1 DEF Sent, TaskResults, Inv, TypeOK
  <2>2. /\ sent.wake = wakes /\ sent.task = tr.task /\ sent.client = tr.client
        /\ sent.list = tr.list
    OBVIOUS
  <2> HIDE DEF sent
  <2>3. /\ Len(batches) \in Nat /\ Len(batches') = Len(batches) + 1
        /\ \A k \in 1 .. Len(batches) : batches'[k] = batches[k]
        /\ batches'[Len(batches) + 1] = sent
    BY <1>1, <1>6, <2>1, AppendProperties, LenProperties
  <2>4. \A k \in 1 .. Len(batches') : k \in 1 .. Len(batches) \/ k = Len(batches) + 1
    BY <2>3
  <2>5. SentBefore'
    <3>1. ASSUME NEW k \in 1 .. Len(batches')
          PROVE  /\ batches'[k].wake <= wakes
                 /\ batches'[k].wake = wakes =>
                      \A p \in ToSet(rq) : batches'[k].task < task_id[p]
      <4>1. CASE k \in 1 .. Len(batches)
        BY <2>3, <4>1 DEF BatchInv, SentBefore
      <4>2. CASE k = Len(batches) + 1
        BY <1>1, <1>4, <2>2, <2>3, <4>2
      <4>3. QED
        BY <2>4, <4>1, <4>2
    <3>2. QED
      BY <1>1, <1>2, <3>1 DEF SentBefore
  <2>6. OneBatchPerTask'
    <3>1. ASSUME NEW k \in 1 .. Len(batches')
          PROVE  /\ batches'[k].list # <<>>
                 /\ \A p \in ToSet(batches'[k].list) : task_id[p] = batches'[k].task
                 /\ batches'[k].client \/ batches'[k].task = MaxTask
                 /\ \A j \in 1 .. k - 1 :
                      batches'[j].wake = batches'[k].wake => batches'[j].task # batches'[k].task
      <4>1. CASE k \in 1 .. Len(batches)
        <5>1. \A j \in 1 .. k - 1 : j \in 1 .. Len(batches)
          BY <2>3, <4>1
        <5>2. QED
          BY <2>3, <4>1, <5>1 DEF BatchInv, OneBatchPerTask
      <4>2. CASE k = Len(batches) + 1
        <5>1. k - 1 = Len(batches) /\ batches'[k] = sent
          BY <2>3, <4>2
        <5>2. ASSUME NEW j \in 1 .. Len(batches), batches[j].wake = wakes
              PROVE  batches[j].task # tr.task
          <6>1. PICK p \in ToSet(tr.list) : TRUE
            BY <1>1, <1>2, Contents
          <6>2. task_id[p] = tr.task /\ batches[j].task < task_id[p]
            BY <5>2 DEF BatchInv, Grouped, SentBefore
          <6>3. batches[j] \in Sent
            BY <1>1, ElementOfSeq
          <6>4. batches[j].task \in Nat
            BY <6>3 DEF Sent, TaskIds
          <6>5. QED
            BY <1>1, <6>2, <6>4
        <5>3. QED
          BY <1>1, <2>2, <2>3, <5>1, <5>2 DEF BatchInv, Grouped
      <4>3. QED
        BY <2>4, <4>1, <4>2
    <3>2. QED
      BY <1>1, <3>1 DEF OneBatchPerTask
  <2>7. QED
    BY <1>3, <2>5, <2>6 DEF BatchInv
<1>7. QED
  BY <1>1, <1>5, <1>6

LEMMA BatchNext == Inv /\ BatchInv /\ [Next]_vars => BatchInv'
<1> SUFFICES ASSUME Inv, BatchInv, [Next]_vars PROVE BatchInv'
  OBVIOUS
<1>1. CASE UNCHANGED <<task_id, rq, tr, batches, wakes>>
  BY <1>1, BatchUnchanged
<1>2. CASE (\E p \in Packets : Arrive(p)) \/ Receive \/ Process
  BY <1>2, <1>1 DEF Arrive, Receive, Process, senderVars
<1>3. CASE Wake
  <2>1. /\ rq' \in SortedByTask(result_queue) /\ tr' = EmptyTaskResult /\ wakes' = wakes + 1
        /\ wakes \in Nat /\ result_queue \in Seq(Packets) /\ batches \in Seq(Sent)
        /\ UNCHANGED <<task_id, batches>>
    BY <1>3 DEF Wake, Inv, TypeOK
  <2>2. Ascending(rq')
    BY <2>1, SortFacts DEF Inv, QueuedHaveTasks
  <2>3. tr'.list = <<>> /\ tr'.task = MaxTask /\ ToSet(<<>>) = {}
    BY <2>1, EmptySeq, Contents DEF EmptyTaskResult
  <2>4. Grouped'
    BY <2>1, <2>2, <2>3 DEF Grouped, Ascending
  <2>5. SentBefore'
    <3>1. ASSUME NEW k \in 1 .. Len(batches)
          PROVE  batches[k].wake <= wakes' /\ batches[k].wake # wakes'
      <4>1. batches[k] \in Sent
        BY <2>1, ElementOfSeq
      <4>2. batches[k].wake \in Nat /\ batches[k].wake <= wakes
        BY <4>1 DEF Sent, BatchInv, SentBefore
      <4>3. QED
        BY <2>1, <4>2
    <3>2. QED
      BY <2>1, <3>1 DEF SentBefore
  <2>6. OneBatchPerTask'
    BY <2>1 DEF BatchInv, OneBatchPerTask
  <2>7. QED
    BY <2>4, <2>5, <2>6 DEF BatchInv
<1>4. CASE AddToTaskResult \/ StartTaskResult
  BY <1>4, BatchTake
<1>5. CASE \E success \in BOOLEAN : Transmit(success)
  BY <1>5, BatchTransmit
<1>6. CASE Start \/ TransmitterEnds \/ Sleep
  BY <1>1, <1>6, WaitSteps
<1>7. CASE UNCHANGED vars
  BY <1>1, <1>7 DEF vars, senderVars
<1>8. CASE UNCHANGED pipeVars
  BY <1>1, <1>8 DEF pipeVars
<1>9. QED
  BY <1>2, <1>3, <1>4, <1>5, <1>6, <1>7, <1>8, QuietSteps
     DEF Next, ReceiverStep, ProcessorStep, TransmitterStep, MainStep

(* What is sent is sent in one piece for each task of a wake-up, names the   *)
(* task of all its results, and its client.                                  *)
THEOREM TaskResultsAreGrouped == Spec => []OneBatchPerTask
<1>1. BatchInv => OneBatchPerTask
  BY DEF BatchInv
<1>2. QED
  BY <1>1, BatchInit, BatchNext, TypeCorrect, PTL DEF Spec
=============================================================================
