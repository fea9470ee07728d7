-------------------------- MODULE ResultFeedProofs --------------------------
(***************************************************************************)
(* Theorems about ResultFeed, for every set of feeds, reports and tasks.   *)
(***************************************************************************)
EXTENDS ResultFeed, SequenceFacts, FiniteSetTheorems

LEMMA ParkType ==
  ASSUME NEW ch, NEW p \in Seq(Reports), NEW r \in Reports
  PROVE  Channel!ParkIfFull(ch, p, r) \in Seq(Reports)
BY DEF Channel!ParkIfFull

LEMMA UnparkType ==
  ASSUME NEW p \in Seq(Reports)
  PROVE  Channel!UnparkOne(p) \in Seq(Reports)
BY DEF Channel!UnparkOne

LEMMA TypeInit == Init => TypeOK
BY DEF Init, TypeOK

LEMMA TypeNext == TypeOK /\ [Next]_vars => TypeOK'
<1> SUFFICES ASSUME TypeOK, [Next]_vars PROVE TypeOK'
  OBVIOUS
<1> USE DEF feedVars, streamVars, channelVars, reportVars
<1>1. ASSUME NEW f \in Feeds, SubscribeResult(f) PROVE TypeOK'
  <2>1. subscription_list' \in [Tasks -> Seq(Feeds)]
    BY <1>1 DEF TypeOK, SubscribeResult, register_subscriber
  <2>2. QED
    BY <1>1, <2>1 DEF TypeOK, SubscribeResult
<1>2. ASSUME NEW f \in Feeds, Forward(f) PROVE TypeOK'
  <2>1. Head(chan[f]) \in Reports /\ Tail(chan[f]) \in Seq(Reports)
    BY <1>2, HeadTailProperties DEF TypeOK, Forward
  <2>2. Append(sink[f], Head(chan[f])) \in Seq(Reports)
    BY <2>1 DEF TypeOK
  <2>3. Channel!UnparkOne(parked[f]) \in Seq(Reports)
    BY UnparkType DEF TypeOK
  <2>4. QED
    BY <1>2, <2>1, <2>2, <2>3 DEF TypeOK, Forward
<1>3. ASSUME NEW f \in Feeds, WriteReceived(f) PROVE TypeOK'
  <2>1. Head(sink[f]) \in Reports /\ Tail(sink[f]) \in Seq(Reports)
    BY <1>3, HeadTailProperties DEF TypeOK, WriteReceived
  <2>2. Append(received[f], Head(sink[f])) \in Seq(Reports)
    BY <2>1 DEF TypeOK
  <2>3. received' \in [Feeds -> Seq(Reports)]
    BY <1>3, <2>2 DEF TypeOK, WriteReceived
  <2>4. QED
    BY <1>3, <2>1, <2>3 DEF TypeOK, WriteReceived
<1>4. ASSUME NEW f \in Feeds, WriteCompletes(f) PROVE TypeOK'
  BY <1>4 DEF TypeOK, WriteCompletes
<1>5. ASSUME NEW f \in Feeds, StreamEnds(f) PROVE TypeOK'
  BY <1>5 DEF TypeOK, StreamEnds
<1>6. ASSUME NEW f \in Feeds, StreamFails(f) PROVE TypeOK'
  BY <1>6 DEF TypeOK, StreamFails
<1>7. ASSUME NEW f \in Feeds, CliLeaves(f) PROVE TypeOK'
  BY <1>7 DEF TypeOK, CliLeaves
<1>8. ASSUME NEW r \in Reports, SendResultLookup(r) PROVE TypeOK'
  BY <1>8 DEF TypeOK, SendResultLookup, get_subscribers
<1>9. ASSUME NEW r \in Reports, SendResultToNext(r) PROVE TypeOK'
  <2> DEFINE f == Head(todo[r])
  <2>1. f \in Feeds /\ Tail(todo[r]) \in Seq(Feeds)
    BY <1>9, HeadTailProperties DEF TypeOK, SendResultToNext
  <2>2. CASE phase[f] = "serving"
    <3>1. Append(chan[f], r) \in Seq(Reports) /\ Append(accepted[f], r) \in Seq(Reports)
      BY <2>1 DEF TypeOK
    <3>2. Channel!ParkIfFull(chan[f], parked[f], r) \in Seq(Reports)
      BY <2>1, ParkType DEF TypeOK
    <3>3. chan' = [chan EXCEPT ![f] = Append(@, r)]
      BY <1>9, <2>2 DEF SendResultToNext, Channel!Enqueue
    <3>4. parked' = [parked EXCEPT ![f] = Channel!ParkIfFull(chan[f], @, r)]
      BY <1>9, <2>2 DEF SendResultToNext
    <3>5. chan' \in [Feeds -> Seq(Reports)] /\ parked' \in [Feeds -> Seq(Reports)]
      BY <2>1, <3>1, <3>2, <3>3, <3>4 DEF TypeOK
    <3>6. accepted' \in [Feeds -> Seq(Reports)]
      BY <1>9, <2>1, <2>2, <3>1 DEF TypeOK, SendResultToNext
    <3>7. QED
      BY <1>9, <2>1, <2>2, <3>5, <3>6 DEF TypeOK, SendResultToNext
  <2>3. CASE phase[f] # "serving"
    BY <1>9, <2>1, <2>3 DEF TypeOK, SendResultToNext
  <2>4. QED
    BY <2>2, <2>3
<1>10. ASSUME NEW r \in Reports, SendResultWait(r) PROVE TypeOK'
  <2>1. Tail(todo[r]) \in Seq(Feeds)
    BY <1>10, HeadTailProperties DEF TypeOK, SendResultWait
  <2>2. QED
    BY <1>10, <2>1 DEF TypeOK, SendResultWait
<1>11. ASSUME NEW r \in Reports, SendResultReply(r) PROVE TypeOK'
  BY <1>11 DEF TypeOK, SendResultReply
<1>12. ASSUME NEW t \in Tasks, TaskFinished(t) PROVE TypeOK'
  BY <1>12 DEF TypeOK, TaskFinished, disconnect_subscribers
<1>13. CASE UNCHANGED vars
  BY <1>13 DEF TypeOK, vars
<1>14. QED
  BY <1>1, <1>2, <1>3, <1>4, <1>5, <1>6, <1>7, <1>8, <1>9, <1>10, <1>11, <1>12,
     <1>13
  DEF Next, FeedStep, ReportStep, Quiescent

(* Every variable keeps its type, and a handler that waits waits for a feed. *)
THEOREM TypeCorrect == Spec => []TypeOK
BY TypeInit, TypeNext, PTL DEF Spec

-----------------------------------------------------------------------------
(***************************************************************************)
(* Ordered delivery.  What a cli that exists has received, followed by     *)
(* what the forwarder holds and by what is in the channel, is what was     *)
(* accepted for it: a step moves a report from one to the next, or appends *)
(* one to the last and to what was accepted.                               *)
(***************************************************************************)
Pipeline(f) == received[f] \o (sink[f] \o chan[f])

LEMMA PipelineMoves ==
  \A a, b, c \in Seq(Reports) : b # <<>> =>
    Append(a, Head(b)) \o (Tail(b) \o c) = a \o (b \o c)
BY MoveHeadOfSecond

LEMMA PipelineGrows ==
  \A a, b, c \in Seq(Reports), r \in Reports :
    a \o (b \o Append(c, r)) = Append(a \o (b \o c), r)
<1> TAKE a, b, c \in Seq(Reports), r \in Reports
<1>1. b \o c \in Seq(Reports)
  BY ConcatProperties
<1>2. b \o Append(c, r) = Append(b \o c, r)
  BY AppendToLast
<1>3. a \o Append(b \o c, r) = Append(a \o (b \o c), r)
  BY <1>1, AppendToLast
<1>4. QED
  BY <1>2, <1>3

LEMMA PipelineNext ==
  \A a, b, c \in Seq(Reports) : b # <<>> =>
    /\ Len(a) < Len(a \o (b \o c))
    /\ (a \o (b \o c))[Len(a) + 1] = Head(b)
<1> SUFFICES ASSUME NEW a \in Seq(Reports), NEW b \in Seq(Reports),
                    NEW c \in Seq(Reports), b # <<>>
             PROVE  /\ Len(a) < Len(a \o (b \o c))
                    /\ (a \o (b \o c))[Len(a) + 1] = Head(b)
  OBVIOUS
<1>1. b \o c \in Seq(Reports) /\ b \o c # <<>>
  BY ConcatProperties, ConcatEqualIffEmpty
<1>2. Len(b) \in Nat \ {0} /\ Len(c) \in Nat /\ Head(b) = b[1]
  BY EmptySeq, LenProperties, HeadTailProperties
<1>3. (b \o c)[1] = b[1]
  BY <1>2, ConcatProperties
<1>4. Head(b \o c) = (b \o c)[1]
  BY <1>1, HeadTailProperties
<1>5. QED
  BY <1>1, <1>2, <1>3, <1>4, NextAfter

LEMMA PipelineDrained == \A a \in Seq(Reports) : a \o (<<>> \o <<>>) = a
BY EmptySeq, ConcatEmptySeq

NothingLost == \A f \in Feeds : cli[f] => Pipeline(f) = accepted[f]

LEMMA NothingLostInit == Init => NothingLost
BY DEF Init, NothingLost, Pipeline

(* Nothing is lost by a step that leaves the streams and the cli alone.      *)
LEMMA StreamsUnchanged ==
  ASSUME NothingLost, UNCHANGED <<cli, chan, accepted, sink, received>>
  PROVE  NothingLost'
BY DEF NothingLost, Pipeline

LEMMA NothingLostNext ==
  TypeOK /\ NothingLost /\ [Next]_vars => NothingLost'
<1> SUFFICES ASSUME TypeOK, NothingLost, [Next]_vars PROVE NothingLost'
  OBVIOUS
<1> USE DEF feedVars, streamVars, channelVars, reportVars
<1>1. ASSUME NEW f \in Feeds, Forward(f) PROVE NothingLost'
  <2>1. Append(sink[f], Head(chan[f])) \o Tail(chan[f]) = sink[f] \o chan[f]
    <3>1. sink[f] \in Seq(Reports) /\ chan[f] \in Seq(Reports) /\ chan[f] # <<>>
      BY <1>1 DEF TypeOK, Forward
    <3>2. QED
      BY <3>1, MoveHead, Zenon
  <2>2. Pipeline(f)' = Pipeline(f)
    BY <1>1, <2>1 DEF TypeOK, Forward, Pipeline
  <2>3. \A g \in Feeds \ {f} : Pipeline(g)' = Pipeline(g)
    BY <1>1 DEF TypeOK, Forward, Pipeline
  <2>4. QED
    BY <1>1, <2>2, <2>3 DEF Forward, NothingLost
<1>2. ASSUME NEW f \in Feeds, WriteReceived(f) PROVE NothingLost'
  <2>1. /\ received[f] \in Seq(Reports) /\ sink[f] \in Seq(Reports)
        /\ chan[f] \in Seq(Reports) /\ sink[f] # <<>>
    BY <1>2 DEF TypeOK, WriteReceived
  <2>3. Append(received[f], Head(sink[f])) \o (Tail(sink[f]) \o chan[f])
          = received[f] \o (sink[f] \o chan[f])
    BY <2>1, PipelineMoves
  <2>4. cli[f] => Pipeline(f)' = Pipeline(f)
    BY <1>2, <2>3 DEF TypeOK, WriteReceived, Pipeline
  <2>5. \A g \in Feeds \ {f} : Pipeline(g)' = Pipeline(g)
    BY <1>2 DEF TypeOK, WriteReceived, Pipeline
  <2>6. QED
    BY <1>2, <2>4, <2>5 DEF WriteReceived, NothingLost
<1>3. ASSUME NEW f \in Feeds, StreamFails(f) PROVE NothingLost'
  <2>1. \A g \in Feeds \ {f} : Pipeline(g)' = Pipeline(g)
    BY <1>3 DEF TypeOK, StreamFails, Pipeline
  <2>2. QED
    BY <1>3, <2>1 DEF StreamFails, NothingLost
<1>4. ASSUME NEW f \in Feeds, CliLeaves(f) PROVE NothingLost'
  BY <1>4 DEF TypeOK, CliLeaves, NothingLost, Pipeline
<1>5. ASSUME NEW r \in Reports, SendResultToNext(r) PROVE NothingLost'
  <2>1. PICK f \in Feeds : f = Head(todo[r])
    BY <1>5, HeadTailProperties DEF TypeOK, SendResultToNext
  <2>2. CASE phase[f] = "serving"
    <3>1. /\ received[f] \in Seq(Reports) /\ sink[f] \in Seq(Reports)
          /\ chan[f] \in Seq(Reports)
      BY <2>1 DEF TypeOK
    <3>2. received[f] \o (sink[f] \o Append(chan[f], r))
            = Append(received[f] \o (sink[f] \o chan[f]), r)
      BY <3>1, PipelineGrows
    <3>3. /\ chan' = [chan EXCEPT ![f] = Append(@, r)]
          /\ received' = received /\ sink' = sink /\ cli' = cli
          /\ accepted' = [accepted EXCEPT ![f] = Append(@, r)]
      BY <1>5, <2>1, <2>2 DEF SendResultToNext, Channel!Enqueue
    <3>4. /\ Pipeline(f)' = Append(Pipeline(f), r)
          /\ \A g \in Feeds \ {f} : Pipeline(g)' = Pipeline(g)
      BY <2>1, <3>2, <3>3 DEF TypeOK, Pipeline
    <3>5. /\ accepted'[f] = Append(accepted[f], r)
          /\ \A g \in Feeds \ {f} : accepted'[g] = accepted[g]
          /\ cli' = cli
      BY <2>1, <3>3 DEF TypeOK
    <3>6. QED
      BY <3>4, <3>5 DEF NothingLost
  <2>3. CASE phase[f] # "serving"
    BY <1>5, <2>1, <2>3, StreamsUnchanged DEF SendResultToNext
  <2>4. QED
    BY <2>2, <2>3
<1>6. ASSUME NEW f \in Feeds, SubscribeResult(f) \/ WriteCompletes(f) \/ StreamEnds(f)
      PROVE  NothingLost'
  BY <1>6, StreamsUnchanged DEF SubscribeResult, WriteCompletes, StreamEnds
<1>7. ASSUME NEW r \in Reports,
             SendResultLookup(r) \/ SendResultWait(r) \/ SendResultReply(r)
      PROVE  NothingLost'
  BY <1>7, StreamsUnchanged DEF SendResultLookup, SendResultWait, SendResultReply
<1>8. ASSUME NEW t \in Tasks, TaskFinished(t) PROVE NothingLost'
  BY <1>8, StreamsUnchanged DEF TaskFinished
<1>9. CASE UNCHANGED vars
  BY <1>9, StreamsUnchanged DEF vars
<1>10. QED
  BY <1>1, <1>2, <1>3, <1>4, <1>5, <1>6, <1>7, <1>8, <1>9
  DEF Next, FeedStep, ReportStep, Quiescent

(***************************************************************************)
(* The refinement: every step of the server is a step of ordered delivery  *)
(* for one feed, or changes nothing that it can see.                       *)
(***************************************************************************)
LEMMA Stutter ==
  ASSUME UNCHANGED <<phase, cli, accepted, received>>
  PROVE  UNCHANGED Delivery!vars
BY DEF Delivery!vars, feedStatus

LEMMA RefinementStep ==
  TypeOK /\ NothingLost /\ [Next]_vars => [Delivery!Next]_(Delivery!vars)
<1> SUFFICES ASSUME TypeOK, NothingLost, [Next]_vars
             PROVE  Delivery!Next \/ UNCHANGED Delivery!vars
  OBVIOUS
<1> USE DEF feedVars, streamVars, channelVars, reportVars
<1>1. ASSUME NEW f \in Feeds, SubscribeResult(f) \/ StreamFails(f)
      PROVE  UNCHANGED Delivery!vars
  <2>1. feedStatus' = feedStatus
    <3>1. /\ phase[f] # "ended" /\ phase'[f] # "ended"
          /\ cli' = cli
          /\ \A g \in Feeds : g # f => phase'[g] = phase[g]
      BY <1>1 DEF TypeOK, SubscribeResult, StreamFails
    <3>2. QED
      BY <3>1 DEF feedStatus
  <2>2. QED
    BY <1>1, <2>1 DEF SubscribeResult, StreamFails, Delivery!vars
<1>2. ASSUME NEW f \in Feeds, WriteReceived(f)
      PROVE  Delivery!Deliver(f) \/ UNCHANGED Delivery!vars
  <2>1. CASE ~ cli[f]
    BY <1>2, <2>1, Stutter DEF WriteReceived
  <2>2. CASE cli[f]
    <3>1. /\ received[f] \in Seq(Reports) /\ sink[f] \in Seq(Reports)
          /\ chan[f] \in Seq(Reports) /\ sink[f] # <<>>
      BY <1>2 DEF TypeOK, WriteReceived
    <3>2. /\ Len(received[f]) < Len(Pipeline(f))
          /\ Pipeline(f)[Len(received[f]) + 1] = Head(sink[f])
      BY <3>1, PipelineNext DEF Pipeline
    <3>3. /\ Len(received[f]) < Len(accepted[f])
          /\ accepted[f][Len(received[f]) + 1] = Head(sink[f])
      BY <2>2, <3>2 DEF NothingLost
    <3>4. /\ feedStatus[f] = "open"
          /\ feedStatus' = feedStatus
      BY <1>2, <2>2 DEF WriteReceived, feedStatus
    <3>5. received' = [received EXCEPT ![f] = Append(@, Head(sink[f]))]
      BY <1>2, <2>2 DEF WriteReceived
    <3>6. QED
      BY <1>2, <3>3, <3>4, <3>5 DEF WriteReceived, Delivery!Deliver
  <2>3. QED
    BY <2>1, <2>2
<1>3. ASSUME NEW f \in Feeds, StreamEnds(f)
      PROVE  Delivery!Complete(f) \/ UNCHANGED Delivery!vars
  <2>1. /\ phase[f] = "serving"
        /\ phase' = [phase EXCEPT ![f] = "ended"]
        /\ UNCHANGED <<cli, accepted, received>>
    BY <1>3 DEF StreamEnds
  <2>2. CASE ~ cli[f]
    <3>1. feedStatus' = feedStatus
      BY <2>1, <2>2 DEF TypeOK, feedStatus
    <3>2. QED
      BY <2>1, <3>1 DEF Delivery!vars
  <2>3. CASE cli[f]
    <3>1. sink[f] = <<>> /\ chan[f] = <<>> /\ received[f] \in Seq(Reports)
      BY <1>3, EmptySeq, LenProperties DEF TypeOK, StreamEnds, Occupied
    <3>2. received[f] = accepted[f]
      BY <2>3, <3>1, PipelineDrained DEF NothingLost, Pipeline
    <3>3. /\ feedStatus[f] = "open"
          /\ feedStatus' = [feedStatus EXCEPT ![f] = "complete"]
      BY <2>1, <2>3 DEF TypeOK, feedStatus
    <3>4. QED
      BY <2>1, <3>2, <3>3 DEF Delivery!Complete
  <2>4. QED
    BY <2>2, <2>3
<1>4. ASSUME NEW f \in Feeds, CliLeaves(f) PROVE Delivery!Break(f)
  <2>1. /\ feedStatus[f] = "open"
        /\ feedStatus' = [feedStatus EXCEPT ![f] = "broken"]
    BY <1>4 DEF TypeOK, CliLeaves, feedStatus
  <2>2. QED
    BY <1>4, <2>1 DEF CliLeaves, Delivery!Break
<1>5. ASSUME NEW r \in Reports, SendResultToNext(r)
      PROVE  (\E f \in Feeds : Delivery!Accept(f, r)) \/ UNCHANGED Delivery!vars
  <2>1. PICK f \in Feeds : f = Head(todo[r])
    BY <1>5, HeadTailProperties DEF TypeOK, SendResultToNext
  <2>2. CASE phase[f] = "serving"
    <3>1. feedStatus[f] # "complete" /\ feedStatus' = feedStatus
      BY <1>5, <2>2 DEF SendResultToNext, feedStatus
    <3>2. QED
      BY <1>5, <2>1, <2>2, <3>1 DEF SendResultToNext, Delivery!Accept
  <2>3. CASE phase[f] # "serving"
    BY <1>5, <2>1, <2>3, Stutter DEF SendResultToNext
  <2>4. QED
    BY <2>2, <2>3
<1>6. ASSUME NEW f \in Feeds, Forward(f) \/ WriteCompletes(f)
      PROVE  UNCHANGED Delivery!vars
  BY <1>6, Stutter DEF Forward, WriteCompletes
<1>7. ASSUME NEW r \in Reports,
             SendResultLookup(r) \/ SendResultWait(r) \/ SendResultReply(r)
      PROVE  UNCHANGED Delivery!vars
  BY <1>7, Stutter DEF SendResultLookup, SendResultWait, SendResultReply
<1>8. ASSUME NEW t \in Tasks, TaskFinished(t) PROVE UNCHANGED Delivery!vars
  BY <1>8, Stutter DEF TaskFinished
<1>9. CASE UNCHANGED vars
  BY <1>9, Stutter DEF vars
<1>10. QED
  BY <1>1, <1>2, <1>3, <1>4, <1>5, <1>6, <1>7, <1>8, <1>9
  DEF Next, FeedStep, ReportStep, Quiescent, Delivery!Next

(* The result side of the server implements ordered delivery: a cli gets     *)
(* every report accepted for its feed, in order and once, until it leaves,   *)
(* and its stream ends only when it has them all.                            *)
THEOREM FeedsImplementDelivery == Spec => FeedsDeliverInOrder
<1>1. Init => Delivery!Init
  BY DEF Init, Delivery!Init, feedStatus
<1>2. QED
  BY <1>1, RefinementStep, NothingLostInit, NothingLostNext, TypeCorrect, PTL
  DEF Spec, FeedsDeliverInOrder, Delivery!Spec
-----------------------------------------------------------------------------
(***************************************************************************)
(* The end of a feed.  A feed is in the list of its own task only, from    *)
(* its subscription until the task is finished; a handler holds only what  *)
(* it found in the list.  A feed that has ended is in neither.             *)
(***************************************************************************)
ListsAreByTopic ==
  \A t \in Tasks : \A k \in 1 .. Len(subscription_list[t]) :
    topic[subscription_list[t][k]] = t

OpenFeedsAreListed ==
  \A f \in Feeds : phase[f] # "new" /\ ~ finished[topic[f]] => Listed(f)

EndedIsUnreachable ==
  \A f \in Feeds : phase[f] = "ended" =>
    /\ ~ Listed(f)
    /\ \A r \in Reports : Running(r) => ~ Holds(r, f)
    /\ cli[f] => received[f] = accepted[f]

EndInv == ListsAreByTopic /\ OpenFeedsAreListed /\ EndedIsUnreachable

LEMMA EndInit == Init => EndInv
BY DEF Init, EndInv, ListsAreByTopic, OpenFeedsAreListed, EndedIsUnreachable

(* Steps of a forwarder or a handler that concern neither the lists nor the  *)
(* end of a feed.                                                            *)
LEMMA EndUnchanged ==
  ASSUME EndInv,
         UNCHANGED <<subscription_list, finished, topic, phase, cli, subscribers>>,
         \A r \in Reports : Running(r)' => Running(r),
         \A f \in Feeds : phase[f] = "ended" =>
           UNCHANGED <<received[f], accepted[f]>>
  PROVE  EndInv'
BY DEF EndInv, ListsAreByTopic, OpenFeedsAreListed, EndedIsUnreachable, Listed, Holds

LEMMA EndNext == TypeOK /\ NothingLost /\ EndInv /\ [Next]_vars => EndInv'
<1> SUFFICES ASSUME TypeOK, NothingLost, EndInv, [Next]_vars PROVE EndInv'
  OBVIOUS
<1> USE DEF feedVars, streamVars, channelVars, reportVars
<1>1. ASSUME NEW f \in Feeds, SubscribeResult(f) PROVE EndInv'
  <2>1. /\ phase[f] = "new" /\ phase' = [phase EXCEPT ![f] = "serving"]
        /\ UNCHANGED <<finished, topic, cli, subscribers, pc, received, accepted>>
        /\ subscription_list' =
             [subscription_list EXCEPT ![topic[f]] = Append(@, f)]
    BY <1>1 DEF SubscribeResult, register_subscriber
  <2>2. /\ topic[f] \in Tasks
        /\ subscription_list[topic[f]] \in Seq(Feeds)
    BY DEF TypeOK
  <2> DEFINE new == Append(subscription_list[topic[f]], f)
  <2>3. /\ subscription_list'[topic[f]] = new
        /\ \A t \in Tasks \ {topic[f]} : subscription_list'[t] = subscription_list[t]
        /\ Len(new) = Len(subscription_list[topic[f]]) + 1
        /\ Len(subscription_list[topic[f]]) \in Nat
        /\ new[Len(new)] = f
        /\ \A k \in 1 .. Len(new) - 1 : new[k] = subscription_list[topic[f]][k]
    BY <2>1, <2>2, AppendProperties, LenProperties DEF TypeOK
  <2> HIDE DEF new
  <2>4. ListsAreByTopic'
    <3>1. ASSUME NEW k \in 1 .. Len(new) PROVE topic[new[k]] = topic[f]
      <4>1. CASE k = Len(new)
        BY <4>1, <2>3
      <4>2. CASE k \in 1 .. Len(new) - 1
        BY <4>2, <2>2, <2>3 DEF EndInv, ListsAreByTopic
      <4>3. QED
        BY <4>1, <4>2, <2>3
    <3>2. QED
      BY <2>1, <2>2, <2>3, <3>1 DEF EndInv, ListsAreByTopic
  <2>5. \A g \in Feeds : Listed(g)' <=> (Listed(g) \/ g = f)
    <3> SUFFICES ASSUME NEW g \in Feeds
                 PROVE  Listed(g)' <=> (Listed(g) \/ g = f)
      OBVIOUS
    <3>1. CASE topic[g] # topic[f]
      BY <3>1, <2>1, <2>3 DEF Listed, TypeOK
    <3>2. CASE topic[g] = topic[f]
      <4>1. Listed(g)' <=> \E k \in 1 .. Len(new) : new[k] = g
        BY <3>2, <2>1, <2>3 DEF Listed
      <4>2. Listed(g) <=> \E k \in 1 .. Len(new) - 1 : new[k] = g
        BY <3>2, <2>3 DEF Listed
      <4>3. Len(new) \in Nat /\ Len(new) > 0 /\ new[Len(new)] = f
        BY <2>3
      <4>4. \A k \in 1 .. Len(new) : k \in 1 .. Len(new) - 1 \/ k = Len(new)
        BY <4>3
      <4>5. 1 .. Len(new) - 1 \subseteq 1 .. Len(new) /\ Len(new) \in 1 .. Len(new)
        BY <4>3
      <4>6. QED
        BY <4>1, <4>2, <4>3, <4>4, <4>5
    <3>3. QED
      BY <3>1, <3>2
  <2>6. OpenFeedsAreListed'
    BY <2>1, <2>5 DEF EndInv, OpenFeedsAreListed, TypeOK
  <2>7. EndedIsUnreachable'
    <3>1. \A g \in Feeds : phase'[g] = "ended" => phase[g] = "ended" /\ g # f
      BY <2>1 DEF TypeOK
    <3>2. QED
      BY <2>1, <2>5, <3>1 DEF EndInv, EndedIsUnreachable, Running, Holds
  <2>8. QED
    BY <2>4, <2>6, <2>7 DEF EndInv
<1>2. ASSUME NEW f \in Feeds,
             Forward(f) \/ WriteReceived(f) \/ WriteCompletes(f)
      PROVE  EndInv'
  <2>1. \A g \in Feeds : phase[g] = "ended" => received'[g] = received[g]
    BY <1>2 DEF Forward, WriteReceived, WriteCompletes, TypeOK
  <2>2. QED
    BY <1>2, <2>1, EndUnchanged
    DEF Forward, WriteReceived, WriteCompletes, Running
<1>3. ASSUME NEW f \in Feeds, StreamEnds(f) PROVE EndInv'
  <2>1. /\ phase[f] = "serving" /\ phase' = [phase EXCEPT ![f] = "ended"]
        /\ ~ Listed(f) /\ \A r \in Reports : Running(r) => ~ Holds(r, f)
        /\ UNCHANGED <<subscription_list, finished, topic, cli, subscribers, pc,
                       received, accepted>>
    BY <1>3 DEF StreamEnds
  <2>2. cli[f] => received[f] = accepted[f]
    <3>1. sink[f] = <<>> /\ chan[f] = <<>> /\ received[f] \in Seq(Reports)
      BY <1>3, EmptySeq, LenProperties DEF TypeOK, StreamEnds, Occupied
    <3>2. QED
      BY <3>1, PipelineDrained DEF NothingLost, Pipeline
  <2>3. ListsAreByTopic' /\ OpenFeedsAreListed'
    BY <2>1 DEF EndInv, ListsAreByTopic, OpenFeedsAreListed, Listed, TypeOK
  <2>4. \A g \in Feeds : phase'[g] = "ended" => phase[g] = "ended" \/ g = f
    BY <2>1 DEF TypeOK
  <2>5. EndedIsUnreachable'
    BY <2>1, <2>2, <2>4 DEF EndInv, EndedIsUnreachable, Listed, Holds, Running
  <2>6. QED
    BY <2>3, <2>5 DEF EndInv
<1>4. ASSUME NEW f \in Feeds, StreamFails(f) \/ CliLeaves(f) PROVE EndInv'
  <2>1. /\ phase[f] = "serving"
        /\ \A g \in Feeds : phase'[g] # "new" => phase[g] # "new"
        /\ \A g \in Feeds : phase'[g] = "ended" =>
             phase[g] = "ended" /\ cli'[g] = cli[g]
        /\ UNCHANGED <<subscription_list, finished, topic, subscribers, pc,
                       received, accepted>>
    BY <1>4 DEF StreamFails, CliLeaves, TypeOK
  <2>2. QED
    BY <2>1
    DEF EndInv, ListsAreByTopic, OpenFeedsAreListed, EndedIsUnreachable, Listed,
        Holds, Running
<1>5. ASSUME NEW r \in Reports, SendResultLookup(r) PROVE EndInv'
  <2>1. /\ subscribers' =
             [subscribers EXCEPT ![r] = subscription_list[task_id[r]]]
        /\ pc' = [pc EXCEPT ![r] = "sending"]
        /\ UNCHANGED <<subscription_list, finished, topic, phase, cli, received,
                       accepted>>
    BY <1>5 DEF SendResultLookup, get_subscribers
  <2>2. \A f \in Feeds : Holds(r, f)' => Listed(f)
    <3> DEFINE t == task_id[r]
    <3>1. subscribers'[r] = subscription_list[t] /\ t \in Tasks
      BY <2>1 DEF TypeOK
    <3>2. \A k \in 1 .. Len(subscription_list[t]) : topic[subscription_list[t][k]] = t
      BY <3>1 DEF EndInv, ListsAreByTopic
    <3>3. QED
      BY <3>1, <3>2 DEF Holds, Listed
  <2>3. \A q \in Reports \ {r}, f \in Feeds :
          (Holds(q, f)' <=> Holds(q, f)) /\ (Running(q)' <=> Running(q))
    BY <2>1 DEF Holds, Running, TypeOK
  <2>4. EndedIsUnreachable'
    BY <2>1, <2>2, <2>3 DEF EndInv, EndedIsUnreachable, Listed
  <2>5. QED
    BY <2>1, <2>4 DEF EndInv, ListsAreByTopic, OpenFeedsAreListed, Listed
<1>6. ASSUME NEW r \in Reports, SendResultToNext(r) PROVE EndInv'
  <2>1. PICK f \in Feeds : f = Head(todo[r])
    BY <1>6, HeadTailProperties DEF TypeOK, SendResultToNext
  <2>2. \A g \in Feeds : phase[g] = "ended" => accepted'[g] = accepted[g]
    BY <1>6, <2>1 DEF SendResultToNext, TypeOK
  <2>3. \A q \in Reports : Running(q)' => Running(q)
    BY <1>6, <2>1 DEF SendResultToNext, Running, TypeOK
  <2>4. QED
    BY <1>6, <2>2, <2>3, EndUnchanged DEF SendResultToNext
<1>7. ASSUME NEW r \in Reports, SendResultWait(r) \/ SendResultReply(r)
      PROVE  EndInv'
  <2>1. \A q \in Reports : Running(q)' => Running(q)
    BY <1>7 DEF SendResultWait, SendResultReply, Running, TypeOK
  <2>2. QED
    BY <1>7, <2>1, EndUnchanged DEF SendResultWait, SendResultReply
<1>8. ASSUME NEW t \in Tasks, TaskFinished(t) PROVE EndInv'
  <2>1. /\ subscription_list' = [subscription_list EXCEPT ![t] = <<>>]
        /\ finished' = [finished EXCEPT ![t] = TRUE]
        /\ UNCHANGED <<topic, phase, cli, subscribers, pc, received, accepted>>
    BY <1>8 DEF TaskFinished, disconnect_subscribers
  <2>2. ListsAreByTopic'
    <3> SUFFICES ASSUME NEW u \in Tasks, NEW k \in 1 .. Len(subscription_list'[u])
                 PROVE  topic[subscription_list'[u][k]] = u
      BY <2>1 DEF ListsAreByTopic
    <3>1. subscription_list'[t] = <<>>
      BY <2>1 DEF TypeOK
    <3>2. u # t
      BY <3>1
    <3>3. subscription_list'[u] = subscription_list[u]
      BY <2>1, <3>2 DEF TypeOK
    <3>4. QED
      BY <3>3 DEF EndInv, ListsAreByTopic
  <2>3. \A f \in Feeds : Listed(f)' <=> Listed(f) /\ topic[f] # t
    <3> SUFFICES ASSUME NEW f \in Feeds
                 PROVE  Listed(f)' <=> Listed(f) /\ topic[f] # t
      OBVIOUS
    <3>1. CASE topic[f] = t
      <4>1. subscription_list'[t] = <<>>
        BY <2>1 DEF TypeOK
      <4>2. ~ Listed(f)'
        BY <2>1, <3>1, <4>1 DEF Listed
      <4>3. QED
        BY <3>1, <4>2
    <3>2. CASE topic[f] # t
      <4>1. subscription_list'[topic[f]] = subscription_list[topic[f]]
        BY <2>1, <3>2 DEF TypeOK
      <4>2. QED
        BY <2>1, <3>2, <4>1 DEF Listed
    <3>3. QED
      BY <3>1, <3>2
  <2>4. OpenFeedsAreListed' /\ EndedIsUnreachable'
    BY <2>1, <2>3
    DEF EndInv, OpenFeedsAreListed, EndedIsUnreachable, Running, Holds, TypeOK
  <2>5. QED
    BY <2>2, <2>4 DEF EndInv
<1>9. CASE UNCHANGED vars
  BY <1>9, EndUnchanged DEF vars, Running
<1>10. QED
  BY <1>1, <1>2, <1>3, <1>4, <1>5, <1>6, <1>7, <1>8, <1>9
  DEF Next, FeedStep, ReportStep, Quiescent

(* A stream that has ended has delivered everything that was accepted for    *)
(* it, no handler is on its way to it, and its task is finished.             *)
THEOREM NoResultIsCutOff == Spec => []EndedFeedIsComplete
<1>1. TypeOK /\ EndInv => EndedFeedIsComplete
  BY DEF EndInv, OpenFeedsAreListed, EndedIsUnreachable, EndedFeedIsComplete
<1>2. QED
  BY <1>1, EndInit, EndNext, NothingLostInit, NothingLostNext, TypeCorrect, PTL
  DEF Spec
-----------------------------------------------------------------------------
(***************************************************************************)
(* The handlers.  The list of a task names each subscribed feed once.  A   *)
(* handler works through the list it found, from its first feed to its     *)
(* last; what it has passed it has put its report on, unless the cli was   *)
(* gone.                                                                   *)
(***************************************************************************)
ListsAreRegular ==
  \A t \in Tasks :
    /\ \A i, j \in 1 .. Len(subscription_list[t]) :
         subscription_list[t][i] = subscription_list[t][j] => i = j
    /\ \A i \in 1 .. Len(subscription_list[t]) : phase[subscription_list[t][i]] # "new"

FailedIsGone == \A f \in Feeds : phase[f] = "failed" => ~ cli[f]

Found(r) == Len(subscribers[r])
Left(r)  == Len(todo[r])

FollowsItsList(r) ==
  /\ \A i, j \in 1 .. Found(r) : subscribers[r][i] = subscribers[r][j] => i = j
  /\ \A i \in 1 .. Found(r) :
       topic[subscribers[r][i]] = task_id[r] /\ phase[subscribers[r][i]] # "new"
  /\ Left(r) <= Found(r)
  /\ \A i \in 1 .. Left(r) : todo[r][i] = subscribers[r][Found(r) - Left(r) + i]
  /\ pc[r] = "idle" => Found(r) = 0
  /\ pc[r] = "replied" => Left(r) = 0

HandlersFollowTheirLists == \A r \in Reports : FollowsItsList(r)

LEMMA ListsInit == Init => ListsAreRegular /\ FailedIsGone /\ HandlersFollowTheirLists
BY EmptySeq
   DEF Init, ListsAreRegular, FailedIsGone, HandlersFollowTheirLists, FollowsItsList, Found, Left

(* The steps of the feeds and the ends of tasks leave the handlers alone.    *)
LEMMA FeedFrame ==
  ASSUME NEW f \in Feeds, FeedStep(f)
  PROVE  UNCHANGED <<finished, topic, reportVars>>
BY DEF FeedStep, SubscribeResult, Forward, WriteReceived, WriteCompletes, StreamEnds,
       StreamFails, CliLeaves, feedVars

LEMMA ReportFrame ==
  ASSUME NEW r \in Reports, ReportStep(r)
  PROVE  UNCHANGED <<subscription_list, finished, phase, topic, cli, task_id, streamVars>>
BY DEF ReportStep, SendResultLookup, SendResultToNext, SendResultWait, SendResultReply, feedVars,
       channelVars

(* Feeds only get further, and no cli comes back. *)
LEMMA FeedsAdvance ==
  ASSUME TypeOK, FailedIsGone, [Next]_vars
  PROVE  /\ \A f \in Feeds : phase[f] # "new" => phase'[f] # "new"
         /\ \A f \in Feeds : cli'[f] => cli[f]
         /\ FailedIsGone'
         /\ UNCHANGED <<topic, task_id>>
<1> USE DEF TypeOK, FailedIsGone, feedVars
<1>1. CASE UNCHANGED <<phase, cli, topic, task_id>>
  BY <1>1
<1>2. ASSUME NEW f \in Feeds, FeedStep(f)
      PROVE  /\ \A g \in Feeds : phase[g] # "new" => phase'[g] # "new"
             /\ \A g \in Feeds : cli'[g] => cli[g]
             /\ FailedIsGone'
  <2>1. CASE SubscribeResult(f)
    BY <2>1 DEF SubscribeResult
  <2>2. CASE StreamEnds(f)
    BY <2>2 DEF StreamEnds
  <2>3. CASE StreamFails(f)
    BY <2>3 DEF StreamFails
  <2>4. CASE CliLeaves(f)
    BY <2>4 DEF CliLeaves
  <2>5. CASE UNCHANGED <<phase, cli>>
    BY <2>5
  <2>6. QED
    BY <1>2, <2>1, <2>2, <2>3, <2>4, <2>5 DEF FeedStep, Forward, WriteReceived, WriteCompletes
<1>3. QED
  BY <1>1, <1>2, FeedFrame, ReportFrame
     DEF Next, TaskFinished, Quiescent, vars, reportVars

LEMMA ListsNext == TypeOK /\ FailedIsGone /\ ListsAreRegular /\ [Next]_vars => ListsAreRegular'
<1> SUFFICES ASSUME TypeOK, FailedIsGone, ListsAreRegular, [Next]_vars PROVE ListsAreRegular'
  OBVIOUS
<1>1. \A f \in Feeds : phase[f] # "new" => phase'[f] # "new"
  BY FeedsAdvance
<1>2. \A t \in Tasks : subscription_list[t] \in Seq(Feeds) /\ Len(subscription_list[t]) \in Nat
  BY LenProperties DEF TypeOK
<1>3. \A t \in Tasks : \A i \in 1 .. Len(subscription_list[t]) :
        subscription_list[t][i] \in Feeds
  BY <1>2, ElementOfSeq
<1>4. CASE UNCHANGED subscription_list
  BY <1>1, <1>3, <1>4 DEF ListsAreRegular
<1>5. ASSUME NEW f \in Feeds, SubscribeResult(f) PROVE ListsAreRegular'
  <2> DEFINE t == topic[f]
             old == subscription_list[t]
             new == Append(old, f)
  <2>1. /\ phase[f] = "new" /\ phase'[f] # "new" /\ t \in Tasks
        /\ subscription_list' = [subscription_list EXCEPT ![t] = new]
    BY <1>5 DEF SubscribeResult, register_subscriber, TypeOK
  <2>2. /\ Len(new) = Len(old) + 1 /\ Len(old) \in Nat
        /\ \A i \in 1 .. Len(old) : new[i] = old[i]
        /\ new[Len(old) + 1] = f
    BY <1>2, <2>1, AppendProperties
  <2>3. subscription_list'[t] = new
        /\ \A u \in Tasks \ {t} : subscription_list'[u] = subscription_list[u]
    BY <2>1 DEF TypeOK
  <2>4. /\ \A i, j \in 1 .. Len(old) : old[i] = old[j] => i = j
        /\ \A i \in 1 .. Len(old) : old[i] \in Feeds /\ phase[old[i]] # "new" /\ old[i] # f
    BY <1>3, <2>1 DEF ListsAreRegular
  <2>5. \A u \in Tasks \ {t} :
          /\ \A i, j \in 1 .. Len(subscription_list[u]) :
               subscription_list[u][i] = subscription_list[u][j] => i = j
          /\ \A i \in 1 .. Len(subscription_list[u]) : phase'[subscription_list[u][i]] # "new"
    BY <1>1, <1>3 DEF ListsAreRegular
  <2> HIDE DEF t, old, new
  <2>6. \A i \in 1 .. Len(new) : i \in 1 .. Len(old) \/ i = Len(old) + 1
    BY <2>2
  <2>7. /\ \A i, j \in 1 .. Len(new) : new[i] = new[j] => i = j
        /\ \A i \in 1 .. Len(new) : phase'[new[i]] # "new"
    BY <1>1, <2>1, <2>2, <2>4, <2>6
  <2>8. QED
    BY <2>3, <2>5, <2>7 DEF ListsAreRegular
<1>6. ASSUME NEW t \in Tasks, TaskFinished(t) PROVE ListsAreRegular'
  <2>1. /\ subscription_list'[t] = <<>> /\ phase' = phase
        /\ \A u \in Tasks \ {t} : subscription_list'[u] = subscription_list[u]
    BY <1>6 DEF TaskFinished, disconnect_subscribers, TypeOK, feedVars
  <2>2. QED
    BY <2>1, EmptySeq DEF ListsAreRegular
<1>7. ASSUME NEW f \in Feeds, FeedStep(f), ~ SubscribeResult(f)
      PROVE  UNCHANGED subscription_list
  BY <1>7 DEF FeedStep, Forward, WriteReceived, WriteCompletes, StreamEnds, StreamFails, CliLeaves
<1>8. QED
  BY <1>4, <1>5, <1>6, <1>7, ReportFrame DEF Next, Quiescent, vars

(* How a handler gets from one subscriber to the next. *)
LEMMA TodoFacts ==
  ASSUME TypeOK, NEW r \in Reports
  PROVE  /\ Left(r) \in Nat /\ Found(r) \in Nat
         /\ \A i \in 1 .. Found(r) : subscribers[r][i] \in Feeds
         /\ Left(r) = 0 <=> todo[r] = <<>>
         /\ todo[r] # <<>> =>
              /\ Left(r) \in Nat \ {0} /\ Head(todo[r]) = todo[r][1] /\ Head(todo[r]) \in Feeds
              /\ Len(Tail(todo[r])) = Left(r) - 1
              /\ \A i \in 1 .. Left(r) - 1 : Tail(todo[r])[i] = todo[r][i + 1]
<1>1. todo[r] \in Seq(Feeds) /\ subscribers[r] \in Seq(Feeds)
  BY DEF TypeOK
<1>2. todo[r] # <<>> => Head(todo[r]) \in Feeds
  BY <1>1, HeadTailProperties
<1>3. \A i \in 1 .. Len(subscribers[r]) : subscribers[r][i] \in Feeds
  BY <1>1, ElementOfSeq
<1>4. QED
  BY <1>1, <1>2, <1>3, LenProperties, TailFacts, EmptySeq DEF Left, Found

LEMMA HandlersNext ==
  TypeOK /\ FailedIsGone /\ ListsAreRegular /\ ListsAreByTopic /\ HandlersFollowTheirLists
    /\ [Next]_vars => HandlersFollowTheirLists'
<1> SUFFICES ASSUME TypeOK, FailedIsGone, ListsAreRegular, ListsAreByTopic,
                    HandlersFollowTheirLists, [Next]_vars,
                    NEW r \in Reports
             PROVE  FollowsItsList(r)'
  BY DEF HandlersFollowTheirLists
<1>1. /\ \A f \in Feeds : phase[f] # "new" => phase'[f] # "new"
      /\ UNCHANGED <<topic, task_id>>
  BY FeedsAdvance
<1>2. FollowsItsList(r)
  BY DEF HandlersFollowTheirLists
<1>3. /\ Left(r) \in Nat /\ Found(r) \in Nat
      /\ \A i \in 1 .. Found(r) : subscribers[r][i] \in Feeds
      /\ pc[r] = "replied" => todo[r] = <<>>
  BY <1>2, TodoFacts DEF FollowsItsList
<1>4. ASSUME subscribers'[r] = subscribers[r],
             \/ todo'[r] = todo[r]
             \/ todo[r] # <<>> /\ todo'[r] = Tail(todo[r]),
             pc'[r] = "idle" => pc[r] = "idle",
             pc'[r] = "replied" => todo'[r] = <<>>
      PROVE  FollowsItsList(r)'
  <2>1. \A i \in 1 .. Found(r) : phase'[subscribers[r][i]] # "new"
    BY <1>1, <1>2, <1>3 DEF FollowsItsList
  <2>2. /\ Left(r)' <= Found(r)
        /\ \A i \in 1 .. Left(r)' : todo'[r][i] = subscribers[r][Found(r) - Left(r)' + i]
    <3>1. CASE todo'[r] = todo[r]
      BY <1>2, <3>1 DEF FollowsItsList, Left
    <3>2. CASE todo[r] # <<>> /\ todo'[r] = Tail(todo[r])
      <4>1. /\ Left(r)' = Left(r) - 1 /\ Left(r) \in Nat \ {0}
            /\ \A i \in 1 .. Left(r) - 1 : todo'[r][i] = todo[r][i + 1]
        BY <3>2, TodoFacts DEF Left
      <4>2. ASSUME NEW i \in 1 .. Left(r)'
            PROVE  todo'[r][i] = subscribers[r][Found(r) - Left(r)' + i]
        <5>1. i + 1 \in 1 .. Left(r) /\ todo'[r][i] = todo[r][i + 1]
          BY <4>1
        <5>2. todo[r][i + 1] = subscribers[r][Found(r) - Left(r) + (i + 1)]
          BY <1>2, <5>1 DEF FollowsItsList
        <5>3. Found(r) - Left(r) + (i + 1) = Found(r) - Left(r)' + i
          BY <1>3, <4>1
        <5>4. QED
          BY <5>1, <5>2, <5>3
      <4>3. Left(r) <= Found(r)
        BY <1>2 DEF FollowsItsList
      <4>4. Left(r)' <= Found(r)
        BY <1>3, <4>1, <4>3
      <4>5. QED
        BY <4>2, <4>4
    <3>3. QED
      BY <1>4, <3>1, <3>2
  <2>3. /\ Found(r)' = Found(r)
        /\ pc'[r] = "idle" => Found(r) = 0
        /\ pc'[r] = "replied" => Left(r)' = 0
    BY <1>2, <1>4, EmptySeq DEF FollowsItsList, Found, Left
  <2>4. QED
    BY <1>1, <1>2, <1>4, <2>1, <2>2, <2>3 DEF FollowsItsList
<1>5. CASE UNCHANGED reportVars
  BY <1>3, <1>4, <1>5 DEF reportVars
<1>6. ASSUME NEW q \in Reports, SendResultLookup(q) PROVE FollowsItsList(r)'
  <2>1. CASE q = r
    <3> DEFINE list == subscription_list[task_id[r]]
    <3>1. /\ task_id[r] \in Tasks /\ subscribers'[r] = list /\ todo'[r] = list
          /\ pc'[r] = "sending" /\ UNCHANGED phase
      BY <1>6, <2>1 DEF SendResultLookup, get_subscribers, TypeOK, feedVars
    <3>2. /\ \A i, j \in 1 .. Len(list) : list[i] = list[j] => i = j
          /\ \A i \in 1 .. Len(list) : phase[list[i]] # "new" /\ topic[list[i]] = task_id[r]
      BY <3>1 DEF ListsAreRegular, ListsAreByTopic
    <3>3. Found(r)' = Len(list) /\ Left(r)' = Len(list) /\ Len(list) \in Nat
      BY <3>1, LenProperties DEF TypeOK, Found, Left
    <3> HIDE DEF list
    <3>4. PICK n \in Nat : n = Len(list)
      BY <3>3
    <3>5. n <= n /\ \A i \in 1 .. n : n - n + i = i
      OBVIOUS
    <3>6. QED
      BY <1>1, <3>1, <3>2, <3>3, <3>4, <3>5 DEF FollowsItsList
  <2>2. CASE q # r
    BY <1>3, <1>4, <1>6, <2>2 DEF SendResultLookup, TypeOK
  <2>3. QED
    BY <2>1, <2>2
<1>7. ASSUME NEW q \in Reports, SendResultToNext(q) PROVE FollowsItsList(r)'
  <2>1. subscribers'[r] = subscribers[r]
    BY <1>7 DEF SendResultToNext
  <2>2. \/ todo'[r] = todo[r]
        \/ todo[r] # <<>> /\ todo'[r] = Tail(todo[r])
    BY <1>7 DEF SendResultToNext, TypeOK
  <2>3. pc'[r] = pc[r] \/ pc'[r] = "waiting"
    BY <1>7 DEF SendResultToNext, TypeOK
  <2>4. pc[r] = "replied" => todo'[r] = todo[r]
    BY <1>7 DEF SendResultToNext, TypeOK
  <2>5. QED
    BY <1>3, <1>4, <2>1, <2>2, <2>3, <2>4
<1>8. ASSUME NEW q \in Reports, SendResultWait(q) PROVE FollowsItsList(r)'
  BY <1>3, <1>4, <1>8 DEF SendResultWait, TypeOK
<1>9. ASSUME NEW q \in Reports, SendResultReply(q) PROVE FollowsItsList(r)'
  BY <1>3, <1>4, <1>9 DEF SendResultReply, TypeOK
<1>10. QED
  BY <1>5, <1>6, <1>7, <1>8, <1>9, FeedFrame
     DEF Next, ReportStep, TaskFinished, Quiescent, vars

(***************************************************************************)
(* The feeds that a handler has put its report on, or passed over.         *)
(***************************************************************************)
Passed(r) == Found(r) - Left(r) + (IF pc[r] = "waiting" THEN 1 ELSE 0)

IsOn(r, f) == \E i \in 1 .. Len(accepted[f]) : accepted[f][i] = r

Serves(r, f) ==
  /\ \A i, j \in 1 .. Len(accepted[f]) : accepted[f][i] = r /\ accepted[f][j] = r => i = j
  /\ IsOn(r, f) => \E k \in 1 .. Passed(r) : subscribers[r][k] = f
  /\ \A k \in 1 .. Passed(r) : subscribers[r][k] = f /\ cli[f] => IsOn(r, f)

HandlersServe == \A r \in Reports, f \in Feeds : Serves(r, f)

LEMMA PassedType ==
  ASSUME TypeOK, NEW r \in Reports, FollowsItsList(r)
  PROVE  /\ Passed(r) \in 0 .. Found(r)
         /\ pc[r] = "idle" => Passed(r) = 0
         /\ pc[r] = "replied" => Passed(r) = Found(r)
<1>1. /\ Left(r) \in Nat /\ Found(r) \in Nat /\ Left(r) <= Found(r)
      /\ pc[r] = "waiting" => Left(r) \in Nat \ {0}
  BY TodoFacts DEF FollowsItsList, TypeOK
<1>2. QED
  BY <1>1 DEF FollowsItsList, Passed

LEMMA ServeInit == Init => HandlersServe
BY EmptySeq DEF Init, HandlersServe, Serves, IsOn, Passed, Found, Left

(* The feed that a handler goes on with is the first that it has not passed. *)
LEMMA NextFeed ==
  ASSUME TypeOK, NEW r \in Reports, FollowsItsList(r), SendResultToNext(r)
  PROVE  /\ Head(todo[r]) \in Feeds
         /\ Passed(r) + 1 \in 1 .. Found(r)
         /\ subscribers[r][Passed(r) + 1] = Head(todo[r])
         /\ \A k \in 1 .. Passed(r) : subscribers[r][k] # Head(todo[r])
         /\ Passed(r)' = Passed(r) + 1
         /\ UNCHANGED <<subscribers, cli>>
         /\ \A q \in Reports \ {r} : Passed(q)' = Passed(q)
<1>1. /\ Left(r) \in Nat \ {0} /\ Found(r) \in Nat
      /\ Head(todo[r]) \in Feeds /\ Head(todo[r]) = todo[r][1]
      /\ Len(Tail(todo[r])) = Left(r) - 1
      /\ pc[r] = "sending"
  BY TodoFacts DEF SendResultToNext
<1>2. Passed(r) = Found(r) - Left(r)
  BY <1>1 DEF Passed
<1>3. /\ Left(r) <= Found(r) /\ 1 \in 1 .. Left(r)
      /\ todo[r][1] = subscribers[r][Found(r) - Left(r) + 1]
  BY <1>1 DEF FollowsItsList
<1>4. Passed(r) + 1 \in 1 .. Found(r)
      /\ \A k \in 1 .. Passed(r) : k \in 1 .. Found(r) /\ k # Passed(r) + 1
  BY <1>1, <1>2, <1>3
<1>5. \A k \in 1 .. Passed(r) : subscribers[r][k] # Head(todo[r])
  BY <1>1, <1>2, <1>3, <1>4 DEF FollowsItsList
<1>6. \/ pc'[r] = "waiting" /\ todo'[r] = todo[r]
      \/ pc'[r] = "sending" /\ todo'[r] = Tail(todo[r])
  BY <1>1 DEF SendResultToNext, TypeOK
<1>7. UNCHANGED <<subscribers, cli>>
  BY DEF SendResultToNext, feedVars
<1>8. Passed(r)' = Passed(r) + 1
  <2>1. Found(r)' = Found(r)
    BY <1>7 DEF Found
  <2>2. \/ pc'[r] = "waiting" /\ Left(r)' = Left(r)
        \/ pc'[r] = "sending" /\ Left(r)' = Left(r) - 1
    BY <1>1, <1>6 DEF Left
  <2>3. QED
    BY <1>1, <1>2, <2>1, <2>2 DEF Passed
<1>9. \A q \in Reports \ {r} : Passed(q)' = Passed(q)
  BY DEF SendResultToNext, TypeOK, Passed, Found, Left
<1>10. QED
  BY <1>1, <1>2, <1>3, <1>4, <1>5, <1>7, <1>8, <1>9


LEMMA ServeNext ==
  TypeOK /\ FailedIsGone /\ EndInv /\ HandlersFollowTheirLists /\ HandlersServe /\ [Next]_vars
    => HandlersServe'
<1> SUFFICES ASSUME TypeOK, FailedIsGone, EndInv, HandlersFollowTheirLists, HandlersServe,
                    [Next]_vars
             PROVE  HandlersServe'
  OBVIOUS
<1>1. \A f \in Feeds : cli'[f] => cli[f]
  BY FeedsAdvance
<1>2. \A q \in Reports : /\ FollowsItsList(q) /\ Found(q) \in Nat /\ Left(q) \in Nat
                         /\ Passed(q) \in 0 .. Found(q)
  BY PassedType, TodoFacts DEF HandlersFollowTheirLists
(* A step that puts no report on a feed, and passes no feed. *)
<1>3. ASSUME UNCHANGED accepted,
             \A q \in Reports : /\ Passed(q)' = Passed(q)
                                /\ subscribers'[q] = subscribers[q] \/ Passed(q) = 0
      PROVE  HandlersServe'
  <2> SUFFICES ASSUME NEW q \in Reports, NEW f \in Feeds PROVE Serves(q, f)'
    BY DEF HandlersServe
  <2>1. Serves(q, f) /\ IsOn(q, f)' = IsOn(q, f) /\ Passed(q)' = Passed(q)
    BY <1>3 DEF HandlersServe, IsOn
  <2>2. CASE subscribers'[q] = subscribers[q]
    BY <1>1, <1>3, <2>1, <2>2 DEF Serves
  <2>3. CASE Passed(q) = 0
    BY <1>3, <2>1, <2>3 DEF Serves
  <2>4. QED
    BY <1>3, <2>2, <2>3
<1>4. CASE UNCHANGED <<accepted, reportVars>>
  BY <1>3, <1>4 DEF reportVars, Passed, Found, Left
<1>5. ASSUME NEW r \in Reports, SendResultLookup(r) PROVE HandlersServe'
  <2>1. /\ UNCHANGED accepted /\ pc[r] = "idle" /\ pc'[r] = "sending"
        /\ subscribers'[r] = todo'[r]
        /\ subscription_list[task_id[r]] \in Seq(Feeds) /\ todo'[r] \in Seq(Feeds)
        /\ \A q \in Reports \ {r} : /\ subscribers'[q] = subscribers[q] /\ todo'[q] = todo[q]
                                    /\ pc'[q] = pc[q]
    BY <1>5 DEF SendResultLookup, get_subscribers, channelVars, TypeOK
  <2>2. Passed(r) = 0 /\ Passed(r)' = 0
    <3>1. Len(todo'[r]) \in Nat
      BY <2>1, LenProperties
    <3>2. Found(r)' = Len(todo'[r]) /\ Left(r)' = Len(todo'[r])
      BY <2>1 DEF Found, Left
    <3>3. Passed(r)' = Len(todo'[r]) - Len(todo'[r]) + 0
      BY <2>1, <3>2 DEF Passed
    <3>4. QED
      BY <1>2, <2>1, <3>1, <3>3, PassedType
  <2>3. \A q \in Reports \ {r} : Passed(q)' = Passed(q)
    BY <2>1 DEF Passed, Found, Left
  <2>4. QED
    BY <1>3, <2>1, <2>2, <2>3
<1>6. ASSUME NEW r \in Reports, SendResultToNext(r) PROVE HandlersServe'
  <2>1. PICK f \in Feeds : f = Head(todo[r])
    BY <1>2, <1>6, NextFeed
  <2>2. /\ Passed(r) \in Nat /\ subscribers[r][Passed(r) + 1] = f /\ Passed(r) + 1 \in 1 .. Found(r)
        /\ \A k \in 1 .. Passed(r) : subscribers[r][k] # f
        /\ Passed(r)' = Passed(r) + 1
        /\ UNCHANGED <<subscribers, cli>>
        /\ \A q \in Reports \ {r} : Passed(q)' = Passed(q)
    BY <1>2, <1>6, <2>1, NextFeed
  <2>3. ~ IsOn(r, f)
    BY <2>2 DEF HandlersServe, Serves
  <2>4. \A k \in 1 .. Passed(r)' : k \in 1 .. Passed(r) \/ k = Passed(r) + 1
    BY <2>2
  <2>5. 1 .. Passed(r) \subseteq 1 .. Passed(r)' /\ Passed(r) + 1 \in 1 .. Passed(r)'
    BY <2>2
  <2>6. CASE phase[f] = "serving"
    <3> DEFINE a == accepted[f]
               b == Append(a, r)
    <3>1. /\ accepted'[f] = b
          /\ \A g \in Feeds \ {f} : accepted'[g] = accepted[g]
      BY <1>6, <2>1, <2>6 DEF SendResultToNext, TypeOK
    <3>2. /\ Len(a) \in Nat /\ Len(b) = Len(a) + 1 /\ b[Len(a) + 1] = r
          /\ \A i \in 1 .. Len(a) : b[i] = a[i]
      BY AppendProperties, LenProperties DEF TypeOK
    <3> HIDE DEF b
    <3>3. \A i \in 1 .. Len(b) : i \in 1 .. Len(a) \/ i = Len(a) + 1
      BY <3>2
    <3>4. 1 .. Len(a) \subseteq 1 .. Len(b) /\ Len(a) + 1 \in 1 .. Len(b)
      BY <3>2
    <3>5. IsOn(r, f)' /\ \A q \in Reports \ {r} : IsOn(q, f)' <=> IsOn(q, f)
      BY <3>1, <3>2, <3>3, <3>4 DEF IsOn
    <3>6. \A q \in Reports, g \in Feeds \ {f} : IsOn(q, g)' <=> IsOn(q, g)
      BY <3>1 DEF IsOn
    <3>7. \A q \in Reports : \A i, j \in 1 .. Len(b) : b[i] = q /\ b[j] = q => i = j
      <4> SUFFICES ASSUME NEW q \in Reports, NEW i \in 1 .. Len(b), NEW j \in 1 .. Len(b),
                          b[i] = q, b[j] = q
                   PROVE  i = j
        OBVIOUS
      <4>1. \A k \in 1 .. Len(a) : a[k] # r
        BY <2>3 DEF IsOn
      <4>2. \A k, l \in 1 .. Len(a) : a[k] = q /\ a[l] = q => k = l
        BY DEF HandlersServe, Serves
      <4>3. QED
        BY <3>2, <3>3, <4>1, <4>2
    <3>8. ASSUME NEW q \in Reports, NEW g \in Feeds PROVE Serves(q, g)'
      <4>1. Serves(q, g)
        BY DEF HandlersServe
      <4>2. \A i, j \in 1 .. Len(accepted'[g]) :
              accepted'[g][i] = q /\ accepted'[g][j] = q => i = j
        <5>1. CASE g = f
          BY <3>1, <3>7, <5>1
        <5>2. CASE g # f
          BY <3>1, <4>1, <5>2 DEF Serves
        <5>3. QED
          BY <5>1, <5>2
      <4>3. CASE q # r
        BY <2>2, <3>5, <3>6, <4>1, <4>2, <4>3 DEF Serves
      <4>4. CASE q = r /\ g = f
        <5>1. \E k \in 1 .. Passed(r)' : subscribers[r][k] = f
          BY <2>2, <2>5
        <5>2. QED
          BY <2>2, <3>5, <4>2, <4>4, <5>1 DEF Serves
      <4>5. CASE q = r /\ g # f
        <5>1. \A k \in 1 .. Passed(r)' : subscribers[r][k] = g => k \in 1 .. Passed(r)
          BY <2>2, <2>4, <4>5
        <5>2. QED
          BY <2>2, <2>5, <3>6, <4>1, <4>2, <4>5, <5>1 DEF Serves
      <4>6. QED
        BY <4>3, <4>4, <4>5
    <3>9. QED
      BY <3>8 DEF HandlersServe
  <2>7. CASE phase[f] # "serving"
    <3>1. UNCHANGED accepted
      BY <1>6, <2>1, <2>7 DEF SendResultToNext
    <3>2. ~ cli[f]
      <4>1. phase[f] # "new"
        BY <1>2, <2>2 DEF FollowsItsList
      <4>2. Running(r) /\ Holds(r, f)
        BY <1>6, <2>2 DEF SendResultToNext, Running, Holds, Found
      <4>3. phase[f] # "ended"
        BY <4>2 DEF EndInv, EndedIsUnreachable
      <4>4. QED
        BY <2>7, <4>1, <4>3 DEF TypeOK, FailedIsGone
    <3>3. ASSUME NEW q \in Reports, NEW g \in Feeds PROVE Serves(q, g)'
      <4>1. Serves(q, g) /\ IsOn(q, g)' = IsOn(q, g)
        BY <3>1 DEF HandlersServe, IsOn
      <4>2. CASE q # r
        BY <2>2, <3>1, <4>1, <4>2 DEF Serves
      <4>3. CASE q = r
        <5>1. \A k \in 1 .. Passed(r)' : subscribers[r][k] = g /\ cli[g] => k \in 1 .. Passed(r)
          BY <2>2, <2>4, <3>2
        <5>2. QED
          BY <2>2, <2>5, <3>1, <4>1, <4>3, <5>1 DEF Serves
      <4>4. QED
        BY <4>2, <4>3
    <3>4. QED
      BY <3>3 DEF HandlersServe
  <2>8. QED
    BY <2>6, <2>7
<1>7. ASSUME NEW r \in Reports, SendResultWait(r) PROVE HandlersServe'
  <2>1. /\ UNCHANGED <<accepted, subscribers>> /\ pc[r] = "waiting" /\ pc'[r] = "sending"
        /\ todo'[r] = Tail(todo[r]) /\ todo[r] # <<>>
        /\ \A q \in Reports \ {r} : todo'[q] = todo[q] /\ pc'[q] = pc[q]
    BY <1>7 DEF SendResultWait, channelVars, TypeOK
  <2>2. Passed(r)' = Passed(r)
    <3>1. Found(r)' = Found(r) /\ Left(r)' = Left(r) - 1
      BY <2>1, TodoFacts DEF Found, Left
    <3>2. QED
      BY <1>2, <2>1, <3>1 DEF Passed
  <2>3. \A q \in Reports \ {r} : Passed(q)' = Passed(q)
    BY <2>1 DEF Passed, Found, Left
  <2>4. QED
    BY <1>3, <2>1, <2>2, <2>3
<1>8. ASSUME NEW r \in Reports, SendResultReply(r) PROVE HandlersServe'
  <2>1. /\ UNCHANGED <<accepted, subscribers, todo>>
        /\ \A q \in Reports : pc'[q] = "waiting" <=> pc[q] = "waiting"
    BY <1>8 DEF SendResultReply, channelVars, TypeOK
  <2>2. \A q \in Reports : Passed(q)' = Passed(q)
    BY <2>1 DEF Passed, Found, Left
  <2>3. QED
    BY <1>3, <2>1, <2>2
<1>9. ASSUME NEW f \in Feeds, FeedStep(f) PROVE UNCHANGED <<accepted, reportVars>>
  BY <1>9, FeedFrame DEF FeedStep, SubscribeResult, Forward, WriteReceived, WriteCompletes,
                         StreamEnds, StreamFails, CliLeaves, channelVars
<1>10. QED
  BY <1>4, <1>5, <1>6, <1>7, <1>8, <1>9
     DEF Next, ReportStep, TaskFinished, Quiescent, vars, channelVars

HandlerInv ==
  /\ FailedIsGone
  /\ ListsAreRegular
  /\ HandlersFollowTheirLists
  /\ HandlersServe

LEMMA HandlerInvInit == Init => HandlerInv
BY ListsInit, ServeInit DEF HandlerInv

LEMMA HandlerInvNext == TypeOK /\ EndInv /\ HandlerInv /\ [Next]_vars => HandlerInv'
<1> SUFFICES ASSUME TypeOK, EndInv, HandlerInv, [Next]_vars PROVE HandlerInv'
  OBVIOUS
<1>1. FailedIsGone'
  BY FeedsAdvance DEF HandlerInv
<1>2. ListsAreRegular' /\ HandlersFollowTheirLists' /\ HandlersServe'
  BY ListsNext, HandlersNext, ServeNext DEF HandlerInv, EndInv
<1>3. QED
  BY <1>1, <1>2 DEF HandlerInv

(* A report whose handler has replied is once on the feed of every cli that  *)
(* was subscribed to its task when it came and still exists, and on no feed  *)
(* of another task, whatever other handlers and failures of feeds came in    *)
(* between.                                                                  *)
THEOREM ReportsReachSubscribers == Spec => []ReportReachesItsSubscribers
<1>1. TypeOK /\ HandlerInv => ReportReachesItsSubscribers
  <2> SUFFICES ASSUME TypeOK, HandlerInv, NEW r \in Reports, NEW f \in Feeds
               PROVE  LET copies == Cardinality(Positions(r, accepted[f]))
                      IN  /\ copies <= 1
                          /\ copies = 1 => Holds(r, f) /\ task_id[r] = topic[f]
                          /\ pc[r] = "replied" /\ Holds(r, f) /\ cli[f] => copies = 1
    BY DEF ReportReachesItsSubscribers
  <2> DEFINE copies == Cardinality(Positions(r, accepted[f]))
  <2>1. FollowsItsList(r) /\ Serves(r, f) /\ Passed(r) \in 0 .. Found(r) /\ Found(r) \in Nat
    BY PassedType, TodoFacts DEF HandlerInv, HandlersFollowTheirLists, HandlersServe
  <2>2. CASE ~ IsOn(r, f)
    <3>1. Positions(r, accepted[f]) = {}
      BY <2>2 DEF IsOn, Positions
    <3>2. copies = 0
      BY <3>1, FS_EmptySet
    <3>3. ~ (pc[r] = "replied" /\ Holds(r, f) /\ cli[f])
      <4>1. SUFFICES ASSUME pc[r] = "replied", Holds(r, f), cli[f] PROVE FALSE
        OBVIOUS
      <4>2. PICK k \in 1 .. Found(r) : subscribers[r][k] = f
        BY <4>1 DEF Holds, Found
      <4>3. k \in 1 .. Passed(r)
        BY <4>1, PassedType, <2>1
      <4>4. QED
        BY <2>1, <2>2, <4>1, <4>2, <4>3 DEF Serves
    <3>4. QED
      BY <3>2, <3>3
  <2>3. CASE IsOn(r, f)
    <3>1. PICK i \in 1 .. Len(accepted[f]) : accepted[f][i] = r
      BY <2>3 DEF IsOn
    <3>2. Positions(r, accepted[f]) = {i}
      BY <2>1, <3>1 DEF Serves, Positions
    <3>3. copies = 1
      BY <3>2, FS_Singleton
    <3>4. PICK k \in 1 .. Passed(r) : subscribers[r][k] = f
      BY <2>1, <2>3 DEF Serves
    <3>5. k \in 1 .. Found(r)
      BY <2>1
    <3>6. Holds(r, f) /\ task_id[r] = topic[f]
      BY <2>1, <3>4, <3>5 DEF FollowsItsList, Holds, Found
    <3>7. QED
      BY <3>3, <3>6
  <2>4. QED
    BY <2>2, <2>3
<1>2. QED
  BY <1>1, HandlerInvInit, HandlerInvNext, EndInit, EndNext, NothingLostInit, NothingLostNext,
     TypeCorrect, PTL
  DEF Spec

-----------------------------------------------------------------------------
(***************************************************************************)
(* The backlog of a feed: the handlers parked on it are those of the last  *)
(* reports in its channel, and each of them works on this feed.            *)
(***************************************************************************)
Backs(ch, p) ==
  /\ Len(p) = IF Len(ch) > ResultBuffer THEN Len(ch) - ResultBuffer ELSE 0
  /\ \A k \in 1 .. Len(p) : p[k] = ch[ResultBuffer + k]

ParkedWait ==
  \A f \in Feeds : \A k \in 1 .. Len(parked[f]) :
    pc[parked[f][k]] = "waiting" /\ Head(todo[parked[f][k]]) = f

Backlog == ParkedWait /\ \A f \in Feeds : Backs(chan[f], parked[f])

LEMMA BacksSend ==
  ASSUME NEW ch \in Seq(Reports), NEW p \in Seq(Reports), Backs(ch, p), NEW r \in Reports
  PROVE  Backs(Append(ch, r), Channel!ParkIfFull(ch, p, r))
<1> DEFINE ch2 == Append(ch, r)
           p2 == Append(p, r)
<1>1. /\ Len(ch) \in Nat /\ Len(p) \in Nat /\ ResultBuffer \in Nat \ {0}
      /\ Len(ch2) = Len(ch) + 1 /\ (\A i \in 1 .. Len(ch) : ch2[i] = ch[i])
      /\ ch2[Len(ch) + 1] = r
      /\ Len(p2) = Len(p) + 1 /\ (\A i \in 1 .. Len(p) : p2[i] = p[i])
      /\ p2[Len(p) + 1] = r
  BY AppendProperties, LenProperties, ConstantsAssumption
<1> HIDE DEF ch2, p2
<1>2. CASE Len(ch) + 1 > ResultBuffer
  <2>1. ResultBuffer + Len(p) = Len(ch)
    BY <1>1, <1>2 DEF Backs
  <2>2. ASSUME NEW k \in 1 .. Len(p2) PROVE p2[k] = ch2[ResultBuffer + k]
    <3>1. CASE k = Len(p) + 1
      BY <1>1, <2>1, <3>1
    <3>2. CASE k \in 1 .. Len(p)
      <4>1. ResultBuffer + k \in 1 .. Len(ch)
        BY <1>1, <2>1, <3>2
      <4>2. ch2[ResultBuffer + k] = ch[ResultBuffer + k] /\ p2[k] = p[k]
        BY <1>1, <3>2, <4>1
      <4>3. p[k] = ch[ResultBuffer + k]
        BY <3>2 DEF Backs
      <4>4. QED
        BY <4>2, <4>3
    <3>3. QED
      BY <1>1, <3>1, <3>2
  <2>3. Len(p2) = IF Len(ch2) > ResultBuffer THEN Len(ch2) - ResultBuffer ELSE 0
    BY <1>1, <1>2, <2>1
  <2>4. Channel!ParkIfFull(ch, p, r) = p2
    BY <1>2 DEF Channel!ParkIfFull, p2
  <2>5. QED
    BY <2>2, <2>3, <2>4 DEF Backs, ch2
<1>3. CASE ~ (Len(ch) + 1 > ResultBuffer)
  <2>1. Len(p) = 0 /\ ~ (Len(ch2) > ResultBuffer)
    BY <1>1, <1>3 DEF Backs
  <2>2. Channel!ParkIfFull(ch, p, r) = p
    BY <1>3 DEF Channel!ParkIfFull
  <2>3. QED
    BY <2>1, <2>2 DEF Backs, ch2
<1>4. QED
  BY <1>2, <1>3

LEMMA BacksTake ==
  ASSUME NEW ch \in Seq(Reports), NEW p \in Seq(Reports), Backs(ch, p), ch # <<>>
  PROVE  Backs(Tail(ch), Channel!UnparkOne(p))
<1>1. /\ Len(ch) \in Nat \ {0} /\ Len(p) \in Nat /\ ResultBuffer \in Nat \ {0}
      /\ Len(Tail(ch)) = Len(ch) - 1
      /\ \A i \in 1 .. Len(ch) - 1 : Tail(ch)[i] = ch[i + 1]
  BY TailFacts, LenProperties, ConstantsAssumption
<1>2. CASE p = <<>>
  <2>1. Len(p) = 0
    BY <1>2, EmptySeq
  <2>2. ~ (Len(ch) > ResultBuffer)
    <3>1. SUFFICES ASSUME Len(ch) > ResultBuffer PROVE FALSE
      OBVIOUS
    <3>2. Len(p) = Len(ch) - ResultBuffer
      BY <3>1 DEF Backs
    <3>3. Len(ch) - ResultBuffer > 0
      BY <1>1, <3>1
    <3>4. QED
      BY <2>1, <3>2, <3>3
  <2>3. ~ (Len(Tail(ch)) > ResultBuffer) /\ \A k \in 1 .. Len(p) : FALSE
    BY <1>1, <2>1, <2>2
  <2>4. Channel!UnparkOne(p) = p
    BY <1>2 DEF Channel!UnparkOne
  <2>5. QED
    BY <2>1, <2>3, <2>4 DEF Backs
<1>3. CASE p # <<>>
  <2>1. /\ Len(p) > 0 /\ Len(Tail(p)) = Len(p) - 1
        /\ \A i \in 1 .. Len(p) - 1 : Tail(p)[i] = p[i + 1]
    BY <1>3, TailFacts
  <2>2. Len(ch) = ResultBuffer + Len(p)
    <3>1. Len(ch) > ResultBuffer
      BY <2>1 DEF Backs
    <3>2. Len(p) = Len(ch) - ResultBuffer
      BY <3>1 DEF Backs
    <3>3. QED
      BY <1>1, <3>2
  <2>3. ASSUME NEW k \in 1 .. Len(p) - 1 PROVE Tail(p)[k] = Tail(ch)[ResultBuffer + k]
    <3>1. /\ k + 1 \in 1 .. Len(p) /\ ResultBuffer + (k + 1) = (ResultBuffer + k) + 1
          /\ ResultBuffer + k \in 1 .. Len(ch) - 1
      BY <1>1, <2>2
    <3>2. p[k + 1] = ch[ResultBuffer + (k + 1)]
      BY <3>1 DEF Backs
    <3>3. QED
      BY <1>1, <2>1, <3>1, <3>2
  <2>4. Backs(Tail(ch), Tail(p))
    BY <1>1, <2>1, <2>2, <2>3 DEF Backs
  <2>5. QED
    BY <1>3, <2>4 DEF Channel!UnparkOne
<1>4. QED
  BY <1>2, <1>3

(* Parking adds the handler, unparking takes one away. *)
LEMMA ParkAdds ==
  ASSUME NEW p \in Seq(Reports), NEW ch, NEW r \in Reports,
         NEW k \in 1 .. Len(Channel!ParkIfFull(ch, p, r))
  PROVE  \/ Channel!ParkIfFull(ch, p, r)[k] = r
         \/ k \in 1 .. Len(p) /\ Channel!ParkIfFull(ch, p, r)[k] = p[k]
BY AppendProperties, LenProperties DEF Channel!ParkIfFull

LEMMA UnparkTakes ==
  ASSUME NEW p \in Seq(Reports), NEW k \in 1 .. Len(Channel!UnparkOne(p))
  PROVE  \E j \in 1 .. Len(p) : Channel!UnparkOne(p)[k] = p[j]
<1>1. CASE p = <<>>
  BY <1>1 DEF Channel!UnparkOne
<1>2. CASE p # <<>>
  <2>1. k \in 1 .. Len(p) - 1 /\ Tail(p)[k] = p[k + 1] /\ Channel!UnparkOne(p) = Tail(p)
    BY <1>2, TailFacts DEF Channel!UnparkOne
  <2>2. k + 1 \in 1 .. Len(p)
    BY <2>1, LenProperties
  <2>3. QED
    BY <2>1, <2>2
<1>3. QED
  BY <1>1, <1>2

LEMMA BacklogInit == Init => Backlog
<1>1. Len(<<>>) = 0
  BY EmptySeq
<1>2. QED
  BY <1>1, ConstantsAssumption DEF Init, Backlog, ParkedWait, Backs

(* A step of a handler that sends nothing: the handler is not parked before  *)
(* it.                                                                       *)
LEMMA BacklogFrame ==
  ASSUME TypeOK, Backlog, NEW r \in Reports, UNCHANGED <<chan, parked>>,
         \A q \in Reports \ {r} : pc'[q] = pc[q] /\ todo'[q] = todo[q],
         pc[r] = "waiting" => ~ Channel!IsParked(parked[Head(todo[r])], r)
  PROVE  Backlog'
<1>1. \A f \in Feeds : \A k \in 1 .. Len(parked[f]) : parked[f][k] \in Reports
  BY ElementOfSeq DEF TypeOK
<1>2. \A f \in Feeds : \A k \in 1 .. Len(parked[f]) : parked[f][k] # r
  BY DEF Backlog, ParkedWait, Channel!IsParked
<1>3. QED
  BY <1>1, <1>2 DEF Backlog, ParkedWait

LEMMA BacklogNext == TypeOK /\ Backlog /\ [Next]_vars => Backlog'
<1> SUFFICES ASSUME TypeOK, Backlog, [Next]_vars PROVE Backlog'
  OBVIOUS
<1>0. CASE UNCHANGED <<chan, parked, reportVars>>
  BY <1>0 DEF reportVars, Backlog, ParkedWait
<1>1. ASSUME NEW f \in Feeds, Forward(f) PROVE Backlog'
  <2>1. /\ chan[f] \in Seq(Reports) /\ parked[f] \in Seq(Reports) /\ chan[f] # <<>>
        /\ chan'[f] = Tail(chan[f]) /\ parked'[f] = Channel!UnparkOne(parked[f])
        /\ \A g \in Feeds \ {f} : chan'[g] = chan[g] /\ parked'[g] = parked[g]
        /\ UNCHANGED <<pc, todo>>
    BY <1>1 DEF Forward, TypeOK, reportVars
  <2>2. Backs(chan'[f], parked'[f])
    BY <2>1, BacksTake DEF Backlog
  <2>3. \A k \in 1 .. Len(parked'[f]) : \E j \in 1 .. Len(parked[f]) : parked'[f][k] = parked[f][j]
    BY <2>1, UnparkTakes
  <2>4. ParkedWait'
    BY <2>1, <2>3 DEF Backlog, ParkedWait
  <2>5. \A g \in Feeds : Backs(chan'[g], parked'[g])
    BY <2>1, <2>2 DEF Backlog
  <2>6. QED
    BY <2>4, <2>5 DEF Backlog, Backs
<1>2. ASSUME NEW f \in Feeds, StreamFails(f) PROVE Backlog'
  <2>1. /\ chan'[f] = <<>> /\ parked'[f] = <<>> /\ UNCHANGED <<pc, todo>>
        /\ \A g \in Feeds \ {f} : chan'[g] = chan[g] /\ parked'[g] = parked[g]
    BY <1>2 DEF StreamFails, TypeOK, reportVars
  <2>2. Len(<<>>) = 0
    BY EmptySeq
  <2>3. \A g \in Feeds : Backs(chan'[g], parked'[g])
    BY <2>1, <2>2, ConstantsAssumption DEF Backlog, Backs
  <2>4. ParkedWait'
    BY <2>1, <2>2 DEF Backlog, ParkedWait
  <2>5. QED
    BY <2>3, <2>4 DEF Backlog, Backs
<1>3. ASSUME NEW f \in Feeds, FeedStep(f), ~ Forward(f), ~ StreamFails(f)
      PROVE  UNCHANGED <<chan, parked, reportVars>>
  BY <1>3, FeedFrame
     DEF FeedStep, SubscribeResult, WriteReceived, WriteCompletes, StreamEnds, CliLeaves, channelVars
<1>4. ASSUME NEW r \in Reports, SendResultToNext(r) PROVE Backlog'
  <2>1. PICK f \in Feeds : f = Head(todo[r])
    BY <1>4, TodoFacts DEF SendResultToNext
  <2>2. CASE phase[f] = "serving"
    <3>1. /\ chan[f] \in Seq(Reports) /\ parked[f] \in Seq(Reports)
          /\ chan'[f] = Append(chan[f], r)
          /\ parked'[f] = Channel!ParkIfFull(chan[f], parked[f], r)
          /\ \A g \in Feeds \ {f} : chan'[g] = chan[g] /\ parked'[g] = parked[g]
          /\ UNCHANGED todo /\ pc[r] = "sending" /\ pc' = [pc EXCEPT ![r] = "waiting"]
      BY <1>4, <2>1, <2>2 DEF SendResultToNext, Channel!Enqueue, TypeOK
    <3>2. \A g \in Feeds : Backs(chan'[g], parked'[g])
      BY <3>1, BacksSend DEF Backlog
    <3>3. \A g \in Feeds : \A k \in 1 .. Len(parked'[g]) :
            \/ parked'[g][k] = r /\ g = f
            \/ k \in 1 .. Len(parked[g]) /\ parked'[g][k] = parked[g][k]
      BY <3>1, ParkAdds
    <3>4. \A g \in Feeds : \A k \in 1 .. Len(parked[g]) : parked[g][k] \in Reports
      BY ElementOfSeq DEF TypeOK
    <3>5. \A g \in Feeds : \A k \in 1 .. Len(parked[g]) :
            /\ pc[parked[g][k]] = "waiting" /\ Head(todo[parked[g][k]]) = g
            /\ parked[g][k] \in Reports \ {r}
      BY <3>1, <3>4 DEF Backlog, ParkedWait
    <3>6. pc'[r] = "waiting" /\ \A q \in Reports \ {r} : pc'[q] = pc[q]
      BY <3>1 DEF TypeOK
    <3>7. ParkedWait'
      <4> SUFFICES ASSUME NEW g \in Feeds, NEW k \in 1 .. Len(parked'[g])
                   PROVE  pc'[parked'[g][k]] = "waiting" /\ Head(todo'[parked'[g][k]]) = g
        BY DEF ParkedWait
      <4>1. CASE parked'[g][k] = r /\ g = f
        BY <2>1, <3>1, <3>6, <4>1
      <4>2. CASE k \in 1 .. Len(parked[g]) /\ parked'[g][k] = parked[g][k]
        BY <3>1, <3>5, <3>6, <4>2
      <4>3. QED
        BY <3>3, <4>1, <4>2
    <3>8. QED
      BY <3>2, <3>7 DEF Backlog, Backs
  <2>3. CASE phase[f] # "serving"
    BY <1>4, <2>1, <2>3, BacklogFrame DEF SendResultToNext, TypeOK
  <2>4. QED
    BY <2>2, <2>3
<1>5. ASSUME NEW r \in Reports, ReportStep(r), ~ SendResultToNext(r) PROVE Backlog'
  <2>1. /\ UNCHANGED <<chan, parked>>
        /\ pc[r] = "waiting" => ~ Channel!IsParked(parked[Head(todo[r])], r)
    BY <1>5 DEF ReportStep, SendResultLookup, SendResultWait, SendResultReply, channelVars
  <2>2. \A q \in Reports \ {r} : pc'[q] = pc[q] /\ todo'[q] = todo[q]
    BY <1>5 DEF ReportStep, SendResultLookup, SendResultWait, SendResultReply, TypeOK
  <2>3. QED
    BY <2>1, <2>2, BacklogFrame
<1>6. QED
  BY <1>0, <1>1, <1>2, <1>3, <1>4, <1>5
     DEF Next, TaskFinished, Quiescent, vars, channelVars

(* The handlers that a feed delays are those of the reports that its channel *)
(* has no room for, oldest first, and they report on the task of the feed.   *)
THEOREM ParkedReportsAreOwn == Spec => []OwnReportsWait
<1>1. TypeOK /\ HandlersFollowTheirLists /\ Backlog => OwnReportsWait
  <2> SUFFICES ASSUME TypeOK, HandlersFollowTheirLists, Backlog, NEW f \in Feeds
               PROVE  /\ Backs(chan[f], parked[f])
                      /\ \A k \in 1 .. Len(parked[f]) :
                           /\ pc[parked[f][k]] = "waiting"
                           /\ task_id[parked[f][k]] = topic[f]
    BY DEF OwnReportsWait, Backs
  <2>1. ASSUME NEW k \in 1 .. Len(parked[f])
        PROVE  pc[parked[f][k]] = "waiting" /\ task_id[parked[f][k]] = topic[f]
    <3>1. PICK r \in Reports : r = parked[f][k]
      BY ElementOfSeq DEF TypeOK
    <3>2. pc[r] = "waiting" /\ Head(todo[r]) = f /\ todo[r] # <<>>
      BY <3>1 DEF Backlog, ParkedWait, TypeOK
    <3>3. /\ Left(r) \in Nat \ {0} /\ Found(r) \in Nat /\ Left(r) <= Found(r)
          /\ todo[r][1] = f /\ 1 \in 1 .. Left(r)
      BY <3>2, TodoFacts DEF HandlersFollowTheirLists, FollowsItsList
    <3>4. subscribers[r][Found(r) - Left(r) + 1] = f /\ Found(r) - Left(r) + 1 \in 1 .. Found(r)
      BY <3>3 DEF HandlersFollowTheirLists, FollowsItsList
    <3>5. topic[f] = task_id[r]
      BY <3>4 DEF HandlersFollowTheirLists, FollowsItsList
    <3>6. QED
      BY <3>1, <3>2, <3>5
  <2>2. QED
    BY <2>1 DEF Backlog
<1>2. QED
  BY <1>1, BacklogInit, BacklogNext, HandlerInvInit, HandlerInvNext, EndInit, EndNext,
     NothingLostInit, NothingLostNext, TypeCorrect, PTL
  DEF Spec, HandlerInv

-----------------------------------------------------------------------------
(***************************************************************************)
(* The order of the reports.  A cli has received the first of the reports  *)
(* accepted for it, and a report is accepted behind those that had been    *)
(* acknowledged when it came.                                              *)
(***************************************************************************)
Begins(s, t) ==
  /\ Len(s) <= Len(t)
  /\ \A k \in 1 .. Len(s) : s[k] = t[k]

ReceivedFirst == \A f \in Feeds : Begins(received[f], accepted[f])

LEMMA ReceivedNext ==
  TypeOK /\ NothingLost /\ ReceivedFirst /\ [Next]_vars => ReceivedFirst'
<1> SUFFICES ASSUME TypeOK, NothingLost, ReceivedFirst, [Next]_vars PROVE ReceivedFirst'
  OBVIOUS
<1>0. CASE UNCHANGED <<received, accepted>>
  BY <1>0 DEF ReceivedFirst, Begins
<1>1. ASSUME NEW f \in Feeds, WriteReceived(f) PROVE ReceivedFirst'
  <2>1. CASE ~ cli[f]
    BY <1>0, <1>1, <2>1 DEF WriteReceived
  <2>2. CASE cli[f]
    <3> DEFINE x == Append(received[f], Head(sink[f]))
    <3>1. /\ received[f] \in Seq(Reports) /\ sink[f] \in Seq(Reports)
          /\ chan[f] \in Seq(Reports) /\ sink[f] # <<>> /\ Head(sink[f]) \in Reports
      BY <1>1, HeadTailProperties DEF TypeOK, WriteReceived
    <3>2. /\ Len(received[f]) < Len(accepted[f])
          /\ accepted[f][Len(received[f]) + 1] = Head(sink[f])
      <4>1. /\ Len(received[f]) < Len(Pipeline(f))
            /\ Pipeline(f)[Len(received[f]) + 1] = Head(sink[f])
        BY <3>1, PipelineNext DEF Pipeline
      <4>2. QED
        BY <2>2, <4>1 DEF NothingLost
    <3>3. /\ Len(x) = Len(received[f]) + 1 /\ x[Len(received[f]) + 1] = Head(sink[f])
          /\ \A k \in 1 .. Len(received[f]) : x[k] = received[f][k]
          /\ Len(received[f]) \in Nat /\ Len(accepted[f]) \in Nat
      BY <3>1, AppendProperties, LenProperties DEF TypeOK
    <3>4. /\ received'[f] = x /\ accepted' = accepted
          /\ \A g \in Feeds \ {f} : received'[g] = received[g]
      BY <1>1, <2>2 DEF WriteReceived, TypeOK
    <3> HIDE DEF x
    <3>5. \A k \in 1 .. Len(x) : k \in 1 .. Len(received[f]) \/ k = Len(received[f]) + 1
      BY <3>3
    <3>6. Begins(x, accepted[f])
      BY <3>2, <3>3, <3>5 DEF ReceivedFirst, Begins
    <3>7. \A g \in Feeds : Begins(received'[g], accepted'[g])
      BY <3>4, <3>6 DEF ReceivedFirst
    <3>8. QED
      BY <3>7 DEF ReceivedFirst, Begins
  <2>3. QED
    BY <2>1, <2>2
<1>2. ASSUME NEW r \in Reports, SendResultToNext(r) PROVE ReceivedFirst'
  <2>1. PICK f \in Feeds : f = Head(todo[r])
    BY <1>2, TodoFacts DEF SendResultToNext
  <2>2. CASE phase[f] = "serving"
    <3> DEFINE x == Append(accepted[f], r)
    <3>1. /\ accepted'[f] = x /\ received' = received
          /\ \A g \in Feeds \ {f} : accepted'[g] = accepted[g]
      BY <1>2, <2>1, <2>2 DEF SendResultToNext, TypeOK, streamVars
    <3>2. /\ Len(x) = Len(accepted[f]) + 1 /\ Len(received[f]) \in Nat /\ Len(accepted[f]) \in Nat
          /\ \A k \in 1 .. Len(accepted[f]) : x[k] = accepted[f][k]
      BY AppendProperties, LenProperties DEF TypeOK
    <3> HIDE DEF x
    <3>3. Begins(received[f], x)
      BY <3>2 DEF ReceivedFirst, Begins
    <3>4. \A g \in Feeds : Begins(received'[g], accepted'[g])
      BY <3>1, <3>3 DEF ReceivedFirst
    <3>5. QED
      BY <3>4 DEF ReceivedFirst, Begins
  <2>3. CASE phase[f] # "serving"
    BY <1>0, <1>2, <2>1, <2>3 DEF SendResultToNext, streamVars
  <2>4. QED
    BY <2>2, <2>3
<1>3. ASSUME NEW f \in Feeds, FeedStep(f), ~ WriteReceived(f) PROVE UNCHANGED <<received, accepted>>
  BY <1>3 DEF FeedStep, SubscribeResult, Forward, WriteCompletes, StreamEnds, StreamFails, CliLeaves,
              channelVars, streamVars
<1>4. ASSUME NEW r \in Reports, ReportStep(r), ~ SendResultToNext(r)
      PROVE  UNCHANGED <<received, accepted>>
  BY <1>4 DEF ReportStep, SendResultLookup, SendResultWait, SendResultReply, channelVars, streamVars
<1>5. QED
  BY <1>0, <1>1, <1>2, <1>3, <1>4
     DEF Next, TaskFinished, Quiescent, vars, channelVars, streamVars

Follows(r, q) ==
  /\ pc[q] = "replied" /\ pc[r] # "idle"
  /\ \A f \in Feeds : \A j, k \in 1 .. Len(accepted[f]) :
       accepted[f][j] = q /\ accepted[f][k] = r => j < k

AcceptedInOrder == \A r \in Reports : \A q \in earlier[r] : Follows(r, q)

LEMMA OrderNext ==
  TypeOK /\ HandlersFollowTheirLists /\ HandlersServe /\ AcceptedInOrder /\ [Next]_vars
    => AcceptedInOrder'
<1> SUFFICES ASSUME TypeOK, HandlersFollowTheirLists, HandlersServe, AcceptedInOrder, [Next]_vars
             PROVE  AcceptedInOrder'
  OBVIOUS
<1>0. \A r \in Reports : earlier[r] \subseteq Reports
  BY DEF TypeOK
(* A step of the handler of r that does not change what has been accepted:   *)
(* it has not replied before.                                                *)
<1>1. ASSUME NEW r \in Reports, pc[r] # "replied", pc[r] # "idle", pc'[r] # "idle",
             \A q \in Reports \ {r} : pc'[q] = pc[q], UNCHANGED <<accepted, earlier>>
      PROVE  AcceptedInOrder'
  BY <1>0, <1>1 DEF AcceptedInOrder, Follows
<1>2. ASSUME NEW r \in Reports, SendResultLookup(r) PROVE AcceptedInOrder'
  <2>1. /\ pc[r] = "idle" /\ pc'[r] = "sending" /\ accepted' = accepted
        /\ earlier'[r] = {q \in Reports : pc[q] = "replied"}
        /\ \A q \in Reports \ {r} : pc'[q] = pc[q] /\ earlier'[q] = earlier[q]
    BY <1>2 DEF SendResultLookup, TypeOK, channelVars
  <2>2. \A f \in Feeds : ~ IsOn(r, f)
    <3>1. Passed(r) = 0
      BY <2>1, PassedType DEF HandlersFollowTheirLists
    <3>2. QED
      BY <3>1 DEF HandlersServe, Serves
  <2>3. \A f \in Feeds : \A k \in 1 .. Len(accepted[f]) : accepted[f][k] # r
    BY <2>2 DEF IsOn
  <2>4. ASSUME NEW p \in Reports, NEW q \in earlier'[p] PROVE Follows(p, q)'
    <3>1. CASE p = r
      BY <2>1, <2>3, <2>4, <3>1 DEF Follows
    <3>2. CASE p # r
      <4>1. q \in earlier[p] /\ q \in Reports /\ Follows(p, q)
        BY <1>0, <2>1, <2>4, <3>2 DEF AcceptedInOrder
      <4>2. q # r
        BY <2>1, <4>1 DEF Follows
      <4>3. QED
        BY <2>1, <3>2, <4>1, <4>2 DEF Follows
    <3>3. QED
      BY <3>1, <3>2
  <2>5. QED
    BY <2>4 DEF AcceptedInOrder
<1>3. ASSUME NEW r \in Reports, SendResultToNext(r) PROVE AcceptedInOrder'
  <2>1. PICK f \in Feeds : f = Head(todo[r])
    BY <1>3, TodoFacts DEF SendResultToNext
  <2>2. /\ pc[r] = "sending" /\ pc'[r] # "idle" /\ UNCHANGED earlier
        /\ \A q \in Reports \ {r} : pc'[q] = pc[q]
    BY <1>3 DEF SendResultToNext, TypeOK
  <2>3. CASE phase[f] = "serving"
    <3> DEFINE a == accepted[f]
               x == Append(a, r)
    <3>1. /\ accepted'[f] = x
          /\ \A g \in Feeds \ {f} : accepted'[g] = accepted[g]
      BY <1>3, <2>1, <2>3 DEF SendResultToNext, TypeOK
    <3>2. /\ Len(x) = Len(a) + 1 /\ Len(a) \in Nat /\ x[Len(a) + 1] = r
          /\ \A k \in 1 .. Len(a) : x[k] = a[k]
      BY AppendProperties, LenProperties DEF TypeOK
    <3> HIDE DEF x
    <3>3. \A k \in 1 .. Len(x) : k \in 1 .. Len(a) \/ k = Len(a) + 1
      BY <3>2
    <3>4. ASSUME NEW p \in Reports, NEW q \in earlier[p] PROVE Follows(p, q)'
      <4>1. Follows(p, q) /\ q \in Reports
        BY <1>0 DEF AcceptedInOrder
      <4>2. q # r
        BY <2>2, <4>1 DEF Follows
      <4>3. pc'[q] = "replied" /\ pc'[p] # "idle"
        BY <2>2, <4>1, <4>2 DEF Follows
      <4>4. ASSUME NEW j \in 1 .. Len(x), NEW k \in 1 .. Len(x), x[j] = q, x[k] = p
            PROVE  j < k
        <5>1. j \in 1 .. Len(a) /\ a[j] = q
          BY <3>2, <3>3, <4>2, <4>4
        <5>2. CASE k = Len(a) + 1
          BY <3>2, <5>1, <5>2
        <5>3. CASE k \in 1 .. Len(a)
          <6>1. a[k] = p
            BY <3>2, <4>4, <5>3
          <6>2. QED
            BY <4>1, <5>1, <5>3, <6>1 DEF Follows
        <5>4. QED
          BY <3>3, <5>2, <5>3
      <4>5. ASSUME NEW g \in Feeds, NEW j \in 1 .. Len(accepted'[g]),
                   NEW k \in 1 .. Len(accepted'[g]),
                   accepted'[g][j] = q, accepted'[g][k] = p
            PROVE  j < k
        <5>1. CASE g = f
          BY <3>1, <4>4, <4>5, <5>1
        <5>2. CASE g # f
          BY <3>1, <4>1, <4>5, <5>2 DEF Follows
        <5>3. QED
          BY <5>1, <5>2
      <4>6. QED
        BY <4>3, <4>5 DEF Follows
    <3>5. QED
      BY <2>2, <3>4 DEF AcceptedInOrder
  <2>4. CASE phase[f] # "serving"
    BY <1>1, <1>3, <2>1, <2>2, <2>4 DEF SendResultToNext
  <2>5. QED
    BY <2>3, <2>4
<1>4. ASSUME NEW r \in Reports, SendResultWait(r) \/ SendResultReply(r) PROVE AcceptedInOrder'
  <2>1. /\ pc[r] # "replied" /\ pc[r] # "idle" /\ pc'[r] # "idle"
        /\ \A q \in Reports \ {r} : pc'[q] = pc[q]
        /\ UNCHANGED <<accepted, earlier>>
    BY <1>4 DEF SendResultWait, SendResultReply, channelVars, TypeOK
  <2>2. QED
    BY <1>1, <2>1
<1>5. CASE UNCHANGED <<accepted, reportVars>>
  BY <1>5 DEF reportVars, AcceptedInOrder, Follows
<1>6. ASSUME NEW f \in Feeds, FeedStep(f) PROVE UNCHANGED <<accepted, reportVars>>
  BY <1>6, FeedFrame DEF FeedStep, SubscribeResult, Forward, WriteReceived, WriteCompletes,
                         StreamEnds, StreamFails, CliLeaves, channelVars
<1>7. QED
  BY <1>2, <1>3, <1>4, <1>5, <1>6
     DEF Next, ReportStep, TaskFinished, Quiescent, vars, channelVars

(* No cli receives a report before one that had been acknowledged when the   *)
(* report came: the handlers of a client's results run on several threads,   *)
(* and wait for several cli, without overtaking each other.                  *)
THEOREM ReportsStayInOrder == Spec => []ReportsKeepTheirOrder
<1>1. Init => ReceivedFirst /\ AcceptedInOrder
  BY EmptySeq DEF Init, ReceivedFirst, Begins, AcceptedInOrder
<1>2. TypeOK /\ ReceivedFirst /\ AcceptedInOrder => ReportsKeepTheirOrder
  <2> SUFFICES ASSUME TypeOK, ReceivedFirst, AcceptedInOrder,
                      NEW f \in Feeds, NEW r \in Reports, NEW q \in earlier[r],
                      NEW j \in Positions(q, received[f]), NEW k \in Positions(r, received[f])
               PROVE  j < k
    BY DEF ReportsKeepTheirOrder
  <2>1. /\ j \in 1 .. Len(received[f]) /\ received[f][j] = q
        /\ k \in 1 .. Len(received[f]) /\ received[f][k] = r
    BY DEF Positions
  <2>2. Len(received[f]) \in Nat /\ Len(accepted[f]) \in Nat /\ Begins(received[f], accepted[f])
    BY LenProperties DEF TypeOK, ReceivedFirst
  <2>3. /\ j \in 1 .. Len(accepted[f]) /\ accepted[f][j] = q
        /\ k \in 1 .. Len(accepted[f]) /\ accepted[f][k] = r
    BY <2>1, <2>2 DEF Begins
  <2>4. QED
    BY <2>3 DEF AcceptedInOrder, Follows
<1>3. QED
  BY <1>1, <1>2, ReceivedNext, OrderNext, HandlerInvInit, HandlerInvNext, EndInit, EndNext,
     NothingLostInit, NothingLostNext, TypeCorrect, PTL
  DEF Spec, HandlerInv
=============================================================================
