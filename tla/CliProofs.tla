------------------------------ MODULE CliProofs ------------------------------
(***************************************************************************)
(* Theorems about Cli and the start of the programs in Main, for every set *)
(* of ports, clients, results and hostnames, any databases, and any bound  *)
(* on the messages: TLS is used where it was asked for, a panic has a      *)
(* cause, and every reply is shown.                                        *)
(***************************************************************************)
EXTENDS Cli, SequenceFacts, FiniteSetTheorems

-----------------------------------------------------------------------------
(* What a running server or client was given at its start.                   *)
Started ==
  /\ server = "secure" =>
       server_args.certificate = "readable" /\ server_args.private_key = "readable"
  /\ server = "plain" => ~ BothGiven(server_args)
  /\ client = "secure" => client_args.certificate = "readable"
  /\ client = "plain" => client_args.certificate = "absent"

ArgsOK == server_args \in ServerArgs /\ client_args \in ClientArgs

StartInv == ArgsOK /\ Started

LEMMA StartInvInit == Init => StartInv
BY DEF Init, StartInit, StartInv, ArgsOK, Started

LEMMA StartInvNext == StartInv /\ [Next]_vars => StartInv'
<1> SUFFICES ASSUME StartInv, [Next]_vars PROVE StartInv'
  OBVIOUS
<1>1. CASE UNCHANGED startVars
  BY <1>1 DEF StartInv, ArgsOK, Started, BothGiven, startVars
<1>2. CASE StartServer
  <2>1. /\ server' \in IF ServerPanics(server_args) THEN {"panicked"}
                       ELSE {ServerChannel(server_args), "panicked"}
        /\ UNCHANGED <<server_args, client, client_args>>
    BY <1>2 DEF StartServer
  <2>2. server_args.certificate \in Files /\ server_args.private_key \in Files
    BY DEF StartInv, ArgsOK, ServerArgs
  <2>3. CASE server' = "panicked"
    BY <2>1, <2>3 DEF StartInv, ArgsOK, Started
  <2>4. CASE ~ ServerPanics(server_args) /\ server' = ServerChannel(server_args)
    BY <2>1, <2>2, <2>4 DEF StartInv, ArgsOK, Started, ServerPanics, ServerChannel, BothGiven,
       read_file_content_panics, Files
  <2>5. QED
    BY <2>1, <2>3, <2>4
<1>3. CASE StartClient
  <2>1. client_args.certificate \in Files
    BY DEF StartInv, ArgsOK, ClientArgs
  <2>2. QED
    BY <1>3, <2>1 DEF StartClient, StartInv, ArgsOK, Started, BothGiven, ClientPanics,
       ClientChannel, read_file_content_panics, Files
<1>4. CASE CliNext
  BY <1>1, <1>4 DEF CliNext, Unimplemented, print_client_list, ReadInput, DoTask, ReportFailure,
     OpenDatabases, Subscribe, ReceiveResult, StreamEnds
<1>5. QED
  BY <1>1, <1>2, <1>3, <1>4 DEF Next, StartNext, vars

(* A client with a certificate talks to no server without certificate and    *)
(* key, and one without to none that has both, whatever the order of their   *)
(* starts.                                                                   *)
THEOREM SecureTalksToSecure == Spec => []CertificatesAreUsed
<1>1. StartInv => CertificatesAreUsed
  BY DEF StartInv, Started, CertificatesAreUsed, ClientConnected, BothGiven
<1>2. QED
  BY <1>1, StartInvInit, StartInvNext, PTL DEF Spec

-----------------------------------------------------------------------------
(***************************************************************************)
(* The panics.  What the cli has behind it at each of its stages: before   *)
(* the server has answered there is no output, and before it subscribes    *)
(* there are no messages, and one task exactly if it was scheduled.        *)
(***************************************************************************)
Stages ==
  /\ messages \in Seq(TaskResults)
  /\ stage = "started" => tasks = 0
  /\ stage = "read" => tasks = 0
  /\ stage \in {"started", "read", "answered"} => output = <<>>
  /\ stage \in {"started", "read", "answered", "opened"} => messages = <<>>
  /\ stage = "answered" => (answer = "scheduled" => tasks = 1)
  /\ stage = "opened" => tasks = 1

PanicInv == Stages /\ PanicHasACause

LEMMA PanicInit == Init => PanicInv
BY EmptySeq DEF Init, PanicInv, Stages, PanicHasACause

LEMMA PanicNext == PanicInv /\ [Next]_vars => PanicInv'
<1> SUFFICES ASSUME PanicInv, [Next]_vars PROVE PanicInv'
  OBVIOUS
<1>0. Stages /\ PanicHasACause
  BY DEF PanicInv
<1>1. CASE UNCHANGED <<options, stage, tasks, answer, messages, output>>
  BY <1>0, <1>1 DEF PanicInv, Stages, PanicHasACause
<1>2. CASE Unimplemented
  BY <1>0, <1>2 DEF Unimplemented, Panic, PanicInv, Stages, PanicHasACause
<1>3. CASE print_client_list \/ StreamEnds
  <2>1. stage' = "ended" /\ messages' = messages
    BY <1>3 DEF print_client_list, StreamEnds
  <2>2. QED
    BY <1>0, <2>1 DEF PanicInv, Stages, PanicHasACause
<1>4. CASE ReadInput
  BY <1>0, <1>4 DEF ReadInput, InputIsGood, Panic, PanicInv, Stages, PanicHasACause
<1>5. CASE DoTask
  BY <1>0, <1>5 DEF DoTask, PanicInv, Stages, PanicHasACause
<1>6. CASE ReportFailure
  <2>1. /\ output = <<>> /\ messages' = messages /\ answer' = answer
        /\ (stage' = "panicked" /\ answer = "failed") \/ stage' = "ended"
    BY <1>0, <1>6 DEF ReportFailure, ErrorMessageMissing, Panic, Stages
  <2>2. answer = "failed" =>
          output' = Append(<<>>, Line("error", <<"failed to schedule task">>)) \o <<>>
    BY <1>6, <2>1 DEF ReportFailure, ErrorMessageMissing
  <2>3. answer = "failed" => output' # <<>>
    <3> DEFINE line == Line("error", <<"failed to schedule task">>)
    <3>1. answer = "failed" => output' = Append(<<>>, line) \o <<>>
      BY <2>2
    <3> HIDE DEF line
    <3>2. <<>> \in Seq({line}) /\ Append(<<>>, line) \in Seq({line}) /\ Append(<<>>, line) # <<>>
      BY EmptySeq, AppendProperties
    <3>3. Append(<<>>, line) \o <<>> = Append(<<>>, line)
      BY <3>2, ConcatEmptySeq
    <3>4. QED
      BY <3>1, <3>2, <3>3
  <2>4. QED
    BY <1>0, <2>1, <2>3 DEF PanicInv, Stages, PanicHasACause
<1>7. CASE OpenDatabases
  <2>1. /\ messages' = messages /\ tasks' = tasks /\ options' = options
        /\ stage = "answered" /\ answer = "scheduled"
        /\ \/ "unreadable" \in {options.country, options.asn} /\ stage' = "panicked"
           \/ stage' = "opened"
    BY <1>7 DEF OpenDatabases, Panic
  <2>2. QED
    BY <1>0, <2>1 DEF PanicInv, Stages, PanicHasACause
<1>8. CASE Subscribe
  BY <1>0, <1>8 DEF Subscribe, PanicInv, Stages, PanicHasACause
<1>9. CASE ReceiveResult
  <2>1. PICK message \in TaskResults :
          /\ messages' = Append(messages, message) /\ options' = options
          /\ \/ stage' = "subscribed"
             \/ /\ stage' = "panicked"
                /\ \E k \in 1 .. Len(message.results) : DifferencePanics(message.results[k])
    BY <1>9 DEF ReceiveResult, Panic
  <2>2. /\ messages' \in Seq(TaskResults) /\ Len(messages) + 1 \in 1 .. Len(messages')
        /\ messages'[Len(messages) + 1] = message
    BY <1>0, <2>1, AppendProperties, LenProperties DEF Stages
  <2>3. Stages'
    BY <2>1, <2>2 DEF Stages
  <2>4. PanicHasACause'
    <3>1. CASE stage' = "subscribed"
      BY <3>1 DEF PanicHasACause
    <3>2. CASE \E k \in 1 .. Len(message.results) : DifferencePanics(message.results[k])
      <4>1. PICK k \in 1 .. Len(message.results) : DifferencePanics(message.results[k])
        BY <3>2
      <4>2. /\ options'.debug
            /\ \E n \in 1 .. Len(messages') : \E i \in 1 .. Len(messages'[n].results) :
                 messages'[n].results[i].ping
                 /\ messages'[n].results[i].receive < messages'[n].results[i].transmit
        BY <2>1, <2>2, <4>1 DEF DifferencePanics
      <4>3. QED
        BY <4>2 DEF PanicHasACause
    <3>3. QED
      BY <2>1, <3>1, <3>2
  <2>5. QED
    BY <2>3, <2>4 DEF PanicInv
<1>10. QED
  BY <1>1, <1>2, <1>3, <1>4, <1>5, <1>6, <1>7, <1>8, <1>9 DEF Next, StartNext, CliNext, vars

(* The cli panics for the reasons that the code has, and for no other.       *)
THEOREM PanicsHaveCauses == Spec => []PanicHasACause
<1>1. PanicInv => PanicHasACause
  BY DEF PanicInv
<1>2. QED
  BY <1>1, PanicInit, PanicNext, PTL DEF Spec

-----------------------------------------------------------------------------
(***************************************************************************)
(* Selecting from a sequence.                                              *)
(***************************************************************************)
KeptOf(s, places) ==
  CHOOSE kept : kept = [n \in 0 .. Len(s) |->
    IF n = 0 THEN <<>>
    ELSE IF n \in places THEN Append(kept[n - 1], s[n]) ELSE kept[n - 1]]

(* What is kept of the first places, one after the other. *)
LEMMA KeptFacts ==
  ASSUME NEW S, NEW s \in Seq(S), NEW places
  PROVE  LET kept == KeptOf(s, places) IN
         /\ SelectAt(s, places) = kept[Len(s)]
         /\ kept \in [0 .. Len(s) -> Seq(S)]
         /\ kept[0] = <<>>
         /\ \A n \in 1 .. Len(s) :
              kept[n] = IF n \in places THEN Append(kept[n - 1], s[n]) ELSE kept[n - 1]
<1> DEFINE step == [n \in 1 .. Len(s) |-> [x \in Seq(S) |->
                      IF n \in places THEN Append(x, s[n]) ELSE x]]
<1>1. Len(s) \in Nat /\ \A n \in 1 .. Len(s) : s[n] \in S
  BY LenProperties, ElementOfSeq
<1>2. step \in [1 .. Len(s) -> [Seq(S) -> Seq(S)]]
  <2>1. \A n \in 1 .. Len(s) : \A x \in Seq(S) :
          (IF n \in places THEN Append(x, s[n]) ELSE x) \in Seq(S)
    BY <1>1, AppendProperties
  <2>2. QED
    BY <2>1
<1>3. <<>> \in Seq(S)
  BY EmptySeq
<1>4. PICK f \in [0 .. Len(s) -> Seq(S)] :
        f = [n \in 0 .. Len(s) |-> IF n = 0 THEN <<>> ELSE step[n][f[n - 1]]]
  <2> HIDE DEF step
  <2>1. Stepwise(Len(s), Seq(S), <<>>, step)
    BY <1>1, <1>2, <1>3, StepByStep
  <2>2. QED
    BY <2>1 DEF Stepwise
<1>5. f = [n \in 0 .. Len(s) |->
             IF n = 0 THEN <<>>
             ELSE IF n \in places THEN Append(f[n - 1], s[n]) ELSE f[n - 1]]
  <2>1. \A n \in 1 .. Len(s) :
          step[n][f[n - 1]] = IF n \in places THEN Append(f[n - 1], s[n]) ELSE f[n - 1]
    <3>1. \A n \in 1 .. Len(s) : f[n - 1] \in Seq(S)
      <4>1. \A n \in 1 .. Len(s) : n - 1 \in 0 .. Len(s)
        BY <1>1
      <4>2. QED
        BY <1>4, <4>1, Zenon
    <3>2. QED
      BY <3>1, Zenon
  <2> HIDE DEF step
  <2>2. \A n \in 0 .. Len(s) : (IF n = 0 THEN <<>> ELSE step[n][f[n - 1]])
           = IF n = 0 THEN <<>>
             ELSE IF n \in places THEN Append(f[n - 1], s[n]) ELSE f[n - 1]
    BY <1>1, <2>1
  <2>3. QED
    BY <1>4, <2>2, Zenon
<1> DEFINE kept == KeptOf(s, places)
<1>6. kept = [n \in 0 .. Len(s) |->
                IF n = 0 THEN <<>>
                ELSE IF n \in places THEN Append(kept[n - 1], s[n]) ELSE kept[n - 1]]
  BY <1>5 DEF KeptOf
<1>7. SelectAt(s, places) = kept[Len(s)]
  BY DEF SelectAt, KeptOf
<1> HIDE DEF kept
<1>8. kept[0] = <<>>
  BY <1>1, <1>6
<1>9. \A n \in 1 .. Len(s) :
        kept[n] = IF n \in places THEN Append(kept[n - 1], s[n]) ELSE kept[n - 1]
  <2>1. ASSUME NEW n \in 1 .. Len(s)
        PROVE  kept[n] = IF n \in places THEN Append(kept[n - 1], s[n]) ELSE kept[n - 1]
    <3>1. n \in 0 .. Len(s) /\ n # 0
      BY <1>1
    <3>2. kept[n] = IF n = 0 THEN <<>>
                    ELSE IF n \in places THEN Append(kept[n - 1], s[n]) ELSE kept[n - 1]
      BY <1>6, <3>1, Zenon
    <3>3. QED
      BY <3>1, <3>2, Zenon
  <2>2. QED
    BY <2>1, Zenon
<1>10. kept \in [0 .. Len(s) -> Seq(S)]
  <2> DEFINE T == {n \in 0 .. Len(s) : kept[n] \in Seq(S)}
  <2>1. 0 \in T
    <3>1. 0 \in 0 .. Len(s)
      BY <1>1
    <3>2. QED
      BY <3>1, <1>3, <1>8, Zenon
  <2>2. ASSUME NEW n \in 0 .. Len(s), n \in T, n < Len(s) PROVE n + 1 \in T
    <3>1. n + 1 \in 1 .. Len(s) /\ n + 1 \in 0 .. Len(s) /\ (n + 1) - 1 = n
      BY <1>1, <2>2
    <3>2. kept[n + 1] = IF n + 1 \in places THEN Append(kept[n], s[n + 1]) ELSE kept[n]
      BY <1>9, <3>1
    <3>3. kept[n + 1] \in Seq(S)
      BY <1>1, <2>2, <3>1, <3>2, AppendProperties
    <3>4. QED
      BY <3>1, <3>3
  <2> HIDE DEF T
  <2>3. 0 .. Len(s) \subseteq T
    BY <1>1, <2>1, <2>2, Induction
  <2>4. \A n \in 0 .. Len(s) : kept[n] \in Seq(S)
    BY <2>3 DEF T
  <2>5. QED
    BY <1>6, <2>4
<1>11. QED
  BY <1>7, <1>8, <1>9, <1>10 DEF kept

(* u prolongs s, and the places in more prolong those in places. *)
Prolongs(u, more, s, places) ==
  /\ Len(s) <= Len(u)
  /\ \A n \in 1 .. Len(s) : u[n] = s[n] /\ (n \in more <=> n \in places)

NoneAfter(s, u, more) == \A n \in 1 .. Len(u) : n > Len(s) => n \notin more
AllAfter(s, u, more) == \A n \in 1 .. Len(u) : n > Len(s) => n \in more

(* What is kept of the first places does not depend on those that follow.    *)
LEMMA KeptOfFirst ==
  ASSUME NEW S, NEW s \in Seq(S), NEW u \in Seq(S), NEW places, NEW more,
         Prolongs(u, more, s, places)
  PROVE  KeptOf(u, more)[Len(s)] = SelectAt(s, places)
<1> DEFINE a == KeptOf(s, places)
           b == KeptOf(u, more)
           T == {n \in 0 .. Len(s) : b[n] = a[n]}
<1>1. Len(s) \in Nat /\ Len(u) \in Nat
  BY LenProperties
<1>0. Len(s) <= Len(u) /\ \A n \in 1 .. Len(s) : u[n] = s[n] /\ (n \in more <=> n \in places)
  BY DEF Prolongs
<1>2. /\ SelectAt(s, places) = a[Len(s)]
      /\ a[0] = <<>>
      /\ \A n \in 1 .. Len(s) : a[n] = IF n \in places THEN Append(a[n - 1], s[n]) ELSE a[n - 1]
  BY KeptFacts
<1>3. /\ b[0] = <<>>
      /\ \A n \in 1 .. Len(u) : b[n] = IF n \in more THEN Append(b[n - 1], u[n]) ELSE b[n - 1]
  BY KeptFacts
<1> HIDE DEF a, b
<1>4. 0 \in T
  BY <1>1, <1>2, <1>3
<1>5. ASSUME NEW k \in 0 .. Len(s), k \in T, k < Len(s) PROVE k + 1 \in T
  <2>1. PICK n \in 1 .. Len(s) : n = k + 1 /\ n - 1 = k
    BY <1>1, <1>5
  <2>2. n \in 1 .. Len(u) /\ n \in 0 .. Len(s)
    BY <1>0, <1>1, <2>1
  <2>3. b[n - 1] = a[n - 1]
    BY <1>5, <2>1
  <2>4. b[n] = a[n]
    BY <1>0, <1>2, <1>3, <2>1, <2>2, <2>3, Zenon
  <2>5. QED
    BY <2>1, <2>2, <2>4
<1>6. 0 .. Len(s) \subseteq T
  <2> HIDE DEF T
  <2>1. QED
    BY <1>1, <1>4, <1>5, Induction
<1>7. b[Len(s)] = a[Len(s)]
  BY <1>1, <1>6
<1>8. QED
  BY <1>2, <1>7 DEF b

SameSelection(u, more, s, places) == SelectAt(u, more) = SelectAt(s, places)

(* Nothing is selected of what follows s. *)
LEMMA SelectNoMore ==
  ASSUME NEW S, NEW s \in Seq(S), NEW u \in Seq(S), NEW places, NEW more,
         Prolongs(u, more, s, places), NoneAfter(s, u, more)
  PROVE  SameSelection(u, more, s, places)
<1> DEFINE b == KeptOf(u, more)
           T == {n \in 0 .. Len(u) : n >= Len(s) => b[n] = b[Len(s)]}
<1>1. Len(s) \in Nat /\ Len(u) \in Nat
  BY LenProperties
<1>0. Len(s) <= Len(u)
  BY DEF Prolongs
<1>2. /\ SelectAt(u, more) = b[Len(u)]
      /\ \A n \in 1 .. Len(u) : b[n] = IF n \in more THEN Append(b[n - 1], u[n]) ELSE b[n - 1]
  BY KeptFacts
<1>3. b[Len(s)] = SelectAt(s, places)
  BY KeptOfFirst
<1> HIDE DEF b
<1>4. 0 \in T
  BY <1>1
<1>5. ASSUME NEW k \in 0 .. Len(u), k \in T, k < Len(u) PROVE k + 1 \in T
  <2>1. PICK n \in 1 .. Len(u) : n = k + 1 /\ n - 1 = k
    BY <1>1, <1>5
  <2>2. n \notin more => b[n] = b[k]
    BY <1>2, <2>1, Zenon
  <2>3. n > Len(s) => n \notin more
    BY DEF NoneAfter
  <2>4. n >= Len(s) => b[n] = b[Len(s)]
    BY <1>1, <1>5, <2>1, <2>2, <2>3
  <2>5. n \in 0 .. Len(u)
    BY <1>1
  <2>6. QED
    BY <2>1, <2>4, <2>5
<1>6. 0 .. Len(u) \subseteq T
  <2> HIDE DEF T
  <2>1. QED
    BY <1>1, <1>4, <1>5, Induction
<1>7. b[Len(u)] = b[Len(s)]
  BY <1>0, <1>1, <1>6
<1>8. QED
  BY <1>2, <1>3, <1>7 DEF SameSelection

(* b follows a with what u follows s with. *)
Grows(a, b, s, u) ==
  /\ Len(b) = Len(a) + (Len(u) - Len(s))
  /\ \A j \in 1 .. Len(a) : b[j] = a[j]
  /\ \A j \in 1 .. Len(u) - Len(s) : b[Len(a) + j] = u[Len(s) + j]

(* All that follows s is selected. *)
LEMMA SelectAllMore ==
  ASSUME NEW S, NEW s \in Seq(S), NEW u \in Seq(S), NEW places, NEW more,
         Prolongs(u, more, s, places), AllAfter(s, u, more)
  PROVE  /\ SelectAt(s, places) \in Seq(S)
         /\ Grows(SelectAt(s, places), SelectAt(u, more), s, u)
<1> DEFINE kept == KeptOf(u, more)
           a == SelectAt(s, places)
           Grown(n) == LET d == n - Len(s) IN
                       /\ Len(kept[n]) = Len(a) + d
                       /\ \A j \in 1 .. Len(a) : kept[n][j] = a[j]
                       /\ \A j \in 1 .. d : kept[n][Len(a) + j] = u[Len(s) + j]
           T == {n \in 0 .. Len(u) : n >= Len(s) => Grown(n)}
<1>1. Len(s) \in Nat /\ Len(u) \in Nat /\ \A n \in 1 .. Len(u) : u[n] \in S
  BY LenProperties, ElementOfSeq
<1>0. Len(s) <= Len(u)
  BY DEF Prolongs
<1>2. /\ SelectAt(u, more) = kept[Len(u)]
      /\ kept \in [0 .. Len(u) -> Seq(S)]
      /\ \A n \in 1 .. Len(u) :
           kept[n] = IF n \in more THEN Append(kept[n - 1], u[n]) ELSE kept[n - 1]
  BY KeptFacts
<1>3. kept[Len(s)] = a
  BY KeptOfFirst
<1> HIDE DEF kept, a
<1>4. a \in Seq(S) /\ Len(a) \in Nat
  <2>1. a \in Seq(S)
    BY <1>0, <1>1, <1>2, <1>3
  <2>2. QED
    BY <2>1, LenProperties
<1>5. Grown(Len(s))
  BY <1>1, <1>3, <1>4
<1>6. 0 \in T
  BY <1>1, <1>5
<1>7. ASSUME NEW k \in 0 .. Len(u), k \in T, k < Len(u) PROVE k + 1 \in T
  <2>1. PICK n \in 1 .. Len(u) : n = k + 1 /\ n - 1 = k
    BY <1>1, <1>7
  <2>2. n \in 0 .. Len(u)
    BY <1>1
  <2>3. CASE n > Len(s)
    <3>1. Grown(k)
      BY <1>1, <1>7, <2>1, <2>3
    <3>2. kept[n] = Append(kept[k], u[n]) /\ kept[k] \in Seq(S) /\ u[n] \in S
      <4>1. n \in more
        BY <2>3 DEF AllAfter
      <4>2. QED
        BY <1>1, <1>2, <2>1, <4>1, Zenon
    <3>3. /\ Len(kept[n]) = Len(kept[k]) + 1
          /\ \A j \in 1 .. Len(kept[k]) : kept[n][j] = kept[k][j]
          /\ kept[n][Len(kept[k]) + 1] = u[n]
      BY <3>2, AppendProperties
    <3>4. PICK d \in Nat : d = k - Len(s) /\ n - Len(s) = d + 1 /\ n = Len(s) + (d + 1)
      BY <1>1, <2>1, <2>3
    <3>5. Len(kept[k]) = Len(a) + d /\ Len(kept[n]) = Len(a) + (d + 1)
      BY <1>4, <3>1, <3>3, <3>4
    <3>6. \A j \in 1 .. Len(a) : kept[n][j] = a[j]
      BY <1>4, <3>1, <3>3, <3>5
    <3>7. ASSUME NEW j \in 1 .. d + 1 PROVE kept[n][Len(a) + j] = u[Len(s) + j]
      <4>1. CASE j = d + 1
        <5>1. Len(a) + j = Len(kept[k]) + 1 /\ Len(s) + j = n
          BY <1>1, <1>4, <3>4, <3>5, <4>1
        <5>2. QED
          BY <3>3, <5>1, Zenon
      <4>2. CASE j # d + 1
        <5>1. j \in 1 .. d /\ Len(a) + j \in 1 .. Len(kept[k])
          <6>1. j \in 1 .. d
            BY <3>4, <4>2
          <6>2. Len(a) + j \in 1 .. Len(a) + d
            BY <1>4, <3>4, <6>1
          <6>3. QED
            BY <3>5, <6>1, <6>2, Zenon
        <5>2. kept[k][Len(a) + j] = u[Len(s) + j]
          BY <3>1, <3>4, <5>1
        <5>3. QED
          BY <3>3, <5>1, <5>2, Zenon
      <4>3. QED
        BY <4>1, <4>2
    <3>8. Grown(n)
      BY <3>4, <3>5, <3>6, <3>7
    <3> HIDE DEF Grown
    <3>9. QED
      BY <2>1, <2>2, <3>8
  <2>4. CASE n = Len(s)
    <3> HIDE DEF Grown
    <3>1. QED
      BY <1>5, <2>1, <2>2, <2>4
  <2>5. CASE n < Len(s)
    <3> HIDE DEF Grown
    <3>1. QED
      BY <1>1, <2>1, <2>2, <2>5
  <2>6. QED
    BY <1>1, <2>3, <2>4, <2>5
<1>8. 0 .. Len(u) \subseteq T
  <2> HIDE DEF T
  <2>1. QED
    BY <1>1, <1>6, <1>7, Induction
<1>9. Grown(Len(u))
  <2> HIDE DEF Grown
  <2>1. QED
    BY <1>0, <1>1, <1>8
<1>10. QED
  BY <1>2, <1>4, <1>9 DEF a, Grows

(* Of an empty sequence there is nothing to select. *)
LEMMA SelectOfEmpty ==
  ASSUME NEW places
  PROVE  SelectAt(<<>>, places) = <<>>
<1>1. PICK s \in Seq({}) : s = <<>> /\ Len(s) = 0
  BY EmptySeq
<1>2. SelectAt(s, places) = KeptOf(s, places)[Len(s)] /\ KeptOf(s, places)[0] = <<>>
  BY KeptFacts
<1>3. SelectAt(s, places) = <<>>
  BY <1>1, <1>2, Zenon
<1>4. QED
  BY <1>1, <1>3, Zenon

(* What is selected is a sequence of the same elements. *)
LEMMA SelectType ==
  ASSUME NEW S, NEW s \in Seq(S), NEW places
  PROVE  SelectAt(s, places) \in Seq(S)
<1>1. Len(s) \in Nat
  BY LenProperties
<1>2. QED
  BY <1>1, KeptFacts

(* What is selected are the elements at those places.                        *)
LEMMA SelectedFrom ==
  ASSUME NEW S, NEW s \in Seq(S), NEW places
  PROVE  SelectAt(s, places) \in Seq({s[n] : n \in (1 .. Len(s)) \cap places})
<1> DEFINE R == {s[n] : n \in (1 .. Len(s)) \cap places}
           kept == KeptOf(s, places)
           T == {n \in 0 .. Len(s) : kept[n] \in Seq(R)}
<1>1. Len(s) \in Nat
  BY LenProperties
<1>2. /\ SelectAt(s, places) = kept[Len(s)]
      /\ kept[0] = <<>>
      /\ \A n \in 1 .. Len(s) :
           kept[n] = IF n \in places THEN Append(kept[n - 1], s[n]) ELSE kept[n - 1]
  BY KeptFacts
<1>3. \A n \in 1 .. Len(s) : n \in places => s[n] \in R
  OBVIOUS
<1> HIDE DEF kept, R
<1>4. 0 \in T
  <2>1. 0 \in 0 .. Len(s) /\ <<>> \in Seq(R)
    BY <1>1, EmptySeq
  <2>2. QED
    BY <1>2, <2>1, Zenon
<1>5. ASSUME NEW k \in 0 .. Len(s), k \in T, k < Len(s) PROVE k + 1 \in T
  <2>1. PICK n \in 1 .. Len(s) : n = k + 1 /\ n - 1 = k
    BY <1>1, <1>5
  <2>2. kept[n] = IF n \in places THEN Append(kept[k], s[n]) ELSE kept[k]
    BY <1>2, <2>1
  <2>3. kept[k] \in Seq(R)
    BY <1>5
  <2>4. kept[n] \in Seq(R)
    BY <1>3, <2>2, <2>3, AppendProperties
  <2>5. n \in 0 .. Len(s)
    BY <1>1
  <2>6. QED
    BY <2>1, <2>4, <2>5
<1>6. 0 .. Len(s) \subseteq T
  <2> HIDE DEF T
  <2>1. QED
    BY <1>1, <1>4, <1>5, Induction
<1>7. Len(s) \in 0 .. Len(s)
  BY <1>1
<1>8. kept[Len(s)] \in Seq(R)
  BY <1>6, <1>7, Zenon
<1>9. QED
  BY <1>2, <1>8 DEF R

-----------------------------------------------------------------------------
(***************************************************************************)
(* Flattening a sequence of sequences.                                     *)
(***************************************************************************)
FlattenOf(seqs) ==
  CHOOSE flatten : flatten = [i \in 1 .. Len(seqs) |->
    IF i = 1 THEN seqs[i] ELSE Join(flatten[i - 1], seqs[i])]

LEMMA JoinType ==
  ASSUME NEW S, NEW a \in Seq(S), NEW b \in Seq(S)
  PROVE  Join(a, b) \in Seq(S)
BY ConcatProperties DEF Join

(* The first sequences joined, one after the other. *)
LEMMA FlattenFacts ==
  ASSUME NEW S, NEW seqs \in Seq(Seq(S)), Len(seqs) >= 1
  PROVE  LET flatten == FlattenOf(seqs) IN
         /\ FlattenSeq(seqs) = flatten[Len(seqs)]
         /\ flatten \in [1 .. Len(seqs) -> Seq(S)]
         /\ flatten[1] = seqs[1]
         /\ \A i \in 2 .. Len(seqs) : flatten[i] = Join(flatten[i - 1], seqs[i])
<1> DEFINE step == [n \in 1 .. Len(seqs) |-> [x \in Seq(S) |->
                      IF n = 1 THEN seqs[n] ELSE Join(x, seqs[n])]]
           flatten == FlattenOf(seqs)
<1>1. Len(seqs) \in Nat /\ \A n \in 1 .. Len(seqs) : seqs[n] \in Seq(S)
  BY LenProperties, ElementOfSeq
<1>2. step \in [1 .. Len(seqs) -> [Seq(S) -> Seq(S)]]
  <2>1. \A n \in 1 .. Len(seqs) : \A x \in Seq(S) :
          (IF n = 1 THEN seqs[n] ELSE Join(x, seqs[n])) \in Seq(S)
    BY <1>1, JoinType
  <2>2. QED
    BY <2>1
<1>3. PICK f \in [0 .. Len(seqs) -> Seq(S)] :
        f = [n \in 0 .. Len(seqs) |-> IF n = 0 THEN <<>> ELSE step[n][f[n - 1]]]
  <2> HIDE DEF step
  <2>1. Stepwise(Len(seqs), Seq(S), <<>>, step)
    BY <1>1, <1>2, EmptySeq, StepByStep
  <2>2. QED
    BY <2>1 DEF Stepwise
<1> DEFINE g == [i \in 1 .. Len(seqs) |-> f[i]]
<1>4. ASSUME NEW n \in 1 .. Len(seqs)
      PROVE  /\ g[n] \in Seq(S)
             /\ g[n] = IF n = 1 THEN seqs[n] ELSE Join(g[n - 1], seqs[n])
  <2>1. n \in 0 .. Len(seqs) /\ n # 0 /\ n - 1 \in 0 .. Len(seqs)
        /\ (n # 1 => n - 1 \in 1 .. Len(seqs))
    BY <1>1
  <2>2. f[n] = step[n][f[n - 1]] /\ f[n] \in Seq(S) /\ f[n - 1] \in Seq(S)
    <3> HIDE DEF step
    <3>1. QED
      BY <1>3, <2>1
  <2>3. step[n][f[n - 1]] = IF n = 1 THEN seqs[n] ELSE Join(f[n - 1], seqs[n])
    BY <2>2, Zenon
  <2>4. g[n] = f[n] /\ (n # 1 => g[n - 1] = f[n - 1])
    BY <2>1
  <2> HIDE DEF g, step
  <2>5. QED
    BY <2>2, <2>3, <2>4
<1>5. g = [i \in 1 .. Len(seqs) |-> IF i = 1 THEN seqs[i] ELSE Join(g[i - 1], seqs[i])]
  <2>1. g = [i \in 1 .. Len(seqs) |-> g[i]]
    BY Zenon
  <2> HIDE DEF g, step
  <2>2. QED
    BY <1>4, <2>1, Zenon
<1>6. flatten = [i \in 1 .. Len(seqs) |->
                   IF i = 1 THEN seqs[i] ELSE Join(flatten[i - 1], seqs[i])]
  <2> HIDE DEF g, step
  <2>1. QED
    BY <1>5 DEF FlattenOf
<1>7. FlattenSeq(seqs) = flatten[Len(seqs)]
  <2>1. Len(seqs) # 0
    BY <1>1
  <2>2. QED
    BY <2>1, Zenon DEF FlattenSeq, FlattenOf, Join
<1> HIDE DEF flatten, g, step
<1>8. \A n \in 1 .. Len(seqs) :
        flatten[n] = IF n = 1 THEN seqs[n] ELSE Join(flatten[n - 1], seqs[n])
  BY <1>6, Zenon
<1>9. flatten[1] = seqs[1] /\ \A i \in 2 .. Len(seqs) : flatten[i] = Join(flatten[i - 1], seqs[i])
  <2>1. 1 \in 1 .. Len(seqs) /\ \A i \in 2 .. Len(seqs) : i \in 1 .. Len(seqs) /\ i # 1
    BY <1>1
  <2>2. QED
    BY <1>8, <2>1, Zenon
<1>10. flatten \in [1 .. Len(seqs) -> Seq(S)]
  <2> DEFINE T == {n \in 0 .. Len(seqs) : n # 0 => flatten[n] \in Seq(S)}
  <2>1. 0 \in T
    BY <1>1
  <2>2. ASSUME NEW k \in 0 .. Len(seqs), k \in T, k < Len(seqs) PROVE k + 1 \in T
    <3>1. PICK n \in 1 .. Len(seqs) : n = k + 1 /\ n - 1 = k
      BY <1>1, <2>2
    <3>2. flatten[n] = IF n = 1 THEN seqs[n] ELSE Join(flatten[k], seqs[n])
      BY <1>8, <3>1
    <3>3. seqs[n] \in Seq(S) /\ (n # 1 => flatten[k] \in Seq(S))
      BY <1>1, <2>2, <3>1
    <3>4. flatten[n] \in Seq(S)
      BY <3>2, <3>3, JoinType
    <3>5. QED
      BY <1>1, <3>1, <3>4
  <2>3. 0 .. Len(seqs) \subseteq T
    <3> HIDE DEF T
    <3>1. QED
      BY <1>1, <2>1, <2>2, Induction
  <2>4. ASSUME NEW n \in 1 .. Len(seqs) PROVE flatten[n] \in Seq(S)
    <3>1. n \in 0 .. Len(seqs) /\ n # 0
      BY <1>1
    <3>2. QED
      BY <2>3, <3>1, Zenon
  <2>5. QED
    BY <1>6, <2>4, Zenon
<1>11. QED
  BY <1>7, <1>9, <1>10 DEF flatten

(* One more sequence adds its elements at the end. *)
Flattens(seqs, e, t, S) ==
  /\ FlattenSeq(seqs) \in Seq(S)
  /\ FlattenSeq(t) = Join(FlattenSeq(seqs), e)

LEMMA FlattenAppended ==
  ASSUME NEW S, NEW seqs \in Seq(Seq(S)), NEW e \in Seq(S),
         NEW t, t = Append(seqs, e)
  PROVE  Flattens(seqs, e, t, S)
<1>1. /\ t \in Seq(Seq(S)) /\ Len(seqs) \in Nat /\ Len(t) = Len(seqs) + 1
      /\ \A i \in 1 .. Len(seqs) : t[i] = seqs[i]
      /\ t[Len(seqs) + 1] = e
  BY Appended
<1>2. /\ FlattenSeq(t) = FlattenOf(t)[Len(t)]
      /\ FlattenOf(t)[1] = t[1]
      /\ \A i \in 2 .. Len(t) : FlattenOf(t)[i] = Join(FlattenOf(t)[i - 1], t[i])
  <2>1. Len(t) >= 1
    BY <1>1
  <2>2. QED
    BY <1>1, <2>1, FlattenFacts
<1>3. CASE Len(seqs) = 0
  <2>1. seqs = <<>> /\ FlattenSeq(seqs) = <<>>
    BY <1>3, EmptySeq DEF FlattenSeq
  <2>2. FlattenSeq(t) = e
    BY <1>1, <1>2, <1>3
  <2>3. <<>> \o e = e
    BY ConcatEmptySeq
  <2>4. QED
    BY <2>1, <2>2, <2>3, EmptySeq DEF Join, Flattens
<1>4. CASE Len(seqs) # 0
  <2> DEFINE a == FlattenOf(seqs)
             b == FlattenOf(t)
             T == {n \in 0 .. Len(seqs) : n # 0 => b[n] = a[n]}
  <2>1. Len(seqs) >= 1
    BY <1>1, <1>4
  <2>2. /\ FlattenSeq(seqs) = a[Len(seqs)]
        /\ a \in [1 .. Len(seqs) -> Seq(S)]
        /\ a[1] = seqs[1]
        /\ \A i \in 2 .. Len(seqs) : a[i] = Join(a[i - 1], seqs[i])
    BY <2>1, FlattenFacts
  <2>3. /\ FlattenSeq(t) = b[Len(t)]
        /\ b[1] = t[1]
        /\ \A i \in 2 .. Len(t) : b[i] = Join(b[i - 1], t[i])
    BY <1>2
  <2> HIDE DEF a, b
  <2>4. 0 \in T
    BY <1>1
  <2>5. ASSUME NEW k \in 0 .. Len(seqs), k \in T, k < Len(seqs) PROVE k + 1 \in T
    <3>1. PICK n \in 1 .. Len(seqs) : n = k + 1 /\ n - 1 = k
      BY <1>1, <2>5
    <3>2. t[n] = seqs[n] /\ n \in 0 .. Len(seqs)
      BY <1>1
    <3>3. CASE n = 1
      BY <2>2, <2>3, <3>1, <3>2, <3>3
    <3>4. CASE n # 1
      <4>1. n \in 2 .. Len(seqs) /\ n \in 2 .. Len(t) /\ k # 0
        BY <1>1, <3>1, <3>4
      <4>2. b[k] = a[k]
        BY <2>5, <4>1
      <4>3. b[n] = a[n]
        BY <2>2, <2>3, <3>1, <3>2, <4>1, <4>2, Zenon
      <4>4. QED
        BY <3>1, <3>2, <4>3
    <3>5. QED
      BY <3>3, <3>4
  <2>6. 0 .. Len(seqs) \subseteq T
    <3> HIDE DEF T
    <3>1. QED
      BY <1>1, <2>4, <2>5, Induction
  <2>7. b[Len(seqs)] = a[Len(seqs)] /\ a[Len(seqs)] \in Seq(S)
    <3>1. Len(seqs) \in 0 .. Len(seqs) /\ Len(seqs) # 0 /\ Len(seqs) \in 1 .. Len(seqs)
      BY <1>1, <2>1
    <3>2. QED
      BY <2>2, <2>6, <3>1, Zenon
  <2>8. PICK m \in 2 .. Len(t) : m = Len(seqs) + 1 /\ m - 1 = Len(seqs) /\ m = Len(t)
    BY <1>1, <2>1
  <2>9. b[m] = Join(b[m - 1], t[m])
    BY <2>3, <2>8, Zenon
  <2>10. t[m] = e
    BY <1>1, <2>8
  <2>11. QED
    BY <2>2, <2>3, <2>7, <2>8, <2>9, <2>10, Zenon DEF Flattens
<1>5. QED
  BY <1>3, <1>4

-----------------------------------------------------------------------------
(***************************************************************************)
(* The columns and the rows.                                               *)
(***************************************************************************)
BasicColumns ==
  {"task_id", "client_id", "transmit_time", "receive_time", "send_receive_time_diff",
   "source_address", "destination_address", "meta_source_address",
   "meta_destination_address", "ttl"}

ColumnsOf(opts) ==
  BasicColumns
  \cup (IF opts.country = "absent" THEN {} ELSE {"source_address_country"})
  \cup (IF opts.asn = "absent" THEN {} ELSE {"source_address_asn"})

(* Every element of D stands once in h. *)
Enumerates(h, D) ==
  /\ h \in Seq(D)
  /\ \A d \in D : \E i \in 1 .. Len(h) : h[i] = d
  /\ \A i, j \in 1 .. Len(h) : h[i] = h[j] => i = j

LEMMA EnumerationIsComplete ==
  ASSUME NEW D, NEW h, Enumerates(h, D)
  PROVE  Range(h) = D /\ Len(h) = Cardinality(D)
<1>1. h \in Seq(D) /\ Len(h) \in Nat /\ h \in [1 .. Len(h) -> D]
  BY LenProperties DEF Enumerates
<1>2. Range(h) = D
  BY <1>1 DEF Range, Enumerates
<1>3. h \in Bijection(1 .. Len(h), D)
  BY <1>1 DEF Bijection, Injection, Surjection, IsInjective, Enumerates
<1>4. QED
  BY <1>1, <1>2, <1>3, FS_CountingElements DEF ExistsBijection

LEMMA EnumerateOneMore ==
  ASSUME NEW D, NEW h, Enumerates(h, D), NEW d, d \notin D
  PROVE  Enumerates(Append(h, d), D \cup {d})
<1> DEFINE E == D \cup {d}
<1>1. h \in Seq(D) /\ h \in Seq(E) /\ d \in E /\ Len(h) \in Nat
  <2>1. h \in Seq(D) /\ Len(h) \in Nat /\ \A i \in 1 .. Len(h) : h[i] \in D
    BY LenProperties, ElementOfSeq DEF Enumerates
  <2>2. h \in [1 .. Len(h) -> E]
    BY <2>1, LenProperties
  <2>3. QED
    BY <2>1, <2>2, SeqDef
<1>2. PICK t : t = Append(h, d)
  OBVIOUS
<1>3. /\ t \in Seq(E) /\ Len(t) = Len(h) + 1
      /\ \A i \in 1 .. Len(h) : t[i] = h[i]
      /\ t[Len(h) + 1] = d
  BY <1>1, <1>2, Appended
<1>4. \A i \in 1 .. Len(h) : h[i] \in D
  BY <1>1, ElementOfSeq
<1>5. ASSUME NEW e \in E PROVE \E i \in 1 .. Len(t) : t[i] = e
  <2>1. CASE e = d
    BY <1>1, <1>3, <2>1
  <2>2. CASE e \in D
    <3>1. PICK i \in 1 .. Len(h) : h[i] = e
      BY <2>2 DEF Enumerates
    <3>2. i \in 1 .. Len(t) /\ t[i] = e
      BY <1>1, <1>3, <3>1
    <3>3. QED
      BY <3>2
  <2>3. QED
    BY <2>1, <2>2
<1>6. ASSUME NEW i \in 1 .. Len(t), NEW j \in 1 .. Len(t), t[i] = t[j] PROVE i = j
  <2>1. \A k \in 1 .. Len(t) : k \in 1 .. Len(h) \/ k = Len(h) + 1
    BY <1>1, <1>3
  <2>2. CASE i \in 1 .. Len(h) /\ j \in 1 .. Len(h)
    BY <1>3, <1>6, <2>2 DEF Enumerates
  <2>3. CASE i = Len(h) + 1 /\ j = Len(h) + 1
    BY <2>3
  <2>4. CASE i \in 1 .. Len(h) /\ j = Len(h) + 1
    BY <1>3, <1>4, <1>6, <2>4
  <2>5. CASE i = Len(h) + 1 /\ j \in 1 .. Len(h)
    BY <1>3, <1>4, <1>6, <2>5
  <2>6. QED
    BY <2>1, <2>2, <2>3, <2>4, <2>5
<1>7. Enumerates(t, E)
  BY <1>3, <1>5, <1>6 DEF Enumerates
<1>8. QED
  BY <1>2, <1>7

LEMMA BasicHeaders == Enumerates(get_headers, BasicColumns)
<1>1. get_headers \in Seq(BasicColumns) /\ Len(get_headers) = 10
  BY DEF get_headers, BasicColumns
<1>2. \A d \in BasicColumns : \E i \in 1 .. 10 : get_headers[i] = d
  BY DEF get_headers, BasicColumns
<1>3. \A i, j \in 1 .. 10 : get_headers[i] = get_headers[j] => i = j
  BY DEF get_headers
<1>4. QED
  BY <1>1, <1>2, <1>3 DEF Enumerates

LEMMA TransformerCases ==
  /\ options.country = "absent" /\ options.asn = "absent" => Len(Transformers) = 0
  /\ options.country # "absent" /\ options.asn = "absent" =>
       Len(Transformers) = 1 /\ Transformers[1] = IP2Country
  /\ options.country = "absent" /\ options.asn # "absent" =>
       Len(Transformers) = 1 /\ Transformers[1] = IP2ASN
  /\ options.country # "absent" /\ options.asn # "absent" =>
       Len(Transformers) = 2 /\ Transformers[1] = IP2Country /\ Transformers[2] = IP2ASN
BY DEF Transformers

(* The transformers come in turn. *)
LEMMA EnrichedSteps ==
  ASSUME NEW row
  PROVE  /\ Len(Transformers) = 0 => Enriched(row) = row
         /\ Len(Transformers) = 1 => Enriched(row) = transform(Transformers[1], row)
         /\ Len(Transformers) = 2 =>
              Enriched(row) = transform(Transformers[2], transform(Transformers[1], row))
<1> DEFINE L == Len(Transformers)
           after == CHOOSE f : f = [n \in 0 .. L |->
                      IF n = 0 THEN row ELSE transform(Transformers[n], f[n - 1])]
           g == [n \in 0 .. L |-> IF n = 0 THEN row
                  ELSE IF n = 1 THEN transform(Transformers[1], row)
                  ELSE transform(Transformers[2], transform(Transformers[1], row))]
<1>1. SUFFICES ASSUME L \in {0, 1, 2}
      PROVE  /\ L = 0 => Enriched(row) = row
             /\ L = 1 => Enriched(row) = transform(Transformers[1], row)
             /\ L = 2 => Enriched(row)
                         = transform(Transformers[2], transform(Transformers[1], row))
  OBVIOUS
<1>2. Enriched(row) = after[L]
  BY Zenon DEF Enriched
<1> HIDE DEF L
<1>3. ASSUME NEW n \in 0 .. L
      PROVE  g[n] = IF n = 0 THEN row ELSE transform(Transformers[n], g[n - 1])
  <2>1. CASE n = 0
    BY <2>1
  <2>2. CASE n = 1
    BY <1>1, <2>2
  <2>3. CASE n = 2
    BY <1>1, <2>3
  <2>4. QED
    BY <1>1, <2>1, <2>2, <2>3
<1>4. g = [n \in 0 .. L |-> IF n = 0 THEN row ELSE transform(Transformers[n], g[n - 1])]
  <2>1. g = [n \in 0 .. L |-> g[n]]
    BY Zenon
  <2> HIDE DEF g
  <2>2. QED
    BY <1>3, <2>1, Zenon
<1>5. after = [n \in 0 .. L |->
                 IF n = 0 THEN row ELSE transform(Transformers[n], after[n - 1])]
  <2> HIDE DEF g
  <2>1. QED
    BY <1>4, Zenon
<1> HIDE DEF after, g
<1>6. \A n \in 0 .. L :
        after[n] = IF n = 0 THEN row ELSE transform(Transformers[n], after[n - 1])
  BY <1>5, Zenon
<1>7. 0 \in 0 .. L /\ after[0] = row
  BY <1>1, <1>6
<1>8. L >= 1 => after[1] = transform(Transformers[1], row)
  BY <1>1, <1>6, <1>7
<1>9. L = 2 => after[2] = transform(Transformers[2], after[1])
  BY <1>1, <1>6
<1>10. QED
  BY <1>1, <1>2, <1>7, <1>8, <1>9

LEMMA HeaderSteps ==
  /\ Len(Transformers) = 0 => AllHeaders = get_headers
  /\ Len(Transformers) = 1 => AllHeaders = add_header(Transformers[1], get_headers)
  /\ Len(Transformers) = 2 =>
       AllHeaders = add_header(Transformers[2], add_header(Transformers[1], get_headers))
<1> DEFINE L == Len(Transformers)
           after == CHOOSE f : f = [n \in 0 .. L |->
                      IF n = 0 THEN get_headers ELSE add_header(Transformers[n], f[n - 1])]
           g == [n \in 0 .. L |-> IF n = 0 THEN get_headers
                  ELSE IF n = 1 THEN add_header(Transformers[1], get_headers)
                  ELSE add_header(Transformers[2], add_header(Transformers[1], get_headers))]
<1>1. SUFFICES ASSUME L \in {0, 1, 2}
      PROVE  /\ L = 0 => AllHeaders = get_headers
             /\ L = 1 => AllHeaders = add_header(Transformers[1], get_headers)
             /\ L = 2 => AllHeaders
                         = add_header(Transformers[2], add_header(Transformers[1], get_headers))
  OBVIOUS
<1>2. AllHeaders = after[L]
  BY Zenon DEF AllHeaders
<1> HIDE DEF L
<1>3. ASSUME NEW n \in 0 .. L
      PROVE  g[n] = IF n = 0 THEN get_headers ELSE add_header(Transformers[n], g[n - 1])
  <2>1. CASE n = 0
    BY <2>1
  <2>2. CASE n = 1
    BY <1>1, <2>2
  <2>3. CASE n = 2
    BY <1>1, <2>3
  <2>4. QED
    BY <1>1, <2>1, <2>2, <2>3
<1>4. g = [n \in 0 .. L |-> IF n = 0 THEN get_headers ELSE add_header(Transformers[n], g[n - 1])]
  <2>1. g = [n \in 0 .. L |-> g[n]]
    BY Zenon
  <2> HIDE DEF g
  <2>2. QED
    BY <1>3, <2>1, Zenon
<1>5. after = [n \in 0 .. L |->
                 IF n = 0 THEN get_headers ELSE add_header(Transformers[n], after[n - 1])]
  <2> HIDE DEF g
  <2>1. QED
    BY <1>4, Zenon
<1> HIDE DEF after, g
<1>6. \A n \in 0 .. L :
        after[n] = IF n = 0 THEN get_headers ELSE add_header(Transformers[n], after[n - 1])
  BY <1>5, Zenon
<1>7. 0 \in 0 .. L /\ after[0] = get_headers
  BY <1>1, <1>6
<1>8. L >= 1 => after[1] = add_header(Transformers[1], get_headers)
  BY <1>1, <1>6, <1>7
<1>9. L = 2 => after[2] = add_header(Transformers[2], after[1])
  BY <1>1, <1>6
<1>10. QED
  BY <1>1, <1>2, <1>7, <1>8, <1>9

(* The headers name every column once. *)
LEMMA HeadersNameTheColumns == Enumerates(AllHeaders, ColumnsOf(options))
<1> DEFINE country == "source_address_country"
           asn == "source_address_asn"
           h == get_headers
<1>1. /\ country \notin BasicColumns /\ asn \notin BasicColumns
      /\ asn \notin BasicColumns \cup {country}
  BY DEF BasicColumns
<1>2. /\ Enumerates(h, BasicColumns)
      /\ Enumerates(Append(h, country), BasicColumns \cup {country})
      /\ Enumerates(Append(h, asn), BasicColumns \cup {asn})
  <2> HIDE DEF h, country, asn
  <2>1. Enumerates(h, BasicColumns)
    BY BasicHeaders DEF h
  <2>2. QED
    BY <1>1, <2>1, EnumerateOneMore
<1>3. Enumerates(Append(Append(h, country), asn), (BasicColumns \cup {country}) \cup {asn})
  <2> HIDE DEF h, country, asn
  <2>1. QED
    BY <1>1, <1>2, EnumerateOneMore
<1>4. /\ \A c : add_header(IP2Country, c) = Append(c, country)
      /\ \A c : add_header(IP2ASN, c) = Append(c, asn)
  BY DEF add_header, IP2Country, IP2ASN
<1> HIDE DEF h, country, asn
<1>5. ColumnsOf(options) = BasicColumns
        \cup (IF options.country = "absent" THEN {} ELSE {country})
        \cup (IF options.asn = "absent" THEN {} ELSE {asn})
  BY DEF ColumnsOf, country, asn
<1>6. CASE options.country = "absent" /\ options.asn = "absent"
  <2>1. AllHeaders = h
    BY <1>6, TransformerCases, HeaderSteps, Zenon DEF h
  <2>2. ColumnsOf(options) = BasicColumns
    BY <1>5, <1>6
  <2>3. QED
    BY <1>2, <2>1, <2>2, Zenon
<1>7. CASE options.country # "absent" /\ options.asn = "absent"
  <2>1. AllHeaders = Append(h, country)
    BY <1>4, <1>7, TransformerCases, HeaderSteps, Zenon DEF h
  <2>2. ColumnsOf(options) = BasicColumns \cup {country}
    BY <1>5, <1>7
  <2>3. QED
    BY <1>2, <2>1, <2>2, Zenon
<1>8. CASE options.country = "absent" /\ options.asn # "absent"
  <2>1. AllHeaders = Append(h, asn)
    BY <1>4, <1>8, TransformerCases, HeaderSteps, Zenon DEF h
  <2>2. ColumnsOf(options) = BasicColumns \cup {asn}
    BY <1>5, <1>8
  <2>3. QED
    BY <1>2, <2>1, <2>2, Zenon
<1>9. CASE options.country # "absent" /\ options.asn # "absent"
  <2>1. AllHeaders = Append(Append(h, country), asn)
    BY <1>4, <1>9, TransformerCases, HeaderSteps, Zenon DEF h
  <2>2. ColumnsOf(options) = (BasicColumns \cup {country}) \cup {asn}
    BY <1>5, <1>9
  <2>3. QED
    BY <1>3, <2>1, <2>2, Zenon
<1>10. QED
  BY <1>6, <1>7, <1>8, <1>9

(* What a row shows of a reply, in the columns that it always has and in     *)
(* those of the databases.                                                   *)
ShowsBasics(row, reply) ==
  LET message == reply.message
      item == reply.item
  IN  /\ BasicColumns \subseteq DOMAIN row
      /\ row["task_id"].value = TaskId
      /\ row["client_id"].value = message.hostname
      /\ row["transmit_time"].value = item.transmit
      /\ row["receive_time"].value = item.receive
      /\ row["source_address"] = IpAddress(item.source)
      /\ row["destination_address"].value = item.destination
      /\ row["meta_source_address"].value = item.meta_source
      /\ row["meta_destination_address"].value = item.meta_destination
      /\ row["ttl"].value = item.ttl
      /\ (item.transmit + row["send_receive_time_diff"].value) % WordSize = item.receive

ShowsCountry(row, reply) ==
  row["source_address_country"].value =
    IF reply.item.source \in DOMAIN Countries THEN Countries[reply.item.source] ELSE "Unknown"

ShowsAsn(row, reply) ==
  row["source_address_asn"].value =
    IF reply.item.source \in DOMAIN Asns THEN Asns[reply.item.source] ELSE "Unknown"

ShowsReply(row, reply, opts) ==
  /\ DOMAIN row = ColumnsOf(opts)
  /\ ShowsBasics(row, reply)
  /\ opts.country # "absent" => ShowsCountry(row, reply)
  /\ opts.asn # "absent" => ShowsAsn(row, reply)

(* The difference of two u64 leads from the one to the other. *)
LEMMA DifferenceLeadsBack ==
  ASSUME NEW r \in 0 .. WordSize - 1, NEW t \in 0 .. WordSize - 1
  PROVE  (t + Difference(r, t)) % WordSize = r
<1>1. PICK w \in Nat : w = WordSize /\ w > 0
  BY CliAssumption
<1>2. r \in Nat /\ t \in Nat /\ r < w /\ t < w
  BY <1>1
<1>3. \A x \in Nat : x < w => x % w = x /\ (x + w) % w = x
  BY <1>1
<1>4. CASE t <= r
  <2>1. PICK d \in Nat : d = r - t
    BY <1>2, <1>4
  <2>2. r + w - t = d + w /\ d < w /\ t + d = r
    BY <1>1, <1>2, <2>1
  <2>3. Difference(r, t) = d
    BY <1>1, <1>3, <2>1, <2>2 DEF Difference
  <2>4. QED
    BY <1>1, <1>2, <1>3, <2>2, <2>3
<1>5. CASE r < t
  <2>1. PICK d \in Nat : d = r + w - t
    BY <1>1, <1>2, <1>5
  <2>2. d < w /\ t + d = r + w
    BY <1>1, <1>2, <1>5, <2>1
  <2>3. Difference(r, t) = d
    BY <1>1, <1>3, <2>1, <2>2 DEF Difference
  <2>4. QED
    BY <1>1, <1>2, <1>3, <2>2, <2>3
<1>6. QED
  BY <1>2, <1>4, <1>5

LEMMA RowShowsBasics ==
  ASSUME NEW message, message.task_id = TaskId, NEW item \in Items, item.ping
  PROVE  LET row == RowOf(message, item) IN
         /\ DOMAIN row = BasicColumns
         /\ ShowsBasics(row, [message |-> message, item |-> item])
<1> DEFINE row == RowOf(message, item)
           diff == Difference(item.receive, item.transmit)
<1>1. DOMAIN row = BasicColumns
  BY DEF RowOf, BasicColumns
<1>2. (item.transmit + diff) % WordSize = item.receive
  BY ItemsAssumption, DifferenceLeadsBack
<1> HIDE DEF diff
<1>3. /\ row["task_id"].value = message.task_id
      /\ row["client_id"].value = message.hostname
      /\ row["transmit_time"].value = item.transmit
      /\ row["receive_time"].value = item.receive
      /\ row["source_address"] = IpAddress(item.source)
      /\ row["destination_address"].value = item.destination
      /\ row["meta_source_address"].value = item.meta_source
      /\ row["meta_destination_address"].value = item.meta_destination
      /\ row["ttl"].value = item.ttl
      /\ row["send_receive_time_diff"].value = diff
  BY DEF RowOf, Integer, String, Float, IpAddress, diff
<1> HIDE DEF row
<1>4. ShowsBasics(row, [message |-> message, item |-> item])
  BY <1>1, <1>2, <1>3 DEF ShowsBasics
<1>5. QED
  BY <1>1, <1>4 DEF row

(* r is row with one more column. *)
Adds(r, row, column, data) ==
  /\ DOMAIN r = DOMAIN row \cup {column}
  /\ r[column] = data
  /\ \A c \in DOMAIN row : c # column => r[c] = row[c]

LEMMA ColumnAdded ==
  ASSUME NEW row, NEW column, NEW data
  PROVE  Adds(insert(row, column, data), row, column, data)
BY DEF insert, Adds

(* What a transformer knows of the source of a reply. *)
KnownOf(t, reply) ==
  IF reply.item.source \in DOMAIN t.known THEN t.known[reply.item.source] ELSE String("Unknown")

LEMMA TransformAdds ==
  ASSUME NEW t, t.source = "source_address", NEW row, NEW reply, ShowsBasics(row, reply)
  PROVE  Adds(transform(t, row), row, t.destination, KnownOf(t, reply))
<1>1. "source_address" \in DOMAIN row /\ row["source_address"] = IpAddress(reply.item.source)
  BY DEF ShowsBasics, BasicColumns
<1>2. IpAddress(reply.item.source).type = "IpAddress"
      /\ IpAddress(reply.item.source).value = reply.item.source
  BY DEF IpAddress
<1>3. transform(t, row) = insert(row, t.destination, KnownOf(t, reply))
  BY <1>1, <1>2, Zenon DEF transform, KnownOf
<1>4. QED
  BY <1>3, ColumnAdded, Zenon

(* A further column leaves the others as they are. *)
LEMMA BasicsStay ==
  ASSUME NEW row, NEW reply, NEW r, ShowsBasics(row, reply), DOMAIN row \subseteq DOMAIN r,
         \A c \in BasicColumns : r[c] = row[c]
  PROVE  ShowsBasics(r, reply)
BY DEF ShowsBasics, BasicColumns

LEMMA CountryAdded ==
  ASSUME NEW row, NEW reply, ShowsBasics(row, reply),
         "source_address_country" \notin DOMAIN row
  PROVE  LET r == transform(IP2Country, row) IN
         /\ DOMAIN r = DOMAIN row \cup {"source_address_country"}
         /\ ShowsBasics(r, reply) /\ ShowsCountry(r, reply)
         /\ \A c \in DOMAIN row : r[c] = row[c]
<1> DEFINE r == transform(IP2Country, row)
<1>1. IP2Country.source = "source_address" /\ IP2Country.destination = "source_address_country"
  BY DEF IP2Country
<1>2. Adds(r, row, "source_address_country", KnownOf(IP2Country, reply))
  BY <1>1, TransformAdds, Zenon
<1> HIDE DEF r
<1>3. \A c \in DOMAIN row : r[c] = row[c]
  BY <1>2 DEF Adds
<1>4. ShowsCountry(r, reply)
  <2>1. r["source_address_country"] = KnownOf(IP2Country, reply)
    BY <1>2 DEF Adds
  <2>2. KnownOf(IP2Country, reply).value = IF reply.item.source \in DOMAIN Countries
                                    THEN Countries[reply.item.source] ELSE "Unknown"
    BY DEF KnownOf, IP2Country, String, Integer
  <2>3. QED
    BY <2>1, <2>2, Zenon DEF ShowsCountry
<1>5. BasicColumns \subseteq DOMAIN row
  BY DEF ShowsBasics
<1>6. ShowsBasics(r, reply)
  BY <1>2, <1>3, <1>5, BasicsStay DEF Adds
<1>7. QED
  BY <1>2, <1>3, <1>4, <1>6 DEF r, Adds

LEMMA AsnAdded ==
  ASSUME NEW row, NEW reply, ShowsBasics(row, reply),
         "source_address_asn" \notin DOMAIN row
  PROVE  LET r == transform(IP2ASN, row) IN
         /\ DOMAIN r = DOMAIN row \cup {"source_address_asn"}
         /\ ShowsBasics(r, reply) /\ ShowsAsn(r, reply)
         /\ \A c \in DOMAIN row : r[c] = row[c]
<1> DEFINE r == transform(IP2ASN, row)
<1>1. IP2ASN.source = "source_address" /\ IP2ASN.destination = "source_address_asn"
  BY DEF IP2ASN
<1>2. Adds(r, row, "source_address_asn", KnownOf(IP2ASN, reply))
  BY <1>1, TransformAdds, Zenon
<1> HIDE DEF r
<1>3. \A c \in DOMAIN row : r[c] = row[c]
  BY <1>2 DEF Adds
<1>4. ShowsAsn(r, reply)
  <2>1. r["source_address_asn"] = KnownOf(IP2ASN, reply)
    BY <1>2 DEF Adds
  <2>2. KnownOf(IP2ASN, reply).value = IF reply.item.source \in DOMAIN Asns
                                    THEN Asns[reply.item.source] ELSE "Unknown"
    BY DEF KnownOf, IP2ASN, String, Integer
  <2>3. QED
    BY <2>1, <2>2, Zenon DEF ShowsAsn
<1>5. BasicColumns \subseteq DOMAIN row
  BY DEF ShowsBasics
<1>6. ShowsBasics(r, reply)
  BY <1>2, <1>3, <1>5, BasicsStay DEF Adds
<1>7. QED
  BY <1>2, <1>3, <1>4, <1>6 DEF r, Adds

(* The row of a ping, with whichever databases. *)
LEMMA EnrichedShowsReply ==
  ASSUME NEW message, message.task_id = TaskId, NEW item \in Items, item.ping
  PROVE  ShowsReply(Enriched(RowOf(message, item)), [message |-> message, item |-> item], options)
<1> DEFINE row == RowOf(message, item)
           reply == [message |-> message, item |-> item]
           c == transform(IP2Country, row)
           a == transform(IP2ASN, row)
           ca == transform(IP2ASN, c)
           country == "source_address_country"
           asn == "source_address_asn"
<1>1. DOMAIN row = BasicColumns /\ ShowsBasics(row, reply)
  BY RowShowsBasics
<1>2. /\ country \notin BasicColumns /\ asn \notin BasicColumns
      /\ asn \notin BasicColumns \cup {country}
  BY DEF BasicColumns
<1> HIDE DEF row, reply
<1>3. /\ DOMAIN c = BasicColumns \cup {country}
      /\ ShowsBasics(c, reply) /\ ShowsCountry(c, reply)
  BY <1>1, <1>2, CountryAdded
<1>4. /\ DOMAIN a = BasicColumns \cup {asn}
      /\ ShowsBasics(a, reply) /\ ShowsAsn(a, reply)
  BY <1>1, <1>2, AsnAdded
<1> HIDE DEF c, a
<1>5. /\ DOMAIN ca = (BasicColumns \cup {country}) \cup {asn}
      /\ ShowsBasics(ca, reply) /\ ShowsAsn(ca, reply)
      /\ ca[country] = c[country]
  BY <1>2, <1>3, AsnAdded
<1> HIDE DEF ca
<1>6. ShowsCountry(ca, reply)
  BY <1>3, <1>5 DEF ShowsCountry
<1> HIDE DEF country, asn
<1>7. ColumnsOf(options) = BasicColumns
        \cup (IF options.country = "absent" THEN {} ELSE {country})
        \cup (IF options.asn = "absent" THEN {} ELSE {asn})
  BY DEF ColumnsOf, country, asn
<1>8. CASE options.country = "absent" /\ options.asn = "absent"
  <2>1. Enriched(row) = row
    BY <1>8, TransformerCases, EnrichedSteps, Zenon
  <2>2. ColumnsOf(options) = BasicColumns
    BY <1>7, <1>8
  <2>3. ShowsReply(row, reply, options)
    BY <1>1, <1>8, <2>2, Zenon DEF ShowsReply
  <2>4. QED
    BY <2>1, <2>3, Zenon DEF row, reply
<1>9. CASE options.country # "absent" /\ options.asn = "absent"
  <2>1. Enriched(row) = c
    BY <1>9, TransformerCases, EnrichedSteps, Zenon DEF c
  <2>2. ColumnsOf(options) = BasicColumns \cup {country}
    BY <1>7, <1>9
  <2>3. ShowsReply(c, reply, options)
    BY <1>3, <1>9, <2>2, Zenon DEF ShowsReply
  <2>4. QED
    BY <2>1, <2>3, Zenon DEF row, reply
<1>10. CASE options.country = "absent" /\ options.asn # "absent"
  <2>1. Enriched(row) = a
    BY <1>10, TransformerCases, EnrichedSteps, Zenon DEF a
  <2>2. ColumnsOf(options) = BasicColumns \cup {asn}
    BY <1>7, <1>10
  <2>3. ShowsReply(a, reply, options)
    BY <1>4, <1>10, <2>2, Zenon DEF ShowsReply
  <2>4. QED
    BY <2>1, <2>3, Zenon DEF row, reply
<1>11. CASE options.country # "absent" /\ options.asn # "absent"
  <2>1. Enriched(row) = ca
    BY <1>11, TransformerCases, EnrichedSteps, Zenon DEF ca, c
  <2>2. ColumnsOf(options) = (BasicColumns \cup {country}) \cup {asn}
    BY <1>7, <1>11
  <2>3. ShowsReply(ca, reply, options)
    BY <1>5, <1>6, <1>11, <2>2, Zenon DEF ShowsReply
  <2>4. QED
    BY <2>1, <2>3, Zenon DEF row, reply
<1>12. QED
  BY <1>8, <1>9, <1>10, <1>11

-----------------------------------------------------------------------------
(***************************************************************************)
(* Lines and replies, of any output and any messages.                      *)
(***************************************************************************)
LinesIn(out, kind) == SelectAt(out, {n \in DOMAIN out : out[n].kind = kind})
RepliesIn(msgs) == FlattenSeq([n \in 1 .. Len(msgs) |-> RepliesOf(msgs[n])])

Reply == [message : TaskResults, item : {item \in Items : item.ping}]

LEMMA SeqOfMore ==
  ASSUME NEW S, NEW T, S \subseteq T, NEW s \in Seq(S)
  PROVE  s \in Seq(T)
<1>1. Len(s) \in Nat /\ s \in [1 .. Len(s) -> S]
  BY LenProperties
<1>2. s \in [1 .. Len(s) -> T]
  BY <1>1
<1>3. QED
  BY <1>1, <1>2, SeqDef

(* A line of another kind. *)
LEMMA AnotherKind ==
  ASSUME NEW S, NEW out \in Seq(S), NEW line \in S, NEW kind, line.kind # kind,
         NEW more, more = Append(out, line)
  PROVE  LinesIn(more, kind) = LinesIn(out, kind)
<1> DEFINE p == {n \in DOMAIN out : out[n].kind = kind}
           q == {n \in DOMAIN more : more[n].kind = kind}
<1>1. /\ more \in Seq(S) /\ Len(out) \in Nat /\ Len(more) = Len(out) + 1
      /\ DOMAIN out = 1 .. Len(out) /\ DOMAIN more = 1 .. Len(out) + 1
      /\ \A i \in 1 .. Len(out) : more[i] = out[i]
      /\ more[Len(out) + 1] = line
  BY Appended
<1>2. \A n \in 1 .. Len(out) : more[n] = out[n] /\ (n \in q <=> n \in p)
  BY <1>1
<1>3. \A n \in 1 .. Len(more) : n > Len(out) => n \notin q
  <2>1. \A n \in 1 .. Len(more) : n > Len(out) => n = Len(out) + 1
    BY <1>1
  <2>2. QED
    BY <1>1, <2>1
<1>4. Len(out) <= Len(more)
  BY <1>1
<1> HIDE DEF p, q
<1>5. SelectAt(more, q) = SelectAt(out, p)
  <2>1. Prolongs(more, q, out, p) /\ NoneAfter(out, more, q)
    BY <1>2, <1>3, <1>4 DEF Prolongs, NoneAfter
  <2>2. more \in Seq(S)
    BY <1>1
  <2>3. SameSelection(more, q, out, p)
    BY <2>1, <2>2, SelectNoMore
  <2>4. QED
    BY <2>3 DEF SameSelection
<1>6. QED
  BY <1>5 DEF LinesIn, p, q

(* Lines that are all of another kind. *)
LEMMA NoneOfKind ==
  ASSUME NEW S, NEW out \in Seq(S), NEW kind, \A line \in S : line.kind # kind
  PROVE  LinesIn(out, kind) = <<>>
<1> DEFINE q == {n \in DOMAIN out : out[n].kind = kind}
<1>1. Len(out) \in Nat /\ DOMAIN out = 1 .. Len(out) /\ \A n \in 1 .. Len(out) : out[n] \in S
  BY LenProperties, ElementOfSeq
<1>2. \A n \in 1 .. Len(out) : n \notin q
  BY <1>1
<1> HIDE DEF q
<1>3. PICK e \in Seq(S) : e = <<>> /\ Len(e) = 0
  BY EmptySeq
<1>4. SelectAt(out, q) = SelectAt(e, {})
  <2>1. Prolongs(out, q, e, {})
    BY <1>1, <1>3 DEF Prolongs
  <2>2. NoneAfter(e, out, q)
    BY <1>2 DEF NoneAfter
  <2>3. SameSelection(out, q, e, {})
    BY <2>1, <2>2, SelectNoMore
  <2>4. QED
    BY <2>3 DEF SameSelection
<1>5. QED
  BY <1>3, <1>4, SelectOfEmpty DEF LinesIn, q

(* Rows follow the rows, and leave the lines of another kind alone. *)
RowsFollow(out, t, more, S) ==
  /\ more \in Seq(S)
  /\ LinesIn(more, "header") = LinesIn(out, "header")
  /\ Len(LinesIn(out, "row")) \in Nat
  /\ Len(LinesIn(more, "row")) = Len(LinesIn(out, "row")) + Len(t)
  /\ \A j \in 1 .. Len(LinesIn(out, "row")) :
       LinesIn(more, "row")[j] = LinesIn(out, "row")[j]
  /\ \A j \in 1 .. Len(t) : LinesIn(more, "row")[Len(LinesIn(out, "row")) + j] = t[j]

LEMMA RowsAdded ==
  ASSUME NEW S, NEW out \in Seq(S), NEW t \in Seq(S),
         \A i \in 1 .. Len(t) : t[i].kind = "row",
         NEW more, more = out \o t
  PROVE  RowsFollow(out, t, more, S)
<1> DEFINE In(o, kind) == {n \in DOMAIN o : o[n].kind = kind}
<1>1. Len(out) \in Nat /\ Len(t) \in Nat
  BY LenProperties
<1>2. /\ more \in Seq(S) /\ Len(more) = Len(out) + Len(t)
      /\ \A i \in 1 .. Len(out) + Len(t) :
           more[i] = IF i <= Len(out) THEN out[i] ELSE t[i - Len(out)]
  BY ConcatProperties
<1>3. /\ DOMAIN out = 1 .. Len(out) /\ DOMAIN more = 1 .. Len(more)
  BY <1>2, LenProperties
<1>4. ASSUME NEW i \in 1 .. Len(out) PROVE more[i] = out[i] /\ i \in 1 .. Len(more)
  BY <1>1, <1>2
<1>5. ASSUME NEW i \in 1 .. Len(more), i > Len(out)
      PROVE  more[i] = t[i - Len(out)] /\ i - Len(out) \in 1 .. Len(t) /\ more[i].kind = "row"
  <2>1. i - Len(out) \in 1 .. Len(t) /\ i \in 1 .. Len(out) + Len(t) /\ ~ (i <= Len(out))
    BY <1>1, <1>2, <1>5
  <2>2. more[i] = t[i - Len(out)]
    BY <1>2, <2>1
  <2>3. QED
    BY <2>1, <2>2
<1>6. \A kind : Prolongs(more, In(more, kind), out, In(out, kind))
  <2>1. Len(out) <= Len(more)
    BY <1>1, <1>2
  <2>2. \A kind : \A n \in 1 .. Len(out) :
          more[n] = out[n] /\ (n \in In(more, kind) <=> n \in In(out, kind))
    BY <1>3, <1>4
  <2> HIDE DEF In
  <2>3. QED
    BY <2>1, <2>2 DEF Prolongs
<1>7. AllAfter(out, more, In(more, "row"))
  BY <1>3, <1>5 DEF AllAfter
<1>8. NoneAfter(out, more, In(more, "header"))
  BY <1>3, <1>5 DEF NoneAfter
<1>9. Len(more) - Len(out) = Len(t)
  BY <1>1, <1>2
<1> HIDE DEF In
<1>10. SelectAt(more, In(more, "header")) = SelectAt(out, In(out, "header"))
  <2>1. more \in Seq(S) /\ Prolongs(more, In(more, "header"), out, In(out, "header"))
    BY <1>2, <1>6
  <2>2. SameSelection(more, In(more, "header"), out, In(out, "header"))
    BY <1>8, <2>1, SelectNoMore
  <2>3. QED
    BY <2>2 DEF SameSelection
<1>11. PICK a : a = SelectAt(out, In(out, "row"))
  OBVIOUS
<1>12. PICK b : b = SelectAt(more, In(more, "row"))
  OBVIOUS
<1>13. /\ a \in Seq(S)
       /\ Len(b) = Len(a) + (Len(more) - Len(out))
       /\ \A j \in 1 .. Len(a) : b[j] = a[j]
       /\ \A j \in 1 .. Len(more) - Len(out) : b[Len(a) + j] = more[Len(out) + j]
  <2>1. a \in Seq(S) /\ Grows(a, b, out, more)
    BY <1>2, <1>6, <1>7, <1>11, <1>12, SelectAllMore
  <2>2. QED
    BY <2>1 DEF Grows
<1>14. Len(a) \in Nat
  BY <1>13, LenProperties
<1>15. ASSUME NEW j \in 1 .. Len(t) PROVE b[Len(a) + j] = t[j]
  <2>1. PICK i \in 1 .. Len(more) : i = Len(out) + j /\ i > Len(out) /\ i - Len(out) = j
    BY <1>1, <1>2
  <2>2. more[i] = t[j]
    BY <1>5, <2>1
  <2>3. b[Len(a) + j] = more[i]
    BY <1>9, <1>13, <2>1
  <2>4. QED
    BY <2>2, <2>3
<1>16. a = LinesIn(out, "row") /\ b = LinesIn(more, "row")
  BY <1>11, <1>12 DEF LinesIn, In
<1>17. LinesIn(more, "header") = LinesIn(out, "header")
  BY <1>10 DEF LinesIn, In
<1>18. Len(b) = Len(a) + Len(t)
  BY <1>9, <1>13
<1>19. QED
  BY <1>2, <1>13, <1>14, <1>15, <1>16, <1>17, <1>18, Zenon DEF RowsFollow

(* The line of the headers, when it is the only one. *)
LEMMA OnlyHeader ==
  ASSUME NEW c, NEW out, out = Append(<<>>, Line("header", c))
  PROVE  LinesIn(out, "header")[1].cells = c
<1> DEFINE line == Line("header", c)
           q == {n \in DOMAIN out : out[n].kind = "header"}
<1>1. line.kind = "header" /\ line.cells = c
  BY DEF Line
<1> HIDE DEF line
<1>2. PICK e \in Seq({line}) : e = <<>> /\ Len(e) = 0
  BY EmptySeq
<1>3. out = Append(e, line)
  BY <1>2 DEF line
<1>4. /\ out \in Seq({line}) /\ Len(out) = 1 /\ DOMAIN out = 1 .. 1 /\ out[1] = line
  <2>1. /\ out \in Seq({line}) /\ Len(out) = Len(e) + 1 /\ DOMAIN out = 1 .. Len(e) + 1
        /\ out[Len(e) + 1] = line
    BY <1>3, Appended
  <2>2. QED
    BY <1>2, <2>1
<1>5. 1 \in q
  BY <1>1, <1>4
<1> HIDE DEF q
<1>6. PICK a : a = SelectAt(e, {})
  OBVIOUS
<1>7. PICK b : b = SelectAt(out, q)
  OBVIOUS
<1>8. \A j \in 1 .. Len(out) - Len(e) : b[Len(a) + j] = out[Len(e) + j]
  <2>1. Prolongs(out, q, e, {})
    BY <1>2, <1>4 DEF Prolongs
  <2>2. AllAfter(e, out, q)
    BY <1>2, <1>4, <1>5 DEF AllAfter
  <2>3. Grows(a, b, e, out)
    BY <1>4, <1>6, <1>7, <2>1, <2>2, SelectAllMore
  <2>4. QED
    BY <2>3 DEF Grows
<1>9. a = <<>> /\ Len(a) = 0
  BY <1>2, <1>6, SelectOfEmpty
<1>10. b[1] = line
  BY <1>2, <1>4, <1>8, <1>9
<1>11. QED
  BY <1>1, <1>7, <1>10 DEF LinesIn, q

(* The replies that a message brings. *)
LEMMA RepliesOfMessage ==
  ASSUME NEW message \in TaskResults
  PROVE  /\ Pings(message) \in Seq({item \in Items : item.ping})
         /\ Len(Pings(message)) \in Nat
         /\ RepliesOf(message) \in Seq(Reply)
         /\ Len(RepliesOf(message)) = Len(Pings(message))
<1> DEFINE s == message.results
           places == {n \in DOMAIN s : s[n].ping}
           R == {s[n] : n \in (1 .. Len(s)) \cap places}
           P == {item \in Items : item.ping}
<1>1. s \in Seq(Items)
  <2>1. PICK m \in 0 .. MaxItems : s \in [1 .. m -> Items]
    BY DEF TaskResults, BoundedSeq, SeqOf
  <2>2. m \in Nat
    OBVIOUS
  <2>3. QED
    BY <2>1, <2>2, SeqDef
<1>2. \A n \in 1 .. Len(s) : s[n] \in Items
  BY <1>1, ElementOfSeq
<1>3. R \subseteq P
  BY <1>2
<1>4. Pings(message) \in Seq(P)
  <2>1. SelectAt(s, places) \in Seq(R)
    <3> HIDE DEF s, places
    <3>1. QED
      BY <1>1, SelectedFrom DEF R
  <2> HIDE DEF R, P
  <2>2. SelectAt(s, places) \in Seq(P)
    BY <1>3, <2>1, SeqOfMore
  <2>3. QED
    BY <2>2 DEF Pings
<1>5. PICK p \in Seq(P) : p = Pings(message)
  BY <1>4
<1>6. Len(p) \in Nat /\ \A k \in 1 .. Len(p) : p[k] \in P
  BY LenProperties, ElementOfSeq
<1>7. RepliesOf(message) = [k \in 1 .. Len(p) |-> [message |-> message, item |-> p[k]]]
  BY <1>5 DEF RepliesOf
<1>8. \A k \in 1 .. Len(p) : [message |-> message, item |-> p[k]] \in Reply
  BY <1>6 DEF Reply
<1>9. RepliesOf(message) \in [1 .. Len(p) -> Reply]
  <2> HIDE DEF P
  <2>1. QED
    BY <1>7, <1>8
<1>10. RepliesOf(message) \in Seq(Reply) /\ Len(RepliesOf(message)) = Len(p)
  BY <1>6, <1>9, SeqDef, LenProperties
<1>11. QED
  BY <1>4, <1>5, <1>6, <1>10

(* They follow those of the messages before it. *)
LEMMA RepliesGrow ==
  ASSUME NEW msgs \in Seq(TaskResults), NEW message \in TaskResults,
         NEW more, more = Append(msgs, message)
  PROVE  /\ RepliesIn(msgs) \in Seq(Reply)
         /\ RepliesIn(more) = Join(RepliesIn(msgs), RepliesOf(message))
<1> DEFINE a == [n \in 1 .. Len(msgs) |-> RepliesOf(msgs[n])]
           b == [n \in 1 .. Len(more) |-> RepliesOf(more[n])]
           e == RepliesOf(message)
<1>1. /\ more \in Seq(TaskResults) /\ Len(msgs) \in Nat /\ Len(more) = Len(msgs) + 1
      /\ \A i \in 1 .. Len(msgs) : more[i] = msgs[i]
      /\ more[Len(msgs) + 1] = message
      /\ \A i \in 1 .. Len(msgs) : msgs[i] \in TaskResults
      /\ \A i \in 1 .. Len(more) : more[i] \in TaskResults
  BY Appended, ElementOfSeq
<1>2. /\ a \in Seq(Seq(Reply)) /\ Len(a) = Len(msgs)
      /\ b \in Seq(Seq(Reply)) /\ Len(b) = Len(msgs) + 1
  <2>1. a \in [1 .. Len(msgs) -> Seq(Reply)] /\ b \in [1 .. Len(msgs) + 1 -> Seq(Reply)]
    BY <1>1, RepliesOfMessage
  <2>2. Len(msgs) + 1 \in Nat
    BY <1>1
  <2> HIDE DEF a, b
  <2>3. a \in Seq(Seq(Reply)) /\ b \in Seq(Seq(Reply))
    <3>1. PICK k \in Nat : k = Len(msgs)
      BY <1>1
    <3>2. PICK m \in Nat : m = Len(msgs) + 1
      BY <2>2
    <3>3. a \in [1 .. k -> Seq(Reply)] /\ b \in [1 .. m -> Seq(Reply)]
      BY <2>1, <3>1, <3>2
    <3>4. \A n \in Nat : [1 .. n -> Seq(Reply)] \subseteq Seq(Seq(Reply))
      BY SeqDef
    <3>5. QED
      BY <3>3, <3>4, Zenon
  <2>4. DOMAIN a = 1 .. Len(msgs) /\ DOMAIN b = 1 .. Len(msgs) + 1
    BY <2>1
  <2>5. QED
    BY <1>1, <2>2, <2>3, <2>4, LenProperties
<1>3. e \in Seq(Reply)
  BY RepliesOfMessage
<1>4. \A i \in 1 .. Len(msgs) : b[i] = a[i]
  BY <1>1
<1>5. b[Len(msgs) + 1] = e
  BY <1>1
<1> HIDE DEF a, b, e
<1>6. b = Append(a, e)
  <2>1. PICK t : t = Append(a, e)
    OBVIOUS
  <2>2. /\ t \in Seq(Seq(Reply)) /\ Len(t) = Len(a) + 1
        /\ \A i \in 1 .. Len(a) : t[i] = a[i]
        /\ t[Len(a) + 1] = e
    BY <1>2, <1>3, <2>1, Appended
  <2>3. Len(b) = Len(t) /\ \A i \in 1 .. Len(b) : b[i] = t[i]
    <3>1. \A i \in 1 .. Len(b) : i \in 1 .. Len(msgs) \/ i = Len(msgs) + 1
      BY <1>1, <1>2
    <3>2. QED
      BY <1>2, <1>4, <1>5, <2>2, <3>1
  <2>4. b = t
    BY <1>2, <2>2, <2>3, SeqEqual, Zenon
  <2>5. QED
    BY <2>1, <2>4
<1>7. FlattenSeq(a) \in Seq(Reply) /\ FlattenSeq(b) = Join(FlattenSeq(a), e)
  <2>1. a \in Seq(Seq(Reply))
    BY <1>2
  <2>2. Flattens(a, e, b, Reply)
    BY <1>3, <1>6, <2>1, FlattenAppended
  <2>3. QED
    BY <2>2 DEF Flattens
<1>8. QED
  BY <1>7 DEF RepliesIn, a, b, e

LEMMA NoReplies == RepliesIn(<<>>) = <<>>
<1>1. PICK s : s = [n \in 1 .. Len(<<>>) |-> RepliesOf(<<>>[n])]
  OBVIOUS
<1>2. s = <<>> /\ Len(s) = 0
  BY <1>1, EmptySeq
<1>3. FlattenSeq(s) = <<>>
  BY <1>2, Zenon DEF FlattenSeq
<1>4. QED
  BY <1>1, <1>3 DEF RepliesIn

-----------------------------------------------------------------------------
(***************************************************************************)
(* The rows.  A line shows a reply if its cells, under the headers or with *)
(* the names of JSON, are those of a row that does.                        *)
(***************************************************************************)
RowShows(line, reply, opts, hdrs) ==
  \E row : /\ ShowsReply(row, reply, opts)
           /\ line.cells = IF opts.json THEN row
                           ELSE [k \in 1 .. Len(hdrs) |-> row[hdrs[k]]]

(* The lines of a message show its replies, in their order. *)
LEMMA LinesShowReplies ==
  ASSUME NEW message \in TaskResults, Enumerates(headers, ColumnsOf(options))
  PROVE  LET lines == LinesOf(message) IN
         /\ Len(lines) = Len(RepliesOf(message))
         /\ lines \in Seq({lines[k] : k \in 1 .. Len(lines)})
         /\ \A k \in 1 .. Len(lines) :
              /\ lines[k].kind = "row"
              /\ RowShows(lines[k], RepliesOf(message)[k], options, headers)
<1> DEFINE lines == LinesOf(message)
           replies == RepliesOf(message)
           pings == Pings(message)
           row(k) == RowOf(message, pings[k])
<1>1. /\ pings \in Seq({item \in Items : item.ping}) /\ Len(pings) \in Nat
      /\ Len(replies) = Len(pings)
  BY RepliesOfMessage
<1>2. \A k \in 1 .. Len(pings) : pings[k] \in Items /\ pings[k].ping
  BY <1>1, ElementOfSeq
<1>3. message.task_id = TaskId
  BY DEF TaskResults
<1>4. \A k \in 1 .. Len(pings) : replies[k] = [message |-> message, item |-> pings[k]]
  BY DEF RepliesOf
<1>5. lines = [k \in 1 .. Len(pings) |-> Printed(Enriched(row(k)))]
  <2>1. PICK rows : rows = get_data(message)
    OBVIOUS
  <2>2. /\ rows = [k \in 1 .. Len(pings) |-> row(k)]
    BY <2>1 DEF get_data
  <2>3. Len(rows) = Len(pings)
    <3>1. rows \in Seq({row(k) : k \in 1 .. Len(pings)}) /\ DOMAIN rows = 1 .. Len(pings)
      <4>1. rows \in [1 .. Len(pings) -> {row(k) : k \in 1 .. Len(pings)}]
        BY <2>2
      <4>2. QED
        BY <1>1, <4>1, SeqDef
    <3>2. QED
      BY <1>1, <3>1, LenProperties
  <2>4. lines = [k \in 1 .. Len(rows) |-> Printed(Enriched(rows[k]))]
    BY <2>1 DEF LinesOf
  <2>5. \A k \in 1 .. Len(pings) : rows[k] = row(k)
    BY <2>2
  <2> HIDE DEF lines, row, pings
  <2>6. QED
    BY <2>3, <2>4, <2>5
<1> HIDE DEF lines, replies, pings
<1>6. lines \in Seq({lines[k] : k \in 1 .. Len(lines)}) /\ Len(lines) = Len(pings)
  <2> HIDE DEF row
  <2>1. lines \in [1 .. Len(pings) -> {lines[k] : k \in 1 .. Len(pings)}]
    BY <1>5
  <2>2. lines \in Seq({lines[k] : k \in 1 .. Len(pings)}) /\ Len(lines) = Len(pings)
    BY <1>1, <2>1, SeqDef, LenProperties
  <2>3. QED
    BY <2>2
<1>7. ASSUME NEW k \in 1 .. Len(pings)
      PROVE  lines[k].kind = "row" /\ RowShows(lines[k], replies[k], options, headers)
  <2>1. PICK r : r = Enriched(row(k))
    OBVIOUS
  <2>2. lines[k] = Printed(r)
    <3> HIDE DEF row
    <3>1. QED
      BY <1>5, <2>1
  <2>3. ShowsReply(r, replies[k], options)
    BY <1>2, <1>3, <1>4, <2>1, EnrichedShowsReply
  <2>4. \A i \in 1 .. Len(headers) : headers[i] \in DOMAIN r
    <3>1. headers \in Seq(DOMAIN r)
      BY <2>3 DEF ShowsReply, Enumerates
    <3>2. QED
      BY <3>1, ElementOfSeq
  <2>5. [i \in 1 .. Len(headers) |-> IF headers[i] \in DOMAIN r THEN r[headers[i]] ELSE String("")]
          = [i \in 1 .. Len(headers) |-> r[headers[i]]]
    BY <2>4
  <2>6. lines[k] = [kind |-> "row", cells |-> IF options.json THEN r
                            ELSE [i \in 1 .. Len(headers) |-> r[headers[i]]]]
    BY <2>2, <2>5, Zenon DEF Printed, Line
  <2>7. /\ lines[k].kind = "row"
        /\ lines[k].cells = IF options.json THEN r
                            ELSE [i \in 1 .. Len(headers) |-> r[headers[i]]]
    BY <2>6
  <2>8. QED
    BY <2>3, <2>7 DEF RowShows
<1>8. QED
  BY <1>1, <1>6, <1>7 DEF lines, replies

-----------------------------------------------------------------------------
(***************************************************************************)
(* Every reply is shown.  While the cli receives, its rows show the        *)
(* replies of all messages one for one; a panic, which can come between a  *)
(* message and its rows, may leave out the last ones.  The headers are     *)
(* there before the first row.                                             *)
(***************************************************************************)
HeaderShown(out, opts, hdrs) ==
  /\ Enumerates(hdrs, ColumnsOf(opts))
  /\ ~ opts.json => LinesIn(out, "header")[1].cells = hdrs

AllShown(out, msgs, stg, opts, hdrs) ==
  LET rows == LinesIn(out, "row")
      replies == RepliesIn(msgs)
  IN  /\ \E S : out \in Seq(S)
      /\ Len(rows) <= Len(replies)
      /\ stg # "panicked" => Len(rows) = Len(replies)
      /\ \A k \in 1 .. Len(rows) : RowShows(rows[k], replies[k], opts, hdrs)
      /\ stg \in {"opened", "subscribed"} \/ Len(rows) > 0 => HeaderShown(out, opts, hdrs)

ShownInv == Stages /\ AllShown(output, messages, stage, options, headers)

(* Output without rows shows everything as long as there are no messages.    *)
LEMMA NothingToShow ==
  ASSUME NEW S, NEW out \in Seq(S), \A line \in S : line.kind # "row",
         NEW stg, NEW opts, NEW hdrs,
         stg \in {"opened", "subscribed"} => HeaderShown(out, opts, hdrs)
  PROVE  AllShown(out, <<>>, stg, opts, hdrs)
<1>1. LinesIn(out, "row") = <<>>
  BY NoneOfKind
<1>2. PICK e : e = <<>> /\ Len(e) = 0
  BY EmptySeq
<1>3. LinesIn(out, "row") = e /\ RepliesIn(<<>>) = e
  BY <1>1, <1>2, NoReplies
<1>4. QED
  BY <1>2, <1>3 DEF AllShown

(* A later stage asks no more. *)
LEMMA StageChanges ==
  ASSUME NEW out, NEW msgs, NEW stg, NEW opts, NEW hdrs, AllShown(out, msgs, stg, opts, hdrs),
         NEW later, stg # "panicked",
         later \in {"opened", "subscribed"} => stg \in {"opened", "subscribed"}
  PROVE  AllShown(out, msgs, later, opts, hdrs)
BY DEF AllShown

(* Another line, neither row nor header, changes nothing. *)
LEMMA OtherLine ==
  ASSUME NEW out, NEW msgs, NEW stg, NEW opts, NEW hdrs, AllShown(out, msgs, stg, opts, hdrs),
         NEW line, line.kind \notin {"row", "header"}
  PROVE  AllShown(Append(out, line), msgs, stg, opts, hdrs)
<1>1. PICK T : out \in Seq(T)
  BY DEF AllShown
<1>2. PICK S : S = T \cup {line}
  OBVIOUS
<1>3. out \in Seq(S) /\ line \in S
  BY <1>1, <1>2, SeqOfMore
<1>4. PICK more : more = Append(out, line)
  OBVIOUS
<1>5. more \in Seq(S)
  BY <1>3, <1>4, AppendProperties
<1>6. LinesIn(more, "row") = LinesIn(out, "row") /\ LinesIn(more, "header") = LinesIn(out, "header")
  BY <1>3, <1>4, AnotherKind
<1>7. HeaderShown(out, opts, hdrs) => HeaderShown(more, opts, hdrs)
  BY <1>6 DEF HeaderShown
<1>8. AllShown(more, msgs, stg, opts, hdrs)
  BY <1>5, <1>6, <1>7 DEF AllShown
<1>9. QED
  BY <1>4, <1>8

(* The lines of a message follow, as its replies follow the others. *)
LEMMA MessageShown ==
  ASSUME NEW message \in TaskResults,
         messages \in Seq(TaskResults), stage = "subscribed",
         AllShown(output, messages, stage, options, headers)
  PROVE  AllShown(output \o LinesOf(message), Append(messages, message), stage, options, headers)
<1> DEFINE L == LinesOf(message)
           R == RepliesOf(message)
<1>1. HeaderShown(output, options, headers) /\ Enumerates(headers, ColumnsOf(options))
  BY DEF AllShown, HeaderShown
<1>2. /\ Len(L) = Len(R)
      /\ L \in Seq({L[k] : k \in 1 .. Len(L)})
      /\ \A k \in 1 .. Len(L) :
           L[k].kind = "row" /\ RowShows(L[k], R[k], options, headers)
  BY <1>1, LinesShowReplies
<1>3. R \in Seq(Reply)
  BY RepliesOfMessage
<1> HIDE DEF L, R
<1>4. PICK T : output \in Seq(T)
  BY DEF AllShown
<1>5. PICK S : S = T \cup {L[k] : k \in 1 .. Len(L)}
  OBVIOUS
<1>6. output \in Seq(S) /\ L \in Seq(S)
  <2>1. T \subseteq S /\ {L[k] : k \in 1 .. Len(L)} \subseteq S
    BY <1>5
  <2>2. QED
    BY <1>2, <1>4, <2>1, SeqOfMore
<1>7. PICK more : more = output \o L
  OBVIOUS
<1>8. PICK rows : rows = LinesIn(output, "row")
  OBVIOUS
<1>9. PICK rowsAfter : rowsAfter = LinesIn(more, "row")
  OBVIOUS
<1>10. /\ more \in Seq(S)
       /\ LinesIn(more, "header") = LinesIn(output, "header")
       /\ Len(rows) \in Nat
       /\ Len(rowsAfter) = Len(rows) + Len(L)
       /\ \A j \in 1 .. Len(rows) : rowsAfter[j] = rows[j]
       /\ \A j \in 1 .. Len(L) : rowsAfter[Len(rows) + j] = L[j]
  <2>1. \A i \in 1 .. Len(L) : L[i].kind = "row"
    BY <1>2
  <2>2. RowsFollow(output, L, more, S)
    BY <1>6, <1>7, <2>1, RowsAdded
  <2>3. QED
    BY <1>8, <1>9, <2>2 DEF RowsFollow
<1>11. PICK msgs : msgs = Append(messages, message)
  OBVIOUS
<1>12. PICK replies : replies = RepliesIn(messages)
  OBVIOUS
<1>13. PICK repliesAfter : repliesAfter = RepliesIn(msgs)
  OBVIOUS
<1>14. /\ Len(replies) \in Nat /\ Len(R) \in Nat
       /\ Len(repliesAfter) = Len(replies) + Len(R)
       /\ \A j \in 1 .. Len(replies) + Len(R) : repliesAfter[j] =
            IF j <= Len(replies) THEN replies[j] ELSE R[j - Len(replies)]
  <2>1. replies \in Seq(Reply) /\ repliesAfter = Join(replies, R)
    BY <1>11, <1>12, <1>13, RepliesGrow DEF R
  <2>2. repliesAfter = replies \o R
    BY <2>1 DEF Join
  <2>3. QED
    BY <1>3, <2>1, <2>2, ConcatProperties, LenProperties
<1>15. /\ Len(rows) = Len(replies)
       /\ \A k \in 1 .. Len(rows) : RowShows(rows[k], replies[k], options, headers)
  BY <1>8, <1>12 DEF AllShown
<1>16. Len(rowsAfter) = Len(repliesAfter)
  BY <1>2, <1>10, <1>14, <1>15
<1>17. ASSUME NEW k \in 1 .. Len(rowsAfter)
       PROVE  RowShows(rowsAfter[k], repliesAfter[k], options, headers)
  <2>1. CASE k <= Len(rows)
    <3>1. k \in 1 .. Len(rows) /\ k \in 1 .. Len(replies) + Len(R)
      BY <1>10, <1>14, <1>15, <2>1
    <3>2. rowsAfter[k] = rows[k] /\ repliesAfter[k] = replies[k]
      BY <1>10, <1>14, <1>15, <2>1, <3>1
    <3>3. QED
      BY <1>15, <3>1, <3>2
  <2>2. CASE k > Len(rows)
    <3>1. PICK j \in 1 .. Len(L) : k = Len(rows) + j /\ j = k - Len(replies)
      <4>1. PICK n \in Nat, m \in Nat :
              n = Len(rows) /\ n = Len(replies) /\ m = Len(L) /\ Len(rowsAfter) = n + m
        BY <1>2, <1>10, <1>14, <1>15
      <4>2. k - n \in 1 .. m /\ k = n + (k - n)
        BY <2>2, <4>1
      <4>3. QED
        BY <4>1, <4>2
    <3>2. rowsAfter[k] = L[j]
      BY <1>10, <3>1
    <3>3. repliesAfter[k] = R[j]
      <4>1. k \in 1 .. Len(replies) + Len(R) /\ ~ (k <= Len(replies))
        BY <1>2, <1>10, <1>14, <1>15, <2>2
      <4>2. QED
        BY <1>14, <3>1, <4>1
    <3>4. QED
      BY <1>2, <3>2, <3>3
  <2>3. QED
    BY <1>10, <1>14, <2>1, <2>2
<1>18. HeaderShown(more, options, headers)
  BY <1>1, <1>10 DEF HeaderShown
<1>19. AllShown(more, msgs, stage, options, headers)
  BY <1>9, <1>10, <1>13, <1>14, <1>16, <1>17, <1>18 DEF AllShown
<1>20. QED
  BY <1>7, <1>11, <1>19 DEF L

(* A message whose rows are lost in a panic leaves those before it. *)
LEMMA MessageLost ==
  ASSUME NEW message \in TaskResults,
         messages \in Seq(TaskResults), stage = "subscribed",
         AllShown(output, messages, stage, options, headers)
  PROVE  AllShown(output, Append(messages, message), "panicked", options, headers)
<1> DEFINE R == RepliesOf(message)
<1>1. PICK msgs : msgs = Append(messages, message)
  OBVIOUS
<1>2. PICK replies : replies = RepliesIn(messages)
  OBVIOUS
<1>3. PICK repliesAfter : repliesAfter = RepliesIn(msgs)
  OBVIOUS
<1>4. PICK rows : rows = LinesIn(output, "row")
  OBVIOUS
<1>5. /\ Len(replies) \in Nat /\ Len(repliesAfter) \in Nat /\ Len(replies) <= Len(repliesAfter)
      /\ \A j \in 1 .. Len(replies) : repliesAfter[j] = replies[j]
  <2>1. R \in Seq(Reply)
    BY RepliesOfMessage
  <2>2. replies \in Seq(Reply) /\ repliesAfter = Join(replies, R)
    BY <1>1, <1>2, <1>3, RepliesGrow
  <2> HIDE DEF R
  <2>3. repliesAfter = replies \o R
    BY <2>2 DEF Join
  <2>4. /\ Len(replies) \in Nat /\ Len(R) \in Nat
        /\ Len(repliesAfter) = Len(replies) + Len(R)
        /\ \A j \in 1 .. Len(replies) + Len(R) : repliesAfter[j] =
             IF j <= Len(replies) THEN replies[j] ELSE R[j - Len(replies)]
    BY <2>1, <2>2, <2>3, ConcatProperties, LenProperties
  <2>5. \A j \in 1 .. Len(replies) : j \in 1 .. Len(replies) + Len(R) /\ j <= Len(replies)
    BY <2>4
  <2>6. \A j \in 1 .. Len(replies) : repliesAfter[j] = replies[j]
    BY <2>4, <2>5
  <2>7. QED
    BY <2>4, <2>6
<1>6. /\ Len(rows) = Len(replies)
      /\ \A k \in 1 .. Len(rows) : RowShows(rows[k], replies[k], options, headers)
      /\ HeaderShown(output, options, headers)
      /\ \E S : output \in Seq(S)
  BY <1>2, <1>4 DEF AllShown
<1>7. \A k \in 1 .. Len(rows) : RowShows(rows[k], repliesAfter[k], options, headers)
  BY <1>5, <1>6
<1>8. AllShown(output, msgs, "panicked", options, headers)
  BY <1>3, <1>4, <1>5, <1>6, <1>7 DEF AllShown
<1>9. QED
  BY <1>1, <1>8

LEMMA ShownInit == Init => ShownInv
<1> SUFFICES ASSUME Init PROVE ShownInv
  OBVIOUS
<1>1. Stages
  BY PanicInit DEF PanicInv
<1>2. output = <<>> /\ messages = <<>> /\ stage = "started"
  BY DEF Init
<1>3. PICK e \in Seq({}) : e = <<>>
  BY EmptySeq
<1>4. AllShown(e, <<>>, stage, options, headers)
  BY <1>2, NothingToShow
<1>5. QED
  BY <1>1, <1>2, <1>3, <1>4 DEF ShownInv

(* The list of clients has no rows. *)
LEMMA ClientListHasNoRows ==
  ASSUME print_client_list
  PROVE  \E S : output' \in Seq(S) /\ \A line \in S : line.kind # "row"
<1>1. CASE output' = <<Line("error", <<"unable to obtain client list">>)>>
  <2>1. PICK line : line = Line("error", <<"unable to obtain client list">>)
    OBVIOUS
  <2>2. line.kind # "row"
    BY <2>1 DEF Line
  <2>3. output' = <<line>>
    BY <1>1, <2>1
  <2>4. PICK S : S = {line}
    OBVIOUS
  <2>5. <<line>> \in Seq(S)
    BY <2>4
  <2>6. PICK out : out = <<line>>
    OBVIOUS
  <2>7. out \in Seq(S) /\ (\A l \in S : l.kind # "row")
    BY <2>2, <2>4, <2>5, <2>6, Zenon
  <2>8. output' = out
    BY <2>3, <2>6
  <2>9. QED
    BY <2>7, <2>8, Zenon
<1>2. CASE \E list \in SetToSeqs(Clients) :
             output' = <<Line("title", <<"Index", "Hostname", "Version">>)>>
                       \o [k \in 1 .. Len(list) |->
                             Line("client", <<list[k].index, list[k].hostname, list[k].version>>)]
                       \o <<Line("count", <<Len(list)>>)>>
  <2>1. PICK list \in SetToSeqs(Clients) :
             output' = <<Line("title", <<"Index", "Hostname", "Version">>)>>
                       \o [k \in 1 .. Len(list) |->
                             Line("client", <<list[k].index, list[k].hostname, list[k].version>>)]
                       \o <<Line("count", <<Len(list)>>)>>
    BY <1>2
  <2>2. Len(list) \in Nat
    <3>1. Cardinality(Clients) \in Nat
      BY ClientsAssumption, FS_CardinalityType
    <3>2. list \in [1 .. Cardinality(Clients) -> Clients]
      BY DEF SetToSeqs
    <3>3. list \in Seq(Clients)
      BY <3>1, <3>2, SeqDef
    <3>4. QED
      BY <3>3, LenProperties
  <2>3. PICK title : title = Line("title", <<"Index", "Hostname", "Version">>)
    OBVIOUS
  <2>4. PICK count : count = Line("count", <<Len(list)>>)
    OBVIOUS
  <2> DEFINE lineOf(k) == Line("client", <<list[k].index, list[k].hostname, list[k].version>>)
             lines == [k \in 1 .. Len(list) |-> lineOf(k)]
             S == {title, count} \cup {lineOf(k) : k \in 1 .. Len(list)}
  <2>5. \A line \in S : line.kind # "row"
    BY <2>3, <2>4 DEF Line
  <2>6. output' = (<<title>> \o lines) \o <<count>>
    BY <2>1, <2>3, <2>4, Zenon
  <2> HIDE DEF lineOf
  <2>7. lines \in Seq(S)
    <3>1. lines \in [1 .. Len(list) -> S]
      OBVIOUS
    <3> HIDE DEF lines, S
    <3>2. QED
      BY <2>2, <3>1, SeqDef
  <2>8. title \in S /\ count \in S
    OBVIOUS
  <2> HIDE DEF lines, S
  <2>9. <<title>> \in Seq(S) /\ <<count>> \in Seq(S)
    BY <2>8
  <2>10. <<title>> \o lines \in Seq(S)
    BY <2>7, <2>9, ConcatProperties
  <2>11. (<<title>> \o lines) \o <<count>> \in Seq(S)
    <3>1. PICK t : t = <<title>> \o lines
      OBVIOUS
    <3>2. t \in Seq(S)
      BY <2>10, <3>1
    <3>3. t \o <<count>> \in Seq(S)
      BY <2>9, <3>2, ConcatProperties
    <3>4. QED
      BY <3>1, <3>3
  <2>12. output' \in Seq(S)
    BY <2>6, <2>11
  <2>13. QED
    BY <2>5, <2>12
<1>3. QED
  BY <1>1, <1>2 DEF print_client_list

(* Nor has the report of a failure. *)
LEMMA FailureHasNoRows ==
  ASSUME ReportFailure, output = <<>>
  PROVE  \E S : output' \in Seq(S) /\ \A line \in S : line.kind # "row"
<1>1. PICK a : a = Line("error", <<"failed to schedule task">>)
  OBVIOUS
<1>2. PICK b : b = Line("error", <<"Message">>)
  OBVIOUS
<1>3. \A line \in {a, b} : line.kind # "row"
  <2>1. a.kind # "row"
    BY <1>1 DEF Line
  <2>2. b.kind # "row"
    BY <1>2 DEF Line
  <2>3. QED
    BY <2>1, <2>2, Zenon
<1>4. PICK rest : rest = IF ErrorMessageMissing THEN <<>> ELSE <<b>>
  OBVIOUS
<1>5. rest \in Seq({a, b})
  <2>1. <<>> \in Seq({a, b}) /\ <<b>> \in Seq({a, b})
    BY EmptySeq
  <2>2. QED
    BY <1>4, <2>1, Zenon
<1>6. output' = Append(output, a) \o rest
  BY <1>1, <1>2, <1>4, Zenon DEF ReportFailure
<1>7. PICK first : first = Append(output, a)
  OBVIOUS
<1>8. first \in Seq({a, b})
  <2>1. PICK e \in Seq({a, b}) : e = <<>>
    BY EmptySeq
  <2>2. Append(e, a) \in Seq({a, b})
    BY <2>1, AppendProperties
  <2>3. QED
    BY <1>7, <2>1, <2>2
<1>9. first \o rest \in Seq({a, b})
  BY <1>5, <1>8, ConcatProperties
<1>10. output' \in Seq({a, b})
  BY <1>6, <1>7, <1>9
<1>11. QED
  BY <1>3, <1>10

LEMMA ShownNext == PanicInv /\ ShownInv /\ [Next]_vars => ShownInv'
<1> SUFFICES ASSUME PanicInv, ShownInv, [Next]_vars PROVE ShownInv'
  OBVIOUS
<1>0. Stages /\ Stages' /\ AllShown(output, messages, stage, options, headers)
  BY PanicNext DEF ShownInv, PanicInv
<1> SUFFICES AllShown(output', messages', stage', options', headers')
  BY <1>0 DEF ShownInv
<1>1. CASE UNCHANGED <<options, stage, messages, headers, output>>
  BY <1>0, <1>1
<1>2. CASE Unimplemented \/ ReadInput \/ DoTask \/ Subscribe
  <2>1. /\ UNCHANGED <<options, messages, headers, output>>
        /\ stage # "panicked"
        /\ stage' \in {"opened", "subscribed"} => stage \in {"opened", "subscribed"}
    BY <1>2 DEF Unimplemented, ReadInput, DoTask, Subscribe, Panic
  <2>2. AllShown(output, messages, stage', options, headers)
    BY <1>0, <2>1, StageChanges
  <2>3. QED
    BY <2>1, <2>2
<1>3. CASE print_client_list \/ ReportFailure
  <2>1. /\ UNCHANGED <<options, messages, headers>>
        /\ messages = <<>> /\ output = <<>>
        /\ stage' \in {"ended", "panicked"}
    BY <1>0, <1>3 DEF print_client_list, ReportFailure, Panic, Stages
  <2>2. PICK S : output' \in Seq(S) /\ \A line \in S : line.kind # "row"
    BY <1>3, <2>1, ClientListHasNoRows, FailureHasNoRows
  <2>3. PICK out : out = output'
    OBVIOUS
  <2>4. PICK stg : stg = stage'
    OBVIOUS
  <2>5. AllShown(out, <<>>, stg, options, headers)
    BY <2>1, <2>2, <2>3, <2>4, NothingToShow
  <2>6. QED
    BY <2>1, <2>3, <2>4, <2>5
<1>4. CASE OpenDatabases
  <2>1. /\ UNCHANGED <<options, messages>>
        /\ stage = "answered" /\ messages = <<>> /\ output = <<>>
    BY <1>0, <1>4 DEF OpenDatabases, Stages
  <2>2. CASE stage' = "panicked" /\ UNCHANGED <<headers, output>>
    <3>1. AllShown(output, messages, stage', options, headers)
      BY <1>0, <2>1, <2>2, StageChanges
    <3>2. QED
      BY <2>1, <2>2, <3>1
  <2>3. CASE /\ stage' = "opened" /\ headers' = AllHeaders
             /\ output' = IF options.json THEN output ELSE Append(output, Line("header", AllHeaders))
    <3>1. PICK columns : columns = AllHeaders
      OBVIOUS
    <3>2. PICK line : line = Line("header", columns)
      OBVIOUS
    <3>3. line.kind # "row"
      BY <3>2 DEF Line
    <3>4. PICK out : out = output'
      OBVIOUS
    <3>5. PICK e \in Seq({line}) : e = <<>>
      BY EmptySeq
    <3>6. out = IF options.json THEN e ELSE Append(e, line)
      BY <2>1, <2>3, <3>1, <3>2, <3>4, <3>5
    <3>7. out \in Seq({line})
      <4>1. Append(e, line) \in Seq({line})
        BY AppendProperties
      <4>2. QED
        BY <3>5, <3>6, <4>1
    <3>8. Enumerates(columns, ColumnsOf(options))
      BY <3>1, HeadersNameTheColumns
    <3>9. ~ options.json => LinesIn(out, "header")[1].cells = columns
      BY <3>2, <3>5, <3>6, OnlyHeader
    <3>10. HeaderShown(out, options, columns)
      BY <3>8, <3>9 DEF HeaderShown
    <3>11. AllShown(out, <<>>, "opened", options, columns)
      BY <3>3, <3>7, <3>10, NothingToShow
    <3>12. QED
      BY <2>1, <2>3, <3>1, <3>4, <3>11
  <2>4. QED
    BY <1>4, <2>2, <2>3 DEF OpenDatabases, Panic
<1>5. CASE ReceiveResult
  <2>1. /\ stage = "subscribed" /\ UNCHANGED <<options, headers>>
        /\ messages \in Seq(TaskResults)
    BY <1>0, <1>5 DEF ReceiveResult, Stages
  <2>2. PICK message \in TaskResults :
          /\ messages' = Append(messages, message)
          /\ \/ stage' = "panicked" /\ output' = output
             \/ output' = output \o LinesOf(message) /\ stage' = stage
    BY <1>5 DEF ReceiveResult, Panic
  <2>3. AllShown(output \o LinesOf(message), Append(messages, message), stage, options, headers)
    BY <1>0, <2>1, MessageShown
  <2>4. AllShown(output, Append(messages, message), "panicked", options, headers)
    BY <1>0, <2>1, MessageLost
  <2>5. QED
    BY <2>1, <2>2, <2>3, <2>4
<1>6. CASE StreamEnds
  <2>1. /\ stage = "subscribed" /\ stage' = "ended"
        /\ UNCHANGED <<options, messages, headers>>
    BY <1>6 DEF StreamEnds
  <2>2. PICK line : line = Line("error", <<"stream failed">>)
    OBVIOUS
  <2>3. output' = output \/ output' = Append(output, line)
    BY <1>6, <2>2 DEF StreamEnds
  <2>4. AllShown(output, messages, "ended", options, headers)
    BY <1>0, <2>1, StageChanges
  <2>5. line.kind \notin {"row", "header"}
    BY <2>2 DEF Line
  <2>6. AllShown(Append(output, line), messages, "ended", options, headers)
    BY <2>4, <2>5, OtherLine
  <2>7. QED
    BY <2>1, <2>3, <2>4, <2>6
<1>7. QED
  BY <1>1, <1>2, <1>3, <1>4, <1>5, <1>6 DEF Next, StartNext, CliNext, vars

(* What a reader finds under the name of a column.                           *)
CellsAreOf(row, k) ==
  Lines("row")[k].cells = IF options.json THEN row
                          ELSE [i \in 1 .. Len(headers) |-> row[headers[i]]]

LEMMA ShownIsOfTheRow ==
  ASSUME NEW k, NEW row, NEW c \in ColumnsOf(options),
         Enumerates(headers, ColumnsOf(options)),
         ~ options.json => Lines("header")[1].cells = headers, CellsAreOf(row, k)
  PROVE  Shown(k, c) = row[c].value
<1>1. CASE options.json
  BY <1>1 DEF Shown, CellsAreOf
<1>2. CASE ~ options.json
  <2> DEFINE place == CHOOSE p \in 1 .. Len(headers) : headers[p] = c
  <2>1. \E p \in 1 .. Len(headers) : headers[p] = c
    BY DEF Enumerates
  <2>2. place \in 1 .. Len(headers) /\ headers[place] = c
    BY <2>1
  <2>3. PICK cells : cells = [i \in 1 .. Len(headers) |-> row[headers[i]]]
    OBVIOUS
  <2>4. Shown(k, c) = cells[place].value
    BY <1>2, <2>3, Zenon DEF Shown, CellsAreOf
  <2> HIDE DEF place
  <2>5. cells[place] = row[c]
    BY <2>2, <2>3
  <2>6. QED
    BY <2>4, <2>5
<1>3. QED
  BY <1>1, <1>2

LEMMA AllShownToTheReader == ShownInv => EveryReplyIsShown
<1> SUFFICES ASSUME ShownInv PROVE EveryReplyIsShown
  OBVIOUS
<1>1. PICK rows : rows = Lines("row")
  OBVIOUS
<1>2. PICK replies : replies = Replies
  OBVIOUS
<1>3. rows = LinesIn(output, "row") /\ replies = RepliesIn(messages)
      /\ Lines("header") = LinesIn(output, "header") /\ Columns = ColumnsOf(options)
  BY <1>1, <1>2 DEF Lines, LinesIn, Replies, RepliesIn, Columns, ColumnsOf, BasicColumns
<1>4. /\ Len(rows) <= Len(replies)
      /\ stage # "panicked" => Len(rows) = Len(replies)
      /\ \A k \in 1 .. Len(rows) : RowShows(rows[k], replies[k], options, headers)
      /\ Len(rows) > 0 => HeaderShown(output, options, headers)
  BY <1>3 DEF ShownInv, AllShown
<1>5. Len(rows) \in Nat
  <2>1. PICK S : output \in Seq(S)
    BY DEF ShownInv, AllShown
  <2>2. rows \in Seq(S)
    BY <1>3, <2>1, SelectType DEF LinesIn
  <2>3. QED
    BY <2>2, LenProperties
<1>6. ASSUME NEW k \in 1 .. Len(rows)
      PROVE  LET message == replies[k].message
                 item == replies[k].item
             IN  /\ IF options.json THEN DOMAIN rows[k].cells = Columns
                    ELSE /\ Range(Lines("header")[1].cells) = Columns
                         /\ Len(rows[k].cells) = Cardinality(Columns)
                 /\ Shown(k, "task_id") = TaskId
                 /\ Shown(k, "client_id") = message.hostname
                 /\ Shown(k, "transmit_time") = item.transmit
                 /\ Shown(k, "receive_time") = item.receive
                 /\ Shown(k, "source_address") = item.source
                 /\ Shown(k, "destination_address") = item.destination
                 /\ Shown(k, "meta_source_address") = item.meta_source
                 /\ Shown(k, "meta_destination_address") = item.meta_destination
                 /\ Shown(k, "ttl") = item.ttl
                 /\ (item.transmit + Shown(k, "send_receive_time_diff")) % WordSize = item.receive
                 /\ options.country # "absent" =>
                      Shown(k, "source_address_country") =
                        IF item.source \in DOMAIN Countries THEN Countries[item.source] ELSE "Unknown"
                 /\ options.asn # "absent" =>
                      LET shown == Shown(k, "source_address_asn") IN
                      IF item.source \in DOMAIN Asns THEN shown = Asns[item.source]
                      ELSE shown = "Unknown"
  <2>1. HeaderShown(output, options, headers)
    BY <1>4, <1>5
  <2>2. Enumerates(headers, ColumnsOf(options))
        /\ (~ options.json => Lines("header")[1].cells = headers)
    BY <1>3, <2>1 DEF HeaderShown
  <2>3. PICK row : /\ ShowsReply(row, replies[k], options)
                   /\ rows[k].cells = IF options.json THEN row
                                      ELSE [i \in 1 .. Len(headers) |-> row[headers[i]]]
    BY <1>4 DEF RowShows
  <2>4. \A c \in ColumnsOf(options) : Shown(k, c) = row[c].value
    <3>1. CellsAreOf(row, k)
      BY <1>1, <2>3, Zenon DEF CellsAreOf
    <3>2. QED
      BY <2>2, <3>1, ShownIsOfTheRow
  <2>5. DOMAIN row = ColumnsOf(options) /\ ShowsBasics(row, replies[k])
        /\ (options.country # "absent" => ShowsCountry(row, replies[k]))
        /\ (options.asn # "absent" => ShowsAsn(row, replies[k]))
    BY <2>3 DEF ShowsReply
  <2>6. IF options.json THEN DOMAIN rows[k].cells = Columns
        ELSE /\ Range(Lines("header")[1].cells) = Columns
             /\ Len(rows[k].cells) = Cardinality(Columns)
    <3>1. CASE options.json
      BY <1>3, <2>3, <2>5, <3>1
    <3>2. CASE ~ options.json
      <4>1. Range(headers) = ColumnsOf(options) /\ Len(headers) = Cardinality(ColumnsOf(options))
        BY <2>2, EnumerationIsComplete
      <4>2. PICK cells : cells = rows[k].cells /\ cells = [i \in 1 .. Len(headers) |-> row[headers[i]]]
        BY <2>3, <3>2
      <4>3. Len(cells) = Len(headers)
        <5>1. headers \in Seq(ColumnsOf(options))
          BY <2>2 DEF Enumerates
        <5>2. Len(headers) \in Nat
          BY <5>1, LenProperties
        <5>3. PICK n \in Nat : n = Len(headers)
          BY <5>2
        <5>4. cells \in [1 .. n -> {row[headers[i]] : i \in 1 .. n}]
          BY <4>2, <5>3
        <5>5. cells \in Seq({row[headers[i]] : i \in 1 .. n}) /\ DOMAIN cells = 1 .. n
          BY <5>4, SeqDef
        <5>6. QED
          BY <5>3, <5>5, LenProperties
      <4>4. QED
        BY <1>3, <2>2, <3>2, <4>1, <4>2, <4>3
    <3>3. QED
      BY <3>1, <3>2
  <2>7. /\ Shown(k, "task_id") = TaskId
        /\ Shown(k, "client_id") = replies[k].message.hostname
        /\ Shown(k, "transmit_time") = replies[k].item.transmit
        /\ Shown(k, "receive_time") = replies[k].item.receive
        /\ Shown(k, "source_address") = replies[k].item.source
        /\ Shown(k, "destination_address") = replies[k].item.destination
        /\ Shown(k, "meta_source_address") = replies[k].item.meta_source
        /\ Shown(k, "meta_destination_address") = replies[k].item.meta_destination
        /\ Shown(k, "ttl") = replies[k].item.ttl
        /\ (replies[k].item.transmit + Shown(k, "send_receive_time_diff")) % WordSize
             = replies[k].item.receive
    <3>1. \A c \in BasicColumns : Shown(k, c) = row[c].value
      BY <2>4, <2>5 DEF ShowsBasics
    <3>2. /\ Shown(k, "task_id") = row["task_id"].value
          /\ Shown(k, "client_id") = row["client_id"].value
          /\ Shown(k, "transmit_time") = row["transmit_time"].value
          /\ Shown(k, "receive_time") = row["receive_time"].value
          /\ Shown(k, "send_receive_time_diff") = row["send_receive_time_diff"].value
          /\ Shown(k, "source_address") = row["source_address"].value
          /\ Shown(k, "destination_address") = row["destination_address"].value
          /\ Shown(k, "meta_source_address") = row["meta_source_address"].value
          /\ Shown(k, "meta_destination_address") = row["meta_destination_address"].value
          /\ Shown(k, "ttl") = row["ttl"].value
      BY <3>1, Zenon DEF BasicColumns
    <3>3. row["source_address"].value = replies[k].item.source
      BY <2>5 DEF ShowsBasics, IpAddress
    <3>4. QED
      BY <2>5, <3>2, <3>3, Zenon DEF ShowsBasics
  <2>8. options.country # "absent" =>
          Shown(k, "source_address_country") =
            IF replies[k].item.source \in DOMAIN Countries
            THEN Countries[replies[k].item.source] ELSE "Unknown"
    <3>1. options.country # "absent" => "source_address_country" \in ColumnsOf(options)
      BY DEF ColumnsOf
    <3>2. QED
      BY <2>4, <2>5, <3>1, Zenon DEF ShowsCountry
  <2>9. options.asn # "absent" =>
          Shown(k, "source_address_asn") =
            IF replies[k].item.source \in DOMAIN Asns
            THEN Asns[replies[k].item.source] ELSE "Unknown"
    <3>1. options.asn # "absent" => "source_address_asn" \in ColumnsOf(options)
      BY DEF ColumnsOf
    <3>2. QED
      BY <2>4, <2>5, <3>1, Zenon DEF ShowsAsn
  <2>10. QED
    BY <2>6, <2>7, <2>8, <2>9, Zenon
<1>7. QED
  BY <1>1, <1>2, <1>4, <1>6, Zenon DEF EveryReplyIsShown

(* Every ping that the cli received is shown once, in order, with each       *)
(* column under its name, whatever the databases know and however the output *)
(* is written.                                                               *)
THEOREM RepliesAreShown == Spec => []EveryReplyIsShown
<1>1. PanicInv /\ ShownInv /\ [Next]_vars => (PanicInv /\ ShownInv)'
  BY PanicNext, ShownNext
<1>2. PanicInv /\ ShownInv => EveryReplyIsShown
  BY AllShownToTheReader
<1>3. QED
  BY <1>1, <1>2, PanicInit, ShownInit, PTL DEF Spec
=============================================================================
