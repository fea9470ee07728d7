--------------------------------- MODULE Cli ---------------------------------
(***************************************************************************)
(* The cli (cli/mod.rs) and the rows that it prints                        *)
(* (cli/enrichment/mod.rs): from its command line over the calls to the    *)
(* server to the lines of its output.                                      *)
(*                                                                         *)
(* A row maps the name of a column to RowData.  Strings are not modelled   *)
(* beyond their identity: a name has no comma, and a line of CSV is the    *)
(* sequence of its cells.                                                  *)
(***************************************************************************)
EXTENDS Main, FiniteSets, Sequences, SequencesExt

CONSTANTS
  Clients,      \* clients in the server's list: records of index, hostname, version
  Items,        \* results that a client may report
  Hostnames,    \* clients that report
  MaxItems, MaxMessages,  \* bounds on the results of a message, and on the messages
  TaskId,       \* the id of the scheduled task
  Countries,    \* what the databases know: Countries[address], if they know it
  Asns,
  WordSize      \* the number of values of a u64, 2^64

ASSUME CliAssumption == WordSize \in Nat \ {0}

ASSUME ClientsAssumption == IsFiniteSet(Clients)

(* The times of a ping are u64. *)
ASSUME ItemsAssumption ==
  \A item \in Items :
    item.ping => item.receive \in 0 .. WordSize - 1 /\ item.transmit \in 0 .. WordSize - 1

VARIABLES
  options,    \* the command line of the cli, and how it was built
  stage,      \* how far it has got
  tasks,      \* history: the number of tasks it has scheduled
  answer,     \* history: the server's answer to do_task
  messages,   \* history: the task results received
  headers,    \* the columns
  output      \* the lines printed

vars == <<startVars, options, stage, tasks, answer, messages, headers, output>>

(* The elements of a sequence at some of its places, in their order. *)
SelectAt(s, places) ==
  LET kept[n \in 0 .. Len(s)] ==
        IF n = 0 THEN <<>>
        ELSE IF n \in places THEN Append(kept[n - 1], s[n]) ELSE kept[n - 1]
  IN  kept[Len(s)]

Lines(kind) == SelectAt(output, {n \in DOMAIN output : output[n].kind = kind})
Line(kind, cells) == [kind |-> kind, cells |-> cells]

-----------------------------------------------------------------------------
(***************************************************************************)
(* Rows.                                                                   *)
(***************************************************************************)
String(s) == [type |-> "String", value |-> s]
Integer(n) == [type |-> "Integer", value |-> n]
Float(n) == [type |-> "Float", value |-> n]
IpAddress(a) == [type |-> "IpAddress", value |-> a]

(* A faulty variant: how far the clocks are apart, whichever is ahead. *)
DistanceOf(receive, transmit) ==
  IF receive < transmit THEN transmit - receive ELSE receive - transmit

(* The difference of two u64, which wraps below zero; the row has it in     *)
(* milliseconds, here it keeps the unit of the clocks.                       *)
Difference(receive, transmit) == (receive + WordSize - transmit) % WordSize

(* A faulty variant: every build checks the subtraction. *)
DifferencePanicsAlways(item) == item.ping /\ item.receive < item.transmit

(* In a debug build it panics instead. *)
DifferencePanics(item) == options.debug /\ item.ping /\ item.receive < item.transmit

(* get_data: a row for each result that is a ping. *)
RowOf(message, item) ==
  [task_id |-> Integer(message.task_id),
   client_id |-> String(message.hostname),
   transmit_time |-> Integer(item.transmit),
   receive_time |-> Integer(item.receive),
   send_receive_time_diff |-> Float(Difference(item.receive, item.transmit)),
   source_address |-> IpAddress(item.source),
   destination_address |-> IpAddress(item.destination),
   meta_source_address |-> IpAddress(item.meta_source),
   meta_destination_address |-> IpAddress(item.meta_destination),
   ttl |-> Integer(item.ttl)]

Pings(message) ==
  SelectAt(message.results, {n \in DOMAIN message.results : message.results[n].ping})

get_data(message) == [k \in 1 .. Len(Pings(message)) |-> RowOf(message, Pings(message)[k])]

get_headers ==
  <<"task_id", "client_id", "transmit_time", "receive_time", "send_receive_time_diff",
    "source_address", "destination_address", "meta_source_address",
    "meta_destination_address", "ttl">>

(* The transformers: each has a column for the source address, from its      *)
(* database.                                                                 *)
IP2Country ==
  [source |-> "source_address", destination |-> "source_address_country",
   known |-> [a \in DOMAIN Countries |-> String(Countries[a])]]
IP2ASN ==
  [source |-> "source_address", destination |-> "source_address_asn",
   known |-> [a \in DOMAIN Asns |-> Integer(Asns[a])]]

Transformers ==
  (IF options.country = "absent" THEN <<>> ELSE <<IP2Country>>)
  \o (IF options.asn = "absent" THEN <<>> ELSE <<IP2ASN>>)

(* insert: of a HashMap. *)
insert(row, column, data) ==
  [c \in DOMAIN row \cup {column} |-> IF c = column THEN data ELSE row[c]]

(* A faulty variant: a row of an unknown address is left as it is. *)
TransformKnown(t, row) ==
  LET data == row[t.source] IN
  IF data.value \in DOMAIN t.known THEN insert(row, t.destination, t.known[data.value]) ELSE row

transform(t, row) ==
  IF t.source \in DOMAIN row /\ row[t.source].type = "IpAddress"
       /\ row[t.source].value \in DOMAIN t.known
  THEN insert(row, t.destination, t.known[row[t.source].value])
  ELSE insert(row, t.destination, String("Unknown"))

add_header(t, columns) == Append(columns, t.destination)

(* Each of the transformers in turn. *)
Enriched(row) ==
  LET after[n \in 0 .. Len(Transformers)] ==
        IF n = 0 THEN row ELSE transform(Transformers[n], after[n - 1])
  IN  after[Len(Transformers)]

AllHeaders ==
  LET after[n \in 0 .. Len(Transformers)] ==
        IF n = 0 THEN get_headers ELSE add_header(Transformers[n], after[n - 1])
  IN  after[Len(Transformers)]

(* A cell for each header, empty if the row has no such column; or the row   *)
(* itself as JSON.                                                           *)
Printed(row) ==
  IF options.json THEN Line("row", row)
  ELSE Line("row", [k \in 1 .. Len(headers) |->
                      IF headers[k] \in DOMAIN row THEN row[headers[k]] ELSE String("")])

LinesOf(message) ==
  LET rows == get_data(message) IN [k \in 1 .. Len(rows) |-> Printed(Enriched(rows[k]))]

-----------------------------------------------------------------------------
(***************************************************************************)
(* The program.                                                            *)
(***************************************************************************)
Options ==
  [subcommand : {"client-list", "start", "none"},
   source : {"address", "not an address"},
   file : {"readable", "unreadable", "with a line that is no address"},
   json : BOOLEAN, country : Files, asn : Files, debug : BOOLEAN]

Init ==
  /\ StartInit
  /\ options \in Options
  /\ stage = "started" /\ tasks = 0 /\ answer = "none"
  /\ messages = <<>> /\ headers = <<>> /\ output = <<>>

Panic == stage' = "panicked"

(* execute has no credentials to give to the channel. *)
CliChannel == "plain"

(* A call may fail although the server can be reached. *)
CallSucceeds == server \in {"plain", "secure"} /\ CliChannel = server

Unimplemented ==
  /\ stage = "started" /\ options.subcommand = "none"
  /\ Panic
  /\ UNCHANGED <<startVars, options, tasks, answer, messages, headers, output>>

print_client_list ==
  /\ stage = "started" /\ options.subcommand = "client-list"
  /\ \/ /\ CallSucceeds
        /\ \E list \in SetToSeqs(Clients) :
             output' = <<Line("title", <<"Index", "Hostname", "Version">>)>>
                       \o [k \in 1 .. Len(list) |->
                             Line("client", <<list[k].index, list[k].hostname, list[k].version>>)]
                       \o <<Line("count", <<Len(list)>>)>>
     \/ output' = <<Line("error", <<"unable to obtain client list">>)>>
  /\ stage' = "ended"
  /\ UNCHANGED <<startVars, options, tasks, answer, messages, headers>>

InputIsGood == options.source = "address" /\ options.file = "readable"

(* The unwraps on the source address, on the file and on each of its lines. *)
ReadInput ==
  /\ stage = "started" /\ options.subcommand = "start"
  /\ IF InputIsGood THEN stage' = "read" ELSE Panic
  /\ UNCHANGED <<startVars, options, tasks, answer, messages, headers, output>>

(* do_task: the server has scheduled a task, or refuses, or the call fails. *)
DoTask ==
  /\ stage = "read"
  /\ \/ CallSucceeds /\ answer' = "scheduled" /\ tasks' = tasks + 1
     \/ CallSucceeds /\ answer' = "refused" /\ UNCHANGED tasks
     \/ answer' = "failed" /\ UNCHANGED tasks
  /\ stage' = "answered"
  /\ UNCHANGED <<startVars, options, messages, headers, output>>

(* A call that failed leaves no error message, and unwrap panics. *)
ErrorMessageMissing == answer = "failed"

ReportFailure ==
  /\ stage = "answered" /\ answer # "scheduled"
  /\ output' = Append(output, Line("error", <<"failed to schedule task">>))
                 \o IF ErrorMessageMissing THEN <<>> ELSE <<Line("error", <<"Message">>)>>
  /\ IF ErrorMessageMissing THEN Panic ELSE stage' = "ended"
  /\ UNCHANGED <<startVars, options, tasks, answer, messages, headers>>

(* The databases are opened, and the headers printed, when the task already  *)
(* runs.                                                                     *)
OpenDatabases ==
  /\ stage = "answered" /\ answer = "scheduled"
  /\ IF "unreadable" \in {options.country, options.asn}
     THEN Panic /\ UNCHANGED <<headers, output>>
     ELSE /\ headers' = AllHeaders
          /\ output' = IF options.json THEN output ELSE Append(output, Line("header", AllHeaders))
          /\ stage' = "opened"
  /\ UNCHANGED <<startVars, options, tasks, answer, messages>>

(* The call can only fail to begin; later errors come on the stream. *)
Subscribe ==
  /\ stage = "opened"
  /\ stage' \in {"subscribed", "panicked"}
  /\ UNCHANGED <<startVars, options, tasks, answer, messages, headers, output>>

TaskResults ==
  [task_id : {TaskId}, hostname : Hostnames, results : BoundedSeq(Items, MaxItems)]

(* A message is turned into rows before the first of them is printed. *)
ReceiveResult ==
  /\ stage = "subscribed"
  /\ Len(messages) < MaxMessages
  /\ \E message \in TaskResults :
       /\ messages' = Append(messages, message)
       /\ IF \E k \in 1 .. Len(message.results) : DifferencePanics(message.results[k])
          THEN Panic /\ UNCHANGED output
          ELSE output' = output \o LinesOf(message) /\ UNCHANGED stage
  /\ UNCHANGED <<startVars, options, tasks, answer, headers>>

(* The stream ends, or fails; the cli then ends. *)
StreamEnds ==
  /\ stage = "subscribed"
  /\ stage' = "ended"
  /\ \/ UNCHANGED output
     \/ output' = Append(output, Line("error", <<"stream failed">>))
  /\ UNCHANGED <<startVars, options, tasks, answer, messages, headers>>

CliNext ==
  \/ Unimplemented \/ print_client_list \/ ReadInput \/ DoTask \/ ReportFailure
  \/ OpenDatabases \/ Subscribe \/ ReceiveResult \/ StreamEnds

StartNext ==
  /\ StartServer \/ StartClient
  /\ UNCHANGED <<options, stage, tasks, answer, messages, headers, output>>

Next == StartNext \/ CliNext

Spec == Init /\ [][Next]_vars

-----------------------------------------------------------------------------
(***************************************************************************)
(* Safety.                                                                 *)
(***************************************************************************)

(* The replies received, each with the message that brought it. *)
RepliesOf(message) ==
  [k \in 1 .. Len(Pings(message)) |-> [message |-> message, item |-> Pings(message)[k]]]

Replies == FlattenSeq([n \in 1 .. Len(messages) |-> RepliesOf(messages[n])])

Columns ==
  {"task_id", "client_id", "transmit_time", "receive_time", "send_receive_time_diff",
   "source_address", "destination_address", "meta_source_address",
   "meta_destination_address", "ttl"}
  \cup (IF options.country = "absent" THEN {} ELSE {"source_address_country"})
  \cup (IF options.asn = "absent" THEN {} ELSE {"source_address_asn"})

(* What a reader finds in row k under the name of a column. *)
Shown(k, column) ==
  LET cells == Lines("row")[k].cells IN
  IF options.json THEN cells[column].value
  ELSE LET header == Lines("header")[1].cells
           place == CHOOSE p \in 1 .. Len(header) : header[p] = column
       IN  cells[place].value

(* Every ping that was received is shown once, in the order in which it      *)
(* came, and nothing else: results of other kinds are passed over.  Each     *)
(* column shows what its name says, in either format and with whichever      *)
(* databases, and there is neither a column without a name nor a name        *)
(* without its column.  The time given for a ping's way leads from its       *)
(* transmission to its arrival, even if the receiver's clock is behind.      *)
EveryReplyIsShown ==
  LET rows == Lines("row") IN
  /\ Len(rows) <= Len(Replies)
  /\ stage \in {"subscribed", "ended"} => Len(rows) = Len(Replies)
  /\ \A k \in 1 .. Len(rows) :
       LET message == Replies[k].message
           item == Replies[k].item
       IN  /\ IF options.json THEN DOMAIN rows[k].cells = Columns
              ELSE /\ Range(Lines("header")[1].cells) = Columns
                   /\ Len(rows[k].cells) = Cardinality(Columns)
           /\ Shown(k, "task_id") = TaskId
           /\ Shown(k, "client_id") = message.hostname
           /\ Shown(k, "transmit_time") = item.transmit
           /\ Shown(k, "receive_time") = item.receive
           /\ Shown(k, "source_address") = item.source
           /\ Shown(k, "destination_address") = item.destination
           /\ Shown(k, "meta_source_address") = item.meta_source
           /\ Shown(k, "meta_destination_address") = item.meta_destination
           /\ Shown(k, "ttl") = item.ttl
           /\ (item.transmit + Shown(k, "send_receive_time_diff")) % WordSize = item.receive
           /\ options.country # "absent" =>
                Shown(k, "source_address_country") =
                  IF item.source \in DOMAIN Countries THEN Countries[item.source] ELSE "Unknown"
           /\ options.asn # "absent" =>
                LET shown == Shown(k, "source_address_asn") IN
                IF item.source \in DOMAIN Asns THEN shown = Asns[item.source]
                ELSE shown = "Unknown"

(* The cli ends in a panic only for one of the reasons the code has: no      *)
(* subcommand, unusable input, a call that failed, an unusable database, a   *)
(* subscription that could not begin, or, in a debug build alone, a receiver *)
(* whose clock is behind.                                                    *)
PanicHasACause ==
  stage = "panicked" =>
    \/ options.subcommand = "none"
    \/ tasks = 0 /\ ~ (options.source = "address" /\ options.file = "readable")
    \/ answer = "failed" /\ output # <<>>
    \/ "unreadable" \in {options.country, options.asn}
    \/ tasks = 1 /\ messages = <<>>
    \/ /\ options.debug
       /\ \E n \in 1 .. Len(messages) : \E k \in 1 .. Len(messages[n].results) :
            LET item == messages[n].results[k] IN
            item.ping /\ item.receive < item.transmit

=============================================================================
