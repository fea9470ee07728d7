-------------------------------- MODULE MCCli --------------------------------
(* The instance of Cli that TLC checks: every command line of the cli with   *)
(* one server and one client, and every command line of these two with one   *)
(* cli.                                                                      *)
EXTENDS Cli

MCClients == {[index |-> 0, hostname |-> "h1", version |-> "v1"],
              [index |-> 3, hostname |-> "h2", version |-> "v1"]}

Ping(source, receive, transmit) ==
  [ping |-> TRUE, source |-> source, destination |-> 9, receive |-> receive,
   transmit |-> transmit, meta_source |-> 8, meta_destination |-> 7, ttl |-> 60]

(* Two pings, each from an address that one database knows and the other does *)
(* not, the second with a receiver whose clock is behind; and another result. *)
MCItems == {Ping(1, 70, 50), Ping(2, 40, 50), [ping |-> FALSE]}
MCCountries == [a \in {2} |-> "NL"]
MCAsns == [a \in {1} |-> 1133]

PlainServer == [certificate |-> "absent", private_key |-> "absent",
                port |-> "50001", prometheus |-> "absent"]
PlainClient == [certificate |-> "absent", prometheus |-> "absent"]

OneCommand ==
  \/ server_args = PlainServer /\ client_args = PlainClient
  \/ /\ options.source = "address" /\ options.file = "readable" /\ ~ options.json
     /\ options.country = "absent" /\ options.asn = "absent" /\ ~ options.debug

MCInit == Init /\ OneCommand
MCSpec == MCInit /\ [][Next]_vars
=============================================================================
