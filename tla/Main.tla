-------------------------------- MODULE Main --------------------------------
(***************************************************************************)
(* The start of the three programs (main.rs): what a command line makes of *)
(* a server (server/mod.rs, Server::new), a client (client/mod.rs,         *)
(* Client::new) and a cli, and which of them can talk to each other.       *)
(***************************************************************************)
EXTENDS Naturals

CONSTANT Port   \* ports that a server may be given: numbers or "not a number"

VARIABLES
  server,         \* "none", "plain", "secure" or "panicked"
  server_args,    \* its arguments
  client,         \* the same for a client
  client_args

startVars == <<server, server_args, client, client_args>>

(* An optional argument that names a file, or an address for the metrics.    *)
Files == {"absent", "readable", "unreadable"}
Addresses == {"absent", "address", "not an address"}

ServerArgs == [certificate : Files, private_key : Files, port : Port, prometheus : Addresses]
ClientArgs == [certificate : Files, prometheus : Addresses]

StartInit ==
  /\ server = "none" /\ server_args \in ServerArgs
  /\ client = "none" /\ client_args \in ClientArgs

-----------------------------------------------------------------------------
(* expect(..) panics on a metrics address that is not one; the cli returns   *)
(* before it is looked at.                                                   *)
PrometheusPanics(args) == args.prometheus = "not an address"

read_file_content_panics(file) == file = "unreadable"

(* A faulty variant: the certificate decides alone. *)
CertificateGiven(args) == args.certificate # "absent"

(* Only if both the certificate and the key are given is either of them read. *)
BothGiven(args) == args.certificate # "absent" /\ args.private_key # "absent"

ServerPanics(args) ==
  \/ PrometheusPanics(args)
  \/ /\ BothGiven(args)
     /\ \/ read_file_content_panics(args.certificate)
        \/ read_file_content_panics(args.private_key)
  \/ args.port = "not a number"

(* create_secure_server or create_insecure_server. *)
ServerChannel(args) == IF BothGiven(args) THEN "secure" ELSE "plain"

(* build().unwrap() panics too, if the port is taken or the certificate is   *)
(* not one.                                                                  *)
StartServer ==
  /\ server = "none"
  /\ server' \in IF ServerPanics(server_args) THEN {"panicked"}
                 ELSE {ServerChannel(server_args), "panicked"}
  /\ UNCHANGED <<server_args, client, client_args>>

ClientPanics(args) ==
  \/ PrometheusPanics(args)
  \/ read_file_content_panics(args.certificate)

ClientChannel(args) == IF args.certificate # "absent" THEN "secure" ELSE "plain"

StartClient ==
  /\ client = "none"
  /\ client' = IF ClientPanics(client_args) THEN "panicked" ELSE ClientChannel(client_args)
  /\ UNCHANGED <<server, server_args, client_args>>

(* A channel works if both ends use TLS, or neither does. *)
ClientConnected == client \in {"plain", "secure"} /\ client = server

-----------------------------------------------------------------------------
(* A client that was given a certificate talks only to a server that was     *)
(* given one, and its key; a server that was given only one of the two runs  *)
(* without TLS, and such a client does not reach it.                         *)
CertificatesAreUsed ==
  ClientConnected =>
    (client_args.certificate = "readable"
       <=> server_args.certificate = "readable" /\ server_args.private_key = "readable")
=============================================================================
