---------------------------- MODULE MCMeasurement ----------------------------
(***************************************************************************)
(* The instance of Measurement that TLC checks: one cli, two clients and   *)
(* at most MaxFaults failures (of a program, a task or a call; failing     *)
(* calls of send_result are not counted), or several cli programs, one     *)
(* client and no failure but those of send_result.                         *)
(***************************************************************************)
EXTENDS Measurement

CONSTANT MaxFaults

Faults ==
  Cardinality({k \in Clis : cli[k] \in {"refused", "panicked", "cut", "gone"}})
    + Cardinality({k \in Clis : task[k] = "failed" /\ unpinged[k] = {}})
    + Cardinality({c \in Clients : ~ alive[c]})
    + (IF poisoned THEN 1 ELSE 0)

Small ==
  /\ Faults <= MaxFaults
  /\ \/ Cardinality({c \in Clients : alive[c]}) <= 1
     \/ Cardinality({k \in Clis : cli[k] # "idle"}) <= 1

MCInit == Init /\ Small /\ alive[Pinger]
MCNext == Next /\ Small'
MCSpec == MCInit /\ [][MCNext]_vars /\ Fairness
=============================================================================
