--------------------------- MODULE MCTaskDispatch ---------------------------
(* The instances of TaskDispatch that TLC checks. *)
EXTENDS TaskDispatch

(* Each call has a completion queue of its own; or all share one. *)
OwnQueues == [x \in Streams \cup Calls |-> x]
OneQueue == [x \in Streams \cup Calls |-> Timer]

Symmetry == Permutations(Streams) \cup Permutations(Calls) \cup Permutations(Hostnames)
=============================================================================
