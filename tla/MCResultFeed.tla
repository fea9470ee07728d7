---------------------------- MODULE MCResultFeed ----------------------------
(* The instances of ResultFeed that TLC checks. *)
EXTENDS ResultFeed

(* Each call has a completion queue of its own. *)
OwnQueues == [x \in Feeds \cup Reports \cup Tasks |-> x]

Symmetry == Permutations(Feeds) \cup Permutations(Reports) \cup Permutations(Tasks)
=============================================================================
