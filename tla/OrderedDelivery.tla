--------------------------- MODULE OrderedDelivery ---------------------------
(***************************************************************************)
(* What the server promises of each of its outgoing streams, the one that  *)
(* carries tasks to a client (connect) and the one that carries results to *)
(* the cli (subscribe_result): the receiver gets the messages that were    *)
(* accepted for it, all of them and in that order, until it goes away; and *)
(* the stream is completed only when nothing is left to deliver.           *)
(***************************************************************************)
EXTENDS Naturals, Sequences

CONSTANTS Receivers, Messages

VARIABLES
  accepted,    \* accepted[r]: the messages accepted for r, oldest first
  delivered,   \* delivered[r]: those r has got
  status       \* status[r]: "open", "complete", or "broken": r has gone away

vars == <<accepted, delivered, status>>

Init ==
  /\ accepted = [r \in Receivers |-> <<>>]
  /\ delivered = [r \in Receivers |-> <<>>]
  /\ status = [r \in Receivers |-> "open"]

Accept(r, m) ==
  /\ status[r] # "complete"
  /\ accepted' = [accepted EXCEPT ![r] = Append(@, m)]
  /\ UNCHANGED <<delivered, status>>

Deliver(r) ==
  /\ status[r] = "open"
  /\ Len(delivered[r]) < Len(accepted[r])
  /\ delivered' =
       [delivered EXCEPT ![r] = Append(@, accepted[r][Len(delivered[r]) + 1])]
  /\ UNCHANGED <<accepted, status>>

Complete(r) ==
  /\ status[r] = "open"
  /\ delivered[r] = accepted[r]
  /\ status' = [status EXCEPT ![r] = "complete"]
  /\ UNCHANGED <<accepted, delivered>>

Break(r) ==
  /\ status[r] = "open"
  /\ status' = [status EXCEPT ![r] = "broken"]
  /\ UNCHANGED <<accepted, delivered>>

Next ==
  \E r \in Receivers :
    \/ \E m \in Messages : Accept(r, m)
    \/ Deliver(r)
    \/ Complete(r)
    \/ Break(r)

Spec == Init /\ [][Next]_vars
=============================================================================
