--------------------------- MODULE BoundedChannel ---------------------------
(***************************************************************************)
(* The bounded multi-producer channel of the futures crate (version 0.1.26,*)
(* futures::sync::mpsc::channel), as the server and the client use it.     *)
(*                                                                         *)
(* A channel is a sequence of messages and a queue of parked senders.  A   *)
(* send never waits for room before it enqueues: a sender that is not      *)
(* parked pushes its message and is parked afterwards if the channel now   *)
(* holds more than Buffer messages.  `tx.clone().send(m).wait()` uses a    *)
(* new, unparked sender each time, so it always enqueues and then blocks   *)
(* its thread until the receiver unparks it.  The receiver unparks one     *)
(* sender, the oldest, for each message it takes.                          *)
(***************************************************************************)
EXTENDS Naturals, Sequences

CONSTANT Buffer    \* the argument of channel(..)

(* The channel's content after a send of message m. *)
Enqueue(chan, m) == Append(chan, m)

(* A faulty variant that parks the sender one message too late. *)
ParkTooLate(chan, parked, sender) ==
  IF Len(chan) > Buffer THEN Append(parked, sender) ELSE parked

(* The parked senders after `sender` has enqueued a message on chan. *)
ParkIfFull(chan, parked, sender) ==
  IF Len(chan) + 1 > Buffer THEN Append(parked, sender) ELSE parked

(* A faulty variant: the receiver takes a message and wakes nobody. *)
UnparkNone(parked) == IF parked = <<>> THEN <<>> ELSE parked

(* The parked senders after the receiver has taken one message. *)
UnparkOne(parked) == IF parked = <<>> THEN <<>> ELSE Tail(parked)

IsParked(parked, sender) == \E i \in 1 .. Len(parked) : parked[i] = sender
=============================================================================
