------------------------------- MODULE TxFifo -------------------------------
(***************************************************************************)
(* What can2040_transmit promises its caller: a bounded first-in first-out *)
(* queue.  An accepted message is kept until it has been confirmed, and    *)
(* messages are confirmed in the order in which they were accepted.        *)
(***************************************************************************)
EXTENDS Naturals, Sequences

CONSTANTS
  Msg,        (* the messages                                              *)
  Capacity,   (* the length of the queue                                   *)
  None        (* no message is being handed over                           *)

VARIABLES
  offer,      (* the message a call that found room is handing over        *)
  queue,      (* accepted and not yet confirmed                            *)
  confirmed   (* confirmed so far, in order                                *)

vars == <<offer, queue, confirmed>>

Init == offer = None /\ queue = <<>> /\ confirmed = <<>>

Offer(m) ==
  /\ offer = None /\ Len(queue) < Capacity
  /\ offer' = m
  /\ UNCHANGED <<queue, confirmed>>

Accept ==
  /\ offer # None
  /\ queue' = Append(queue, offer)
  /\ offer' = None
  /\ UNCHANGED confirmed

Confirm ==
  /\ queue # <<>>
  /\ queue' = Tail(queue)
  /\ confirmed' = Append(confirmed, Head(queue))
  /\ UNCHANGED offer

Next == (\E m \in Msg : Offer(m)) \/ Accept \/ Confirm

Spec == Init /\ [][Next]_vars
=============================================================================
