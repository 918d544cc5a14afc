----------------------------- MODULE OverrunFifo -----------------------------
(***************************************************************************)
(* What the ring of received frames promises: a first-in first-out queue   *)
(* that, when a message comes while all its slots are taken, forgets the   *)
(* messages it holds and goes on with the new one.                         *)
(***************************************************************************)
EXTENDS Naturals, Sequences

CONSTANTS
  Message,    (* the messages                                              *)
  Capacity    (* the slots                                                 *)

VARIABLES
  queue,      (* held                                                      *)
  taken       (* taken out so far, in order                                *)

vars == <<queue, taken>>

Init == queue = <<>> /\ taken = <<>>

Put(m) ==
  /\ queue' = IF Len(queue) = Capacity THEN <<m>> ELSE Append(queue, m)
  /\ UNCHANGED taken

Take ==
  /\ queue # <<>>
  /\ taken' = Append(taken, Head(queue))
  /\ queue' = Tail(queue)

Next == (\E m \in Message : Put(m)) \/ Take

Spec == Init /\ [][Next]_vars
=============================================================================
