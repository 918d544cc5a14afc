----------------------------- MODULE RxRingProps -----------------------------
(***************************************************************************)
(* What the ring of received frames has to guarantee, over RxRing.         *)
(***************************************************************************)
EXTENDS RxRing

(* Every variable has its C type, and both indices stay inside msg_buf     *)
(* whatever interrupt comes in the middle of a reset.                      *)
TypeOK ==
  /\ rx_flag \in BOOLEAN
  /\ push_idx \in 0..(N - 1)
  /\ pop_idx \in 0..(N - 1)
  /\ msg_buf \in [0..(N - 1) -> Messages]
  /\ can_filter \in Filters
  /\ pc \in {"boot", "closed", "pop_idx", "memset", "open", "pop"}
  /\ wiped \in 0..(2 * N)
  /\ opened \in Nat
  /\ heard \in Nat
  /\ out \in Seq(Messages)

(* Messages leave the ring in the order in which their frames came in and  *)
(* none leaves twice: through wrap-around, overrun, and interrupts inside  *)
(* pop_rbuf and inside the reset.  A message that memset cleared (data 0)  *)
(* has no place in the order.                                              *)
DeliveredInOrder ==
  \A i, j \in DOMAIN out :
     i < j /\ out[i].data # 0 /\ out[j].data # 0 => out[i].data < out[j].data

(* Only messages that pass the configured filter are delivered: filter     *)
(* section of the README, "only data with an ID between 0x200 and 0x20F    *)
(* will be received".                                                      *)
Configured == [spec |-> FilterSpec, id |-> FilterId, mask |-> FilterMask]
DeliveredPassFilter == \A i \in DOMAIN out : Passes(out[i], Configured)

(* The same for the first connection: rx_flag keeps the ring closed until  *)
(* the filter is set and the reset is over.                                *)
FirstConnectionPassesFilter == opened <= 1 => DeliveredPassFilter

(* During the first connection the ring implements the abstract queue.     *)
(* Equal indices mean empty, unless the slot there was not popped yet.     *)
LastOut == IF out = <<>> THEN 0 ELSE out[Len(out)].data
Held ==
  IF push_idx > pop_idx THEN push_idx - pop_idx
  ELSE IF push_idx < pop_idx THEN push_idx - pop_idx + N
  ELSE IF msg_buf[pop_idx].data > LastOut THEN N ELSE 0
Slot(i) == IF pop_idx + i - 1 < N THEN pop_idx + i - 1 ELSE pop_idx + i - 1 - N
Contents == [i \in 1..Held |-> msg_buf[Slot(i)]]
Fifo == INSTANCE OverrunFifo WITH
  Message <- [id : Ids, ext : BOOLEAN, data : 1..Frames],
  Capacity <- N, queue <- Contents, taken <- out
RingIsFifo == Fifo!Init /\ [][opened' <= 1 => [Fifo!Next]_(Fifo!vars)]_vars
=============================================================================
