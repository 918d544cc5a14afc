------------------------------- MODULE RxRing -------------------------------
(***************************************************************************)
(* The ring of received frames between the CAN interrupt and the main      *)
(* loop: can_rx_rbuf with push_rbuf, pop_rbuf and the filter of can2040_cb *)
(* (canHandler.c), and the reset of the ring in state SOCK_INIT of         *)
(* process_tcp_client and process_tcp_server (can_to_eth.c).               *)
(*                                                                         *)
(* The interrupt preempts the main loop on its core: Receive is one step,  *)
(* the main loop's functions are split at every access to the ring that    *)
(* is made with the interrupt enabled.                                     *)
(***************************************************************************)
EXTENDS Integers, Sequences

CONSTANTS
  N,            (* DATA_BUF_MAX_SIZE slots, 2048 in canHandler.h           *)
  Ids,          (* identifiers on the bus, each the set of its one bits    *)
  FilterSpec,   (* the configured filter: CAN_SPEC_A or CAN_SPEC_B,        *)
  FilterId,     (* its id ...                                              *)
  FilterMask,   (* ... and the bits of it that count                       *)
  Frames,       (* bound: frames on the bus                                *)
  Connections   (* bound: TCP connections that are opened                  *)

ASSUME RxRingAssumption ==
  /\ N \in Nat /\ N > 1
  /\ \A id \in Ids : id \subseteq 0..28
  /\ FilterSpec \in {"CAN_SPEC_A", "CAN_SPEC_B"}
  /\ FilterId \subseteq 0..28
  /\ FilterMask \subseteq 0..28
  /\ Frames \in Nat
  /\ Connections \in Nat

VARIABLES
  rx_flag, push_idx, pop_idx, msg_buf,    (* can_rx_rbuf                   *)
  can_filter,                             (* can_filter                    *)
  pc,       (* where the main loop is                                      *)
  wiped,    (* how many half slots memset has cleared                      *)
  opened,   (* connections so far                                          *)
  heard,    (* frames so far                                               *)
  out       (* messages popped so far                                      *)

ring == <<rx_flag, push_idx, pop_idx, msg_buf>>
vars == <<rx_flag, push_idx, pop_idx, msg_buf, can_filter, pc, wiped, opened, heard, out>>

(* A message has an id, the flag of a 29-bit id, and data; the data is the *)
(* number of the frame, so that each frame is told from every other.       *)
Messages == [id : SUBSET (0..28), ext : BOOLEAN, data : Nat]
Zero == [id |-> {}, ext |-> FALSE, data |-> 0]
Filters == [spec : {"CAN_SPEC_A", "CAN_SPEC_B"}, id : SUBSET (0..28), mask : SUBSET (0..28)]

(* Mutant: the index wraps around one slot too late.                       *)
Successor_long(i) == IF i < N THEN i + 1 ELSE 0

Successor(i) == IF i < N - 1 THEN i + 1 ELSE 0

Passes(m, f) ==
  /\ m.id \cap f.mask = f.id \cap f.mask
  /\ m.ext = (f.spec = "CAN_SPEC_B")

(* can_rx_rbuf and can_filter are static objects: all bits zero.           *)
Init ==
  /\ rx_flag = FALSE /\ push_idx = 0 /\ pop_idx = 0
  /\ msg_buf = [i \in 0..(N - 1) |-> Zero]
  /\ can_filter = [spec |-> "CAN_SPEC_A", id |-> {}, mask |-> {}]
  /\ pc = "boot" /\ wiped = 0 /\ opened = 0
  /\ heard = 0 /\ out = <<>>

-----------------------------------------------------------------------------
(* The interrupt: can2040_cb with CAN2040_NOTIFY_RX.                       *)

(* Mutant: the slot behind the push index is filled.                       *)
push_rbuf_late(m) ==
  /\ msg_buf' = [msg_buf EXCEPT ![Successor(push_idx)] = m]
  /\ push_idx' = Successor(push_idx)
  /\ UNCHANGED <<rx_flag, pop_idx>>

push_rbuf(m) ==
  /\ msg_buf' = [msg_buf EXCEPT ![push_idx] = m]
  /\ push_idx' = Successor(push_idx)
  /\ UNCHANGED <<rx_flag, pop_idx>>

(* Mutant: frames go to the ring before it was ever reset.                 *)
can2040_cb_ungated(id, ext) ==
  LET m == [id |-> id, ext |-> ext, data |-> heard + 1]
  IN /\ heard < Frames
     /\ heard' = heard + 1
     /\ IF Passes(m, can_filter) THEN push_rbuf(m) ELSE UNCHANGED ring
     /\ UNCHANGED <<can_filter, pc, wiped, opened, out>>

can2040_cb(id, ext) ==
  LET m == [id |-> id, ext |-> ext, data |-> heard + 1]
  IN /\ heard < Frames
     /\ heard' = heard + 1
     /\ IF rx_flag /\ Passes(m, can_filter) THEN push_rbuf(m) ELSE UNCHANGED ring
     /\ UNCHANGED <<can_filter, pc, wiped, opened, out>>

-----------------------------------------------------------------------------
(* The main loop.                                                          *)

(* main calls can_initialize first, which enables the interrupt.           *)
set_can_filter ==
  /\ pc = "boot"
  /\ can_filter' = [spec |-> FilterSpec, id |-> FilterId, mask |-> FilterMask]
  /\ pc' = "closed"
  /\ UNCHANGED <<ring, wiped, opened, heard, out>>

(* SOCK_INIT: listen or connect returned SOCK_OK; the ring is reset.       *)
ResetPushIdx ==
  /\ pc = "closed" /\ opened < Connections
  /\ opened' = opened + 1
  /\ push_idx' = 0
  /\ pc' = "pop_idx"
  /\ UNCHANGED <<rx_flag, pop_idx, msg_buf, can_filter, wiped, heard, out>>

ResetPopIdx ==
  /\ pc = "pop_idx"
  /\ pop_idx' = 0
  /\ wiped' = 0
  /\ pc' = "memset"
  /\ UNCHANGED <<rx_flag, push_idx, msg_buf, can_filter, opened, heard, out>>

(* memset clears the slots in order; an interrupt may come inside a slot.  *)
Memset ==
  /\ pc = "memset" /\ wiped < 2 * N
  /\ msg_buf' = [msg_buf EXCEPT ![wiped \div 2] =
                   IF wiped % 2 = 0 THEN [@ EXCEPT !.id = {}, !.ext = FALSE]
                   ELSE [@ EXCEPT !.data = 0]]
  /\ wiped' = wiped + 1
  /\ UNCHANGED <<rx_flag, push_idx, pop_idx, can_filter, pc, opened, heard, out>>

SetRxFlag ==
  /\ pc = "memset" /\ wiped = 2 * N
  /\ rx_flag' = TRUE
  /\ pc' = "open"
  /\ UNCHANGED <<push_idx, pop_idx, msg_buf, can_filter, wiped, opened, heard, out>>

(* Mutant: the ring is popped without a look at the indices.               *)
PopTest_unchecked ==
  /\ pc = "open"
  /\ pc' = "pop"
  /\ UNCHANGED <<ring, can_filter, wiped, opened, heard, out>>

(* pop_rbuf: the test, with the interrupt enabled; an empty ring is left.  *)
PopTest ==
  /\ pc = "open" /\ pop_idx # push_idx
  /\ pc' = "pop"
  /\ UNCHANGED <<ring, can_filter, wiped, opened, heard, out>>

(* ... and the copy, with the interrupt disabled.                          *)
pop_rbuf ==
  /\ pc = "pop"
  /\ out' = Append(out, msg_buf[pop_idx])
  /\ pop_idx' = Successor(pop_idx)
  /\ pc' = "open"
  /\ UNCHANGED <<rx_flag, push_idx, msg_buf, can_filter, wiped, opened, heard>>

(* SOCK_CLOSE_WAIT or a failed send: rx_flag stays set.                    *)
Disconnect ==
  /\ pc = "open"
  /\ pc' = "closed"
  /\ UNCHANGED <<ring, can_filter, wiped, opened, heard, out>>

Main ==
  \/ set_can_filter
  \/ ResetPushIdx \/ ResetPopIdx \/ Memset \/ SetRxFlag
  \/ PopTest \/ pop_rbuf
  \/ Disconnect

Next == Main \/ \E id \in Ids, ext \in BOOLEAN : can2040_cb(id, ext)

Spec == Init /\ [][Next]_vars
=============================================================================
