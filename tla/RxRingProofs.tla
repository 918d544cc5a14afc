---------------------------- MODULE RxRingProofs ----------------------------
(***************************************************************************)
(* Theorems about the ring of received frames, for every number of slots,  *)
(* every filter, and any number of frames and connections.                 *)
(***************************************************************************)
EXTENDS RxRingProps, TLAPS

(* The slots that hold a message, from Base up to push_idx, around the end *)
(* of the array.  Between the two assignments of the reset the old pop_idx *)
(* counts for nothing; inside pop_rbuf equal indices mean a full ring.     *)
Base == IF pc = "pop_idx" THEN 0 ELSE pop_idx

InWindow(i) ==
  \/ Base < push_idx /\ Base <= i /\ i < push_idx
  \/ push_idx < Base /\ (Base <= i \/ i < push_idx)
  \/ push_idx = Base /\ pc = "pop"

Before(i, j) ==
  \/ Base <= i /\ j < Base
  \/ i < j /\ (Base <= i <=> Base <= j)

(* The inductive strengthening of DeliveredInOrder.                        *)
OrderInv ==
  /\ \A i \in 0..(N - 1) : msg_buf[i].data <= heard
  /\ \A k \in DOMAIN out : out[k].data <= heard
  /\ \A i \in 0..(N - 1), k \in DOMAIN out :
        InWindow(i) /\ out[k].data # 0 /\ msg_buf[i].data # 0
          => out[k].data < msg_buf[i].data
  /\ \A i, j \in 0..(N - 1) :
        /\ InWindow(i) /\ InWindow(j) /\ Before(i, j)
        /\ msg_buf[i].data # 0 /\ msg_buf[j].data # 0
        => msg_buf[i].data < msg_buf[j].data
  /\ pc = "pop" => InWindow(pop_idx)
  /\ DeliveredInOrder

(* The inductive strengthening of FirstConnectionPassesFilter.             *)
FilterInv ==
  /\ pc # "boot" => can_filter = Configured
  /\ pc = "boot" => opened = 0
  /\ opened = 0 => pc \in {"boot", "closed"}
  /\ opened <= 1 =>
       /\ rx_flag <=> opened = 1 /\ pc \in {"open", "pop", "closed"}
       /\ ~rx_flag => push_idx = 0 /\ pop_idx = 0
       /\ \A i \in 0..(N - 1) : InWindow(i) => Passes(msg_buf[i], Configured)
       /\ pc = "pop" => InWindow(pop_idx)
       /\ DeliveredPassFilter
-----------------------------------------------------------------------------
(* The next slot is a slot.                                                *)
LEMMA SuccessorInRange ==
  ASSUME NEW i \in 0..(N - 1)
  PROVE  Successor(i) \in 0..(N - 1)
BY RxRingAssumption DEF Successor

(* Type correctness: push_idx and pop_idx are valid indices of msg_buf at  *)
(* every step of the interrupt and of the main loop.                       *)
THEOREM TypeCorrect == Spec => []TypeOK
<1>1. Init => TypeOK
  <2>1. Zero \in Messages
    BY DEF Zero, Messages
  <2>2. Init => can_filter \in Filters
    BY DEF Init, Filters
  <2>3. Init => out \in Seq(Messages)
    BY DEF Init
  <2>4. Init => msg_buf \in [0..(N - 1) -> Messages]
    BY <2>1 DEF Init
  <2>5. 0 \in 0..(N - 1) /\ 0 \in 0..(2 * N) /\ 0 \in Nat
    BY RxRingAssumption
  <2>6. Init => rx_flag \in BOOLEAN
    BY DEF Init
  <2> QED
    BY <2>2, <2>3, <2>4, <2>5, <2>6, Zenon DEF Init, TypeOK
<1>2. TypeOK /\ [Next]_vars => TypeOK'
  <2> SUFFICES ASSUME TypeOK, [Next]_vars PROVE TypeOK'
    OBVIOUS
  <2> USE RxRingAssumption
  <2>1. CASE set_can_filter
    BY <2>1 DEF set_can_filter, TypeOK, ring, Filters
  <2>2. CASE ResetPushIdx
    BY <2>2 DEF ResetPushIdx, TypeOK
  <2>3. CASE ResetPopIdx
    BY <2>3 DEF ResetPopIdx, TypeOK
  <2>4. CASE Memset
    <3>1. wiped' \in 0..(2 * N) /\ wiped \div 2 \in 0..(N - 1)
      BY <2>4 DEF Memset, TypeOK
    <3> DEFINE i == wiped \div 2
               half == IF wiped % 2 = 0 THEN [msg_buf[i] EXCEPT !.id = {}, !.ext = FALSE]
                       ELSE [msg_buf[i] EXCEPT !.data = 0]
    <3>2. msg_buf[i] \in Messages
      BY <3>1 DEF TypeOK
    <3>3. half \in Messages
      <4>1. [msg_buf[i] EXCEPT !.id = {}, !.ext = FALSE] \in Messages
        BY <3>2 DEF Messages
      <4>2. [msg_buf[i] EXCEPT !.data = 0] \in Messages
        BY <3>2 DEF Messages
      <4> QED
        BY <4>1, <4>2
    <3>4. msg_buf' = [msg_buf EXCEPT ![i] = half]
      BY <2>4 DEF Memset
    <3>5. msg_buf' \in [0..(N - 1) -> Messages]
      <4> HIDE DEF half, i
      <4> QED
        BY <3>3, <3>4 DEF TypeOK
    <3> QED
      BY <2>4, <3>1, <3>5 DEF Memset, TypeOK
  <2>5. CASE SetRxFlag
    BY <2>5 DEF SetRxFlag, TypeOK
  <2>6. CASE PopTest
    BY <2>6 DEF PopTest, TypeOK, ring
  <2>7. CASE pop_rbuf
    BY <2>7, SuccessorInRange DEF pop_rbuf, TypeOK
  <2>8. CASE Disconnect
    BY <2>8 DEF Disconnect, TypeOK, ring
  <2>9. CASE \E id \in Ids, ext \in BOOLEAN : can2040_cb(id, ext)
    <3> PICK id \in Ids, ext \in BOOLEAN : can2040_cb(id, ext)
      BY <2>9
    <3> DEFINE m == [id |-> id, ext |-> ext, data |-> heard + 1]
    <3>1. m \in Messages
      BY DEF TypeOK, Messages
    <3>2. CASE push_rbuf(m)
      BY <3>1, <3>2, SuccessorInRange DEF can2040_cb, push_rbuf, TypeOK
    <3>3. CASE UNCHANGED ring
      BY <3>3 DEF can2040_cb, ring, TypeOK
    <3> QED
      BY <3>2, <3>3 DEF can2040_cb
  <2>10. CASE UNCHANGED vars
    BY <2>10 DEF vars, TypeOK
  <2> QED
    BY <2>1, <2>2, <2>3, <2>4, <2>5, <2>6, <2>7, <2>8, <2>9, <2>10 DEF Next, Main
<1> QED
  BY <1>1, <1>2, PTL DEF Spec
-----------------------------------------------------------------------------
(* The interrupt adds at most the slot it wrote to the window, and the     *)
(* slot that pop_rbuf is about to copy stays in it.                        *)
LEMMA PushWindow ==
  ASSUME TypeOK, NEW m, push_rbuf(m), UNCHANGED pc, pc = "pop_idx" => pop_idx' = pop_idx
  PROVE  /\ \A i \in 0..(N - 1) : InWindow(i)' => i = push_idx \/ InWindow(i)
         /\ pc = "pop" /\ InWindow(pop_idx) => InWindow(pop_idx)'
BY RxRingAssumption DEF TypeOK, push_rbuf, InWindow, Base, Successor

(* pop_rbuf takes the slot pop_idx out of the window and adds none.        *)
LEMMA PopWindow ==
  ASSUME TypeOK, pop_rbuf, InWindow(pop_idx)
  PROVE  \A i \in 0..(N - 1) : InWindow(i)' => InWindow(i) /\ i # pop_idx
BY RxRingAssumption DEF TypeOK, pop_rbuf, InWindow, Base, Successor

(* Appending to a sequence keeps what holds of its elements.               *)
LEMMA AppendElements ==
  ASSUME NEW S, NEW s \in Seq(S), NEW e \in S
  PROVE  /\ \A i \in DOMAIN s : Append(s, e)[i] = s[i]
         /\ DOMAIN Append(s, e) = DOMAIN s \cup {Len(s) + 1}
         /\ Append(s, e)[Len(s) + 1] = e
OBVIOUS

(* rx_flag keeps the ring closed until the filter is set and the first     *)
(* reset is over: FilterInv is inductive.                                  *)
LEMMA FilterStep == TypeOK /\ FilterInv /\ [Next]_vars => FilterInv'
<1> SUFFICES ASSUME TypeOK, FilterInv, [Next]_vars PROVE FilterInv'
  OBVIOUS
<1> USE RxRingAssumption
<1>1. CASE set_can_filter
  BY <1>1 DEF set_can_filter, FilterInv, Configured, ring, TypeOK, InWindow, Base,
              DeliveredPassFilter
<1>2. CASE ResetPushIdx
  BY <1>2 DEF ResetPushIdx, FilterInv, TypeOK, InWindow, Base, DeliveredPassFilter, Configured
<1>3. CASE ResetPopIdx
  BY <1>3 DEF ResetPopIdx, FilterInv, TypeOK, InWindow, Base, DeliveredPassFilter, Configured
<1>4. CASE Memset
  BY <1>4 DEF Memset, FilterInv, TypeOK, InWindow, Base, DeliveredPassFilter, Configured
<1>5. CASE SetRxFlag
  BY <1>5 DEF SetRxFlag, FilterInv, TypeOK, InWindow, Base, DeliveredPassFilter, Configured
<1>6. CASE PopTest
  BY <1>6 DEF PopTest, FilterInv, TypeOK, InWindow, Base, DeliveredPassFilter, Configured, ring
<1>7. CASE pop_rbuf
  <2>1. ASSUME opened <= 1 PROVE DeliveredPassFilter'
    <3>1. Passes(msg_buf[pop_idx], Configured) /\ DeliveredPassFilter
      BY <1>7, <2>1 DEF FilterInv, pop_rbuf, TypeOK
    <3>2. msg_buf[pop_idx] \in Messages
      BY DEF TypeOK
    <3> QED
      BY <1>7, <3>1, <3>2, AppendElements DEF pop_rbuf, TypeOK, DeliveredPassFilter, Configured
  <2>2. opened <= 1 => \A i \in 0..(N - 1) : InWindow(i)' => InWindow(i)
    BY <1>7, PopWindow DEF FilterInv, pop_rbuf
  <2> QED
    BY <1>7, <2>1, <2>2 DEF pop_rbuf, FilterInv, TypeOK, Configured
<1>8. CASE Disconnect
  BY <1>8 DEF Disconnect, FilterInv, TypeOK, InWindow, Base, DeliveredPassFilter, Configured, ring
<1>9. CASE \E id \in Ids, ext \in BOOLEAN : can2040_cb(id, ext)
  <2> PICK id \in Ids, ext \in BOOLEAN : can2040_cb(id, ext)
    BY <1>9
  <2> DEFINE m == [id |-> id, ext |-> ext, data |-> heard + 1]
  <2>1. CASE UNCHANGED ring
    BY <2>1 DEF can2040_cb, FilterInv, TypeOK, InWindow, Base, DeliveredPassFilter, Configured, ring
  <2>2. CASE rx_flag /\ Passes(m, can_filter) /\ push_rbuf(m)
    <3>1. opened <= 1 => Passes(m, Configured)
      BY <2>2 DEF FilterInv
    <3>2. \A i \in 0..(N - 1) : i # push_idx => msg_buf'[i] = msg_buf[i]
      BY <2>2 DEF push_rbuf, TypeOK
    <3>3. msg_buf'[push_idx] = m
      BY <2>2 DEF push_rbuf, TypeOK
    <3>4. UNCHANGED <<pc, pop_idx, can_filter, opened, rx_flag, out>>
      BY <2>2 DEF push_rbuf, can2040_cb
    <3>5. /\ \A i \in 0..(N - 1) : InWindow(i)' => i = push_idx \/ InWindow(i)
          /\ pc = "pop" /\ InWindow(pop_idx) => InWindow(pop_idx)'
      BY <2>2, <3>4, PushWindow
    <3>6. opened <= 1 => \A i \in 0..(N - 1) : InWindow(i)' => Passes(msg_buf'[i], Configured)
      BY <3>1, <3>2, <3>3, <3>5 DEF FilterInv
    <3> HIDE DEF m
    <3> QED
      BY <2>2, <3>4, <3>5, <3>6 DEF FilterInv, Configured, DeliveredPassFilter
  <2> QED
    BY <2>1, <2>2 DEF can2040_cb
<1>10. CASE UNCHANGED vars
  BY <1>10 DEF vars, FilterInv, InWindow, Base, DeliveredPassFilter, Configured
<1> QED
  BY <1>1, <1>2, <1>3, <1>4, <1>5, <1>6, <1>7, <1>8, <1>9, <1>10 DEF Next, Main

(* What is delivered in the first connection passes the configured filter. *)
THEOREM FirstConnectionFiltered == Spec => []FirstConnectionPassesFilter
<1>1. Init => FilterInv
  BY RxRingAssumption DEF Init, FilterInv, InWindow, Base, DeliveredPassFilter
<1>2. FilterInv => FirstConnectionPassesFilter
  BY DEF FilterInv, FirstConnectionPassesFilter
<1> QED
  BY <1>1, <1>2, FilterStep, TypeCorrect, PTL DEF Spec
-----------------------------------------------------------------------------
(* The order of the slots after the interrupt wrote one: the slots that    *)
(* stay in the window keep their order, the new one comes last.            *)
LEMMA PushOrder ==
  ASSUME TypeOK, NEW m, push_rbuf(m), UNCHANGED pc,
         NEW i \in 0..(N - 1), NEW j \in 0..(N - 1),
         InWindow(i)', InWindow(j)', Before(i, j)'
  PROVE  Before(i, j) /\ i # push_idx
BY RxRingAssumption DEF TypeOK, push_rbuf, InWindow, Before, Base, Successor

(* The order of the slots after pop_rbuf, and that the slot it took came   *)
(* before every other one.                                                 *)
LEMMA PopOrder ==
  ASSUME TypeOK, pop_rbuf, InWindow(pop_idx)
  PROVE  /\ \A i, j \in 0..(N - 1) :
              InWindow(i)' /\ InWindow(j)' /\ Before(i, j)' => Before(i, j)
         /\ \A i \in 0..(N - 1) : InWindow(i)' => Before(pop_idx, i)
BY RxRingAssumption DEF TypeOK, pop_rbuf, InWindow, Before, Base, Successor

(* OrderInv is inductive.                                                  *)
LEMMA OrderStep == TypeOK /\ OrderInv /\ [Next]_vars => OrderInv'
<1> SUFFICES ASSUME TypeOK, OrderInv, [Next]_vars PROVE OrderInv'
  OBVIOUS
<1> USE RxRingAssumption
<1>1. CASE set_can_filter
  BY <1>1 DEF set_can_filter, OrderInv, ring, TypeOK, InWindow, Before, Base, DeliveredInOrder
<1>2. CASE ResetPushIdx
  BY <1>2 DEF ResetPushIdx, OrderInv, TypeOK, InWindow, Before, Base, DeliveredInOrder
<1>3. CASE ResetPopIdx
  BY <1>3 DEF ResetPopIdx, OrderInv, TypeOK, InWindow, Before, Base, DeliveredInOrder
<1>4. CASE Memset
  <2>1. \A i \in 0..(N - 1) : msg_buf'[i].data \in {0, msg_buf[i].data}
    BY <1>4 DEF Memset, TypeOK, Messages
  <2>2. UNCHANGED <<push_idx, pop_idx, pc, heard, out>>
    BY <1>4 DEF Memset
  <2>3. \A i, j \in 0..(N - 1) : (InWindow(i)' <=> InWindow(i)) /\ (Before(i, j)' <=> Before(i, j))
    BY <2>2 DEF InWindow, Before, Base
  <2>4. pc # "pop"
    BY <1>4 DEF Memset
  <2>5. heard \in Nat /\ \A i \in 0..(N - 1) : msg_buf[i].data \in Nat
    BY DEF TypeOK, Messages
  <2>6. \A i \in 0..(N - 1) : msg_buf'[i].data <= heard
    BY <2>1, <2>5 DEF OrderInv
  <2>7. \A i \in 0..(N - 1) : msg_buf'[i].data # 0 => msg_buf'[i].data = msg_buf[i].data
    BY <2>1
  <2>8. \A i \in 0..(N - 1), k \in DOMAIN out :
           InWindow(i) /\ out[k].data # 0 /\ msg_buf'[i].data # 0
             => out[k].data < msg_buf'[i].data
    BY <2>7 DEF OrderInv
  <2>9. \A i, j \in 0..(N - 1) :
           /\ InWindow(i) /\ InWindow(j) /\ Before(i, j)
           /\ msg_buf'[i].data # 0 /\ msg_buf'[j].data # 0
           => msg_buf'[i].data < msg_buf'[j].data
    BY <2>7 DEF OrderInv
  <2>10. DeliveredInOrder' /\ \A k \in DOMAIN out' : out'[k].data <= heard'
    BY <2>2 DEF OrderInv, DeliveredInOrder
  <2> QED
    BY <2>2, <2>3, <2>4, <2>6, <2>8, <2>9, <2>10 DEF OrderInv
<1>5. CASE SetRxFlag
  BY <1>5 DEF SetRxFlag, OrderInv, TypeOK, InWindow, Before, Base, DeliveredInOrder
<1>6. CASE PopTest
  BY <1>6 DEF PopTest, OrderInv, TypeOK, InWindow, Before, Base, DeliveredInOrder, ring
<1>7. CASE pop_rbuf
  <2> DEFINE e == msg_buf[pop_idx]
  <2>1. e \in Messages /\ InWindow(pop_idx)
    BY <1>7 DEF pop_rbuf, OrderInv, TypeOK
  <2>2. UNCHANGED <<msg_buf, heard>> /\ out' = Append(out, e) /\ pc' = "open"
    BY <1>7 DEF pop_rbuf
  <2>3. /\ \A k \in DOMAIN out : out'[k] = out[k]
        /\ DOMAIN out' = DOMAIN out \cup {Len(out) + 1}
        /\ out'[Len(out) + 1] = e
        /\ DOMAIN out = 1..Len(out) /\ Len(out) \in Nat
    BY <2>1, <2>2, AppendElements DEF TypeOK
  <2>4. \A i \in 0..(N - 1) : InWindow(i)' => InWindow(i) /\ i # pop_idx /\ Before(pop_idx, i)
    BY <1>7, <2>1, PopWindow, PopOrder
  <2>5. \A i, j \in 0..(N - 1) : InWindow(i)' /\ InWindow(j)' /\ Before(i, j)' => Before(i, j)
    BY <1>7, <2>1, PopOrder
  <2>6. pop_idx \in 0..(N - 1) /\ e.data <= heard
    BY DEF TypeOK, OrderInv
  <2>7. \A i \in 0..(N - 1) : InWindow(i)' /\ e.data # 0 /\ msg_buf[i].data # 0 => e.data < msg_buf[i].data
    BY <2>1, <2>4, <2>6 DEF OrderInv
  <2>8. \A k \in DOMAIN out : out[k].data # 0 /\ e.data # 0 => out[k].data < e.data
    BY <2>1, <2>6 DEF OrderInv
  <2> HIDE DEF e
  <2>9. (\A i \in 0..(N - 1) : msg_buf[i].data <= heard)' /\ (\A k \in DOMAIN out : out[k].data <= heard)'
    BY <2>2, <2>3, <2>6 DEF OrderInv
  <2>10. \A i \in 0..(N - 1), k \in DOMAIN out' :
            InWindow(i)' /\ out'[k].data # 0 /\ msg_buf'[i].data # 0
              => out'[k].data < msg_buf'[i].data
    BY <2>2, <2>3, <2>4, <2>7 DEF OrderInv
  <2>11. \A i, j \in 0..(N - 1) :
            /\ InWindow(i)' /\ InWindow(j)' /\ Before(i, j)'
            /\ msg_buf'[i].data # 0 /\ msg_buf'[j].data # 0
            => msg_buf'[i].data < msg_buf'[j].data
    BY <2>2, <2>4, <2>5 DEF OrderInv
  <2>12. DeliveredInOrder'
    BY <2>3, <2>8 DEF OrderInv, DeliveredInOrder
  <2> QED
    BY <2>2, <2>9, <2>10, <2>11, <2>12 DEF OrderInv
<1>8. CASE Disconnect
  BY <1>8 DEF Disconnect, OrderInv, TypeOK, InWindow, Before, Base, DeliveredInOrder, ring
<1>9. CASE \E id \in Ids, ext \in BOOLEAN : can2040_cb(id, ext)
  <2> PICK id \in Ids, ext \in BOOLEAN : can2040_cb(id, ext)
    BY <1>9
  <2> DEFINE m == [id |-> id, ext |-> ext, data |-> heard + 1]
  <2>1. heard' = heard + 1 /\ heard \in Nat /\ UNCHANGED <<out, pc>>
    BY DEF can2040_cb, TypeOK
  <2>2. \A i \in 0..(N - 1) : msg_buf[i].data \in Nat
    BY DEF TypeOK, Messages
  <2>3. \A k \in DOMAIN out : out[k].data \in Nat
    <3>1. \A k \in DOMAIN out : out[k] \in Messages
      BY DEF TypeOK
    <3> QED
      BY <3>1 DEF Messages
  <2>4. CASE UNCHANGED ring
    <3>1. \A i, j \in 0..(N - 1) : (InWindow(i)' <=> InWindow(i)) /\ (Before(i, j)' <=> Before(i, j))
      BY <2>1, <2>4 DEF InWindow, Before, Base, ring
    <3>2. UNCHANGED <<msg_buf, pop_idx>>
      BY <2>4 DEF ring
    <3>3. pop_idx \in 0..(N - 1)
      BY DEF TypeOK
    <3> QED
      BY <2>1, <2>2, <2>3, <3>1, <3>2, <3>3 DEF OrderInv, DeliveredInOrder
  <2>5. CASE push_rbuf(m)
    <3>1. /\ push_idx \in 0..(N - 1) /\ pop_idx' = pop_idx
          /\ msg_buf'[push_idx].data = heard + 1
          /\ \A i \in 0..(N - 1) : i # push_idx => msg_buf'[i] = msg_buf[i]
      BY <2>5 DEF push_rbuf, TypeOK
    <3>2. /\ \A i \in 0..(N - 1) : InWindow(i)' => i = push_idx \/ InWindow(i)
          /\ pc = "pop" /\ InWindow(pop_idx) => InWindow(pop_idx)'
      BY <2>1, <2>5, <3>1, PushWindow
    <3>3. \A i, j \in 0..(N - 1) :
            InWindow(i)' /\ InWindow(j)' /\ Before(i, j)' => Before(i, j) /\ i # push_idx
      BY <2>1, <2>5, PushOrder
    <3> HIDE DEF m
    <3>4. \A i \in 0..(N - 1) : msg_buf'[i].data <= heard'
      BY <2>1, <2>2, <3>1 DEF OrderInv
    <3>5. \A i \in 0..(N - 1), k \in DOMAIN out' :
            InWindow(i)' /\ out'[k].data # 0 /\ msg_buf'[i].data # 0
              => out'[k].data < msg_buf'[i].data
      BY <2>1, <2>3, <3>1, <3>2 DEF OrderInv
    <3>6. \A i, j \in 0..(N - 1) :
            /\ InWindow(i)' /\ InWindow(j)' /\ Before(i, j)'
            /\ msg_buf'[i].data # 0 /\ msg_buf'[j].data # 0
            => msg_buf'[i].data < msg_buf'[j].data
      BY <2>1, <2>2, <3>1, <3>2, <3>3 DEF OrderInv
    <3>7. pc' = "pop" => InWindow(pop_idx)'
      BY <2>1, <3>2 DEF OrderInv
    <3>8. (\A k \in DOMAIN out : out[k].data <= heard)' /\ DeliveredInOrder'
      BY <2>1, <2>3 DEF OrderInv, DeliveredInOrder
    <3> QED
      BY <3>4, <3>5, <3>6, <3>7, <3>8 DEF OrderInv
  <2> QED
    BY <2>4, <2>5 DEF can2040_cb
<1>10. CASE UNCHANGED vars
  BY <1>10 DEF vars, OrderInv, InWindow, Before, Base, DeliveredInOrder
<1> QED
  BY <1>1, <1>2, <1>3, <1>4, <1>5, <1>6, <1>7, <1>8, <1>9, <1>10 DEF Next, Main

(* Frames leave the ring in the order in which they came, none twice, over *)
(* wrap-around, overrun, preempted pops and any number of resets.          *)
THEOREM OrderKept == Spec => []DeliveredInOrder
<1>1. Init => OrderInv
  BY RxRingAssumption DEF Init, OrderInv, InWindow, Base, DeliveredInOrder, Zero
<1>2. OrderInv => DeliveredInOrder
  BY DEF OrderInv
<1> QED
  BY <1>1, <1>2, OrderStep, TypeCorrect, PTL DEF Spec
-----------------------------------------------------------------------------
(* From the slot to be written next, the oldest, to the newest.            *)
Older(i, j) ==
  \/ push_idx <= i /\ j < push_idx
  \/ i < j /\ (push_idx <= i <=> push_idx <= j)

(* What the abstract queue needs beyond OrderInv, during the first         *)
(* connection: the slots are in the order of their frames all around the   *)
(* array, the unused ones first; the slot to be popped is newer than what  *)
(* was popped last, also when the ring is full while pop_rbuf is under     *)
(* way.                                                                    *)
FifoInv ==
  opened <= 1 =>
    /\ \A i, j \in 0..(N - 1) :
         Older(i, j) /\ msg_buf[i].data # 0 => msg_buf[i].data < msg_buf[j].data
    /\ push_idx # pop_idx \/ pc = "pop" => msg_buf[pop_idx].data > LastOut
    /\ ~rx_flag => out = <<>> /\ \A i \in 0..(N - 1) : msg_buf[i].data = 0

Bounded ==
  /\ heard \in Nat /\ LastOut \in 0..heard
  /\ \A i \in 0..(N - 1) : msg_buf[i].data \in 0..heard
  /\ push_idx \in 0..(N - 1) /\ pop_idx \in 0..(N - 1)

(* No slot and nothing popped is newer than the last frame.                *)
LEMMA InBounds == TypeOK /\ OrderInv => Bounded
<1> SUFFICES ASSUME TypeOK, OrderInv PROVE Bounded
  OBVIOUS
<1>1. \A i \in 0..(N - 1) : msg_buf[i].data \in 0..heard
  BY DEF TypeOK, OrderInv, Messages
<1>2. LastOut \in 0..heard
  <2>1. CASE out = <<>>
    BY <2>1 DEF LastOut, TypeOK
  <2>2. CASE out # <<>>
    <3>1. Len(out) \in DOMAIN out /\ out[Len(out)] \in Messages
      BY <2>2 DEF TypeOK
    <3> QED
      BY <2>2, <3>1 DEF LastOut, OrderInv, Messages, TypeOK
  <2> QED
    BY <2>1, <2>2
<1> QED
  BY <1>1, <1>2 DEF Bounded, TypeOK

(* What the interrupt does to the slots.                                   *)
LEMMA PushSlots ==
  ASSUME TypeOK, NEW m, push_rbuf(m)
  PROVE  /\ msg_buf'[push_idx] = m
         /\ \A i \in 0..(N - 1) : i # push_idx => msg_buf'[i] = msg_buf[i]
         /\ push_idx' = Successor(push_idx) /\ UNCHANGED <<rx_flag, pop_idx>>
BY DEF TypeOK, push_rbuf

(* What was popped last after a pop is what it popped.                     *)
LEMMA PopLast ==
  ASSUME TypeOK, pop_rbuf
  PROVE  /\ LastOut' = msg_buf[pop_idx].data
         /\ UNCHANGED <<msg_buf, push_idx, rx_flag, opened>>
         /\ pop_idx' = Successor(pop_idx)
<1>1. msg_buf[pop_idx] \in Messages
  BY DEF TypeOK
<1>2. out' = Append(out, msg_buf[pop_idx]) /\ out \in Seq(Messages)
  BY DEF pop_rbuf, TypeOK
<1>3. out' # <<>> /\ out'[Len(out')] = msg_buf[pop_idx]
  BY <1>1, <1>2
<1> QED
  BY <1>3 DEF LastOut, pop_rbuf

(* FifoInv is inductive.                                                   *)
LEMMA FifoStep == TypeOK /\ OrderInv /\ FilterInv /\ FifoInv /\ [Next]_vars => FifoInv'
<1> SUFFICES ASSUME TypeOK, OrderInv, FilterInv, FifoInv, [Next]_vars, opened' <= 1
             PROVE  FifoInv'
  BY DEF FifoInv
<1> USE RxRingAssumption
<1>0. Bounded
  BY InBounds
<1>1. CASE set_can_filter
  BY <1>1 DEF set_can_filter, FifoInv, ring, Older, LastOut
<1>2. CASE ResetPushIdx
  BY <1>2 DEF ResetPushIdx, FifoInv, FilterInv, Older, LastOut, TypeOK
<1>3. CASE ResetPopIdx
  BY <1>3 DEF ResetPopIdx, FifoInv, FilterInv, Older, LastOut, TypeOK
<1>4. CASE Memset
  <2>1. ~rx_flag /\ opened <= 1 /\ push_idx = pop_idx /\ pc = "memset"
    BY <1>4 DEF Memset, FilterInv
  <2>2. \A i \in 0..(N - 1) : msg_buf'[i].data = 0
    <3>1. \A i \in 0..(N - 1) : msg_buf[i] \in Messages /\ msg_buf[i].data = 0
      BY <2>1 DEF FifoInv, TypeOK
    <3> QED
      BY <1>4, <3>1 DEF Memset, TypeOK, Messages
  <2> QED
    BY <1>4, <2>1, <2>2 DEF Memset, FifoInv
<1>5. CASE SetRxFlag
  BY <1>5 DEF SetRxFlag, FifoInv, FilterInv, Older, LastOut
<1>6. CASE PopTest
  BY <1>6 DEF PopTest, FifoInv, ring, Older, LastOut
<1>7. CASE pop_rbuf
  <2>1. opened <= 1 /\ rx_flag
    BY <1>7 DEF pop_rbuf, FilterInv, TypeOK
  <2>2. /\ LastOut' = msg_buf[pop_idx].data
        /\ UNCHANGED <<msg_buf, push_idx, rx_flag, opened>>
        /\ pop_idx' = Successor(pop_idx)
    BY <1>7, PopLast
  <2>3. msg_buf[pop_idx].data > LastOut /\ pc' = "open"
    BY <1>7, <2>1 DEF pop_rbuf, FifoInv
  <2>4. push_idx' # pop_idx' => msg_buf'[pop_idx'].data > LastOut'
    <3> SUFFICES ASSUME push_idx # Successor(pop_idx)
                 PROVE  msg_buf[Successor(pop_idx)].data > msg_buf[pop_idx].data
      BY <2>2
    <3>1. Older(pop_idx, Successor(pop_idx)) /\ Successor(pop_idx) \in 0..(N - 1)
      BY <1>0 DEF Older, Successor, Bounded
    <3>2. msg_buf[pop_idx].data # 0
      BY <1>0, <2>3 DEF Bounded
    <3> QED
      BY <1>0, <2>1, <3>1, <3>2 DEF FifoInv, Bounded, Successor
  <2> QED
    BY <2>1, <2>2, <2>3, <2>4 DEF FifoInv, Older
<1>8. CASE Disconnect
  BY <1>8 DEF Disconnect, FifoInv, ring, Older, LastOut
<1>9. CASE \E id \in Ids, ext \in BOOLEAN : can2040_cb(id, ext)
  <2> PICK id \in Ids, ext \in BOOLEAN : can2040_cb(id, ext)
    BY <1>9
  <2> DEFINE m == [id |-> id, ext |-> ext, data |-> heard + 1]
  <2>1. UNCHANGED <<pc, opened, out>> /\ LastOut' = LastOut /\ opened <= 1
    BY DEF can2040_cb, LastOut
  <2>2. CASE UNCHANGED ring
    BY <2>1, <2>2 DEF FifoInv, Older, ring
  <2>3. CASE rx_flag /\ push_rbuf(m)
    <3>0. m.data = heard + 1
      OBVIOUS
    <3> HIDE DEF m
    <3>1. /\ msg_buf'[push_idx].data = heard + 1
          /\ \A i \in 0..(N - 1) : i # push_idx => msg_buf'[i] = msg_buf[i]
          /\ push_idx' = Successor(push_idx) /\ UNCHANGED <<rx_flag, pop_idx>>
      <4>1. /\ msg_buf'[push_idx] = m
            /\ \A i \in 0..(N - 1) : i # push_idx => msg_buf'[i] = msg_buf[i]
            /\ push_idx' = Successor(push_idx) /\ UNCHANGED <<rx_flag, pop_idx>>
        BY <2>3, PushSlots
      <4> QED
        BY <3>0, <4>1
    <3>2. ASSUME NEW i \in 0..(N - 1), NEW j \in 0..(N - 1), Older(i, j)', msg_buf'[i].data # 0
          PROVE  msg_buf'[i].data < msg_buf'[j].data
      <4>1. i # push_idx /\ (j = push_idx \/ Older(i, j))
        BY <1>0, <3>1, <3>2 DEF Older, Successor, Bounded
      <4> QED
        BY <1>0, <2>1, <3>1, <3>2, <4>1 DEF FifoInv, Bounded
    <3>3. push_idx' # pop_idx' \/ pc' = "pop" => msg_buf'[pop_idx'].data > LastOut'
      BY <1>0, <2>1, <3>1 DEF FifoInv, Bounded, Successor
    <3> QED
      BY <2>1, <2>3, <3>1, <3>2, <3>3 DEF FifoInv
  <2> QED
    BY <2>2, <2>3 DEF can2040_cb
<1>10. CASE UNCHANGED vars
  BY <1>10 DEF vars, FifoInv, Older, LastOut
<1> QED
  BY <1>1, <1>2, <1>3, <1>4, <1>5, <1>6, <1>7, <1>8, <1>9, <1>10 DEF Next, Main
-----------------------------------------------------------------------------
(* A sequence given by its elements, with one more at its end.             *)
LEMMA AppendIs ==
  ASSUME NEW n \in Nat, NEW F(_), NEW m
  PROVE  Append([i \in 1..n |-> F(i)], m)
           = [i \in 1..(n + 1) |-> IF i <= n THEN [j \in 1..n |-> F(j)][i] ELSE m]
OBVIOUS

(* A frame that is pushed is put into the abstract queue; into a full one, *)
(* it takes the place of all that it held.                                 *)
LEMMA PushPuts ==
  ASSUME TypeOK, Bounded, FifoInv, opened <= 1, NEW m, push_rbuf(m),
         m.data = heard + 1, UNCHANGED out
  PROVE  Contents' = IF Len(Contents) = N THEN <<m>> ELSE Append(Contents, m)
<1> USE RxRingAssumption
<1>1. /\ msg_buf'[push_idx] = m
      /\ \A i \in 0..(N - 1) : i # push_idx => msg_buf'[i] = msg_buf[i]
      /\ push_idx' = Successor(push_idx) /\ UNCHANGED <<rx_flag, pop_idx>>
  BY PushSlots
<1>2. LastOut' = LastOut
  BY DEF LastOut
<1>3. Held \in 0..N /\ Len(Contents) = Held
  BY DEF Held, Contents, Bounded
<1>4. CASE Held = N
  <2>1. push_idx = pop_idx /\ msg_buf[pop_idx].data > LastOut
    BY <1>4 DEF Held, Bounded
  <2>2. Held' = 1 /\ Slot(1)' = push_idx
    <3>1. push_idx' # pop_idx' /\ pop_idx' = push_idx
      BY <1>1, <2>1 DEF Bounded, Successor
    <3>2. Slot(1)' = push_idx
      BY <3>1 DEF Slot, Bounded
    <3>3. Held' = 1
      BY <1>1, <3>1 DEF Held, Bounded, Successor
    <3> QED
      BY <3>2, <3>3
  <2>3. Contents' = [i \in 1..1 |-> m]
    <3>1. Contents' = [i \in 1..Held' |-> msg_buf'[Slot(i)']]
      BY DEF Contents
    <3>2. \A i \in 1..1 : msg_buf'[Slot(i)'] = m
      <4>1. \A i \in 1..1 : i = 1
        OBVIOUS
      <4> QED
        BY <1>1, <2>2, <4>1
    <3> QED
      BY <2>2, <3>1, <3>2
  <2>4. <<m>> = [i \in 1..1 |-> m]
    BY DEF Contents
  <2> QED
    BY <1>3, <1>4, <2>3, <2>4
<1>5. CASE Held # N
  <2>1. Held' = Held + 1
    <3>1. CASE push_idx = pop_idx
      <4>1. Held = 0
        BY <1>5, <3>1 DEF Held, Bounded
      <4>2. push_idx' # pop_idx' /\ pop_idx' = push_idx
        BY <1>1, <3>1 DEF Bounded, Successor
      <4>3. push_idx' = Successor(push_idx) /\ push_idx \in 0..(N - 1)
        BY <1>1 DEF Bounded
      <4>4. CASE push_idx < N - 1
        <5>1. push_idx' = push_idx + 1
          BY <4>3, <4>4 DEF Successor
        <5> QED
          BY <4>1, <4>2, <4>3, <5>1 DEF Held
      <4>5. CASE ~(push_idx < N - 1)
        <5>1. push_idx' = 0 /\ push_idx = N - 1
          BY <4>3, <4>5 DEF Successor
        <5> QED
          BY <4>1, <4>2, <4>3, <5>1 DEF Held
      <4> QED
        BY <4>4, <4>5
    <3>2. CASE push_idx # pop_idx /\ Successor(push_idx) = pop_idx
      <4>1. msg_buf[pop_idx].data > LastOut
        BY <3>2 DEF FifoInv
      <4>2. msg_buf'[pop_idx] = msg_buf[pop_idx]
        BY <1>1, <3>2 DEF Bounded
      <4>3. Held' = N
        BY <1>1, <1>2, <3>2, <4>1, <4>2 DEF Held, Bounded
      <4>4. Held = N - 1
        BY <3>2 DEF Held, Bounded, Successor
      <4> QED
        BY <4>3, <4>4
    <3>3. CASE push_idx # pop_idx /\ Successor(push_idx) # pop_idx
      BY <1>1, <3>3 DEF Held, Bounded, Successor
    <3> QED
      BY <3>1, <3>2, <3>3
  <2>2. \A i \in 1..Held : Slot(i)' = Slot(i) /\ Slot(i) \in 0..(N - 1) /\ Slot(i) # push_idx
    BY <1>1, <1>5 DEF Slot, Held, Bounded
  <2>3. \A i \in 1..(Held + 1) : i = Held + 1 => Slot(i)' = push_idx
    BY <1>1, <1>5 DEF Slot, Held, Bounded
  <2>4. Contents' = [i \in 1..(Held + 1) |-> IF i <= Held THEN Contents[i] ELSE m]
    <3>1. Contents' = [i \in 1..Held' |-> msg_buf'[Slot(i)']]
      BY DEF Contents
    <3>2. \A i \in 1..Held : msg_buf'[Slot(i)'] = Contents[i]
      BY <1>1, <2>2 DEF Contents
    <3>3. \A i \in 1..(Held + 1) : (i <= Held /\ i \in 1..Held) \/ (~(i <= Held) /\ i = Held + 1)
      BY <1>3
    <3>4. ASSUME NEW i \in 1..(Held + 1)
          PROVE  msg_buf'[Slot(i)'] = IF i <= Held THEN Contents[i] ELSE m
      <4>1. CASE i <= Held
        BY <3>2, <3>3, <4>1
      <4>2. CASE ~(i <= Held)
        <5>1. Slot(i)' = push_idx
          BY <2>3, <3>3, <4>2
        <5> QED
          BY <1>1, <4>2, <5>1
      <4> QED
        BY <4>1, <4>2
    <3> QED
      BY <2>1, <3>1, <3>4
  <2>5. Append(Contents, m) = [i \in 1..(Held + 1) |-> IF i <= Held THEN Contents[i] ELSE m]
    BY <1>3, AppendIs DEF Contents
  <2> QED
    BY <1>3, <1>5, <2>4, <2>5
<1> QED
  BY <1>4, <1>5

(* A pop takes the head of the abstract queue.                             *)
LEMMA PopTakes ==
  ASSUME TypeOK, Bounded, FifoInv, opened <= 1, pop_rbuf
  PROVE  Fifo!Take
<1> USE RxRingAssumption
<1>1. /\ LastOut' = msg_buf[pop_idx].data
      /\ UNCHANGED <<msg_buf, push_idx, rx_flag, opened>>
      /\ pop_idx' = Successor(pop_idx)
  BY PopLast
<1>2. msg_buf[pop_idx].data > LastOut
  BY DEF pop_rbuf, FifoInv
<1>3. Held \in 1..N
  BY <1>2 DEF Held, Bounded
<1>4. Held' = Held - 1
  <2>1. CASE push_idx = Successor(pop_idx)
    <3>1. Older(push_idx, pop_idx)
      BY <2>1 DEF Older, Successor, Bounded
    <3>2. msg_buf[push_idx].data # 0 => msg_buf[push_idx].data < msg_buf[pop_idx].data
      BY <3>1 DEF FifoInv, Bounded
    <3>3. /\ msg_buf[push_idx].data \in Nat /\ msg_buf[pop_idx].data \in Nat
          /\ msg_buf[push_idx].data <= msg_buf[pop_idx].data
      BY <3>2 DEF Bounded
    <3>4. push_idx' = pop_idx' /\ push_idx' \in 0..(N - 1)
      BY <1>1, <2>1 DEF Bounded
    <3>5. /\ msg_buf'[pop_idx'].data \in Nat /\ LastOut' \in Nat
          /\ msg_buf'[pop_idx'].data <= LastOut'
      BY <1>1, <2>1, <3>3
    <3>6. Held' = 0
      <4>1. Held' = IF push_idx' > pop_idx' THEN push_idx' - pop_idx'
                    ELSE IF push_idx' < pop_idx' THEN push_idx' - pop_idx' + N
                    ELSE IF msg_buf'[pop_idx'].data > LastOut' THEN N ELSE 0
        BY DEF Held
      <4>2. ~(push_idx' > pop_idx') /\ ~(push_idx' < pop_idx')
        BY <3>4
      <4>3. ~(msg_buf'[pop_idx'].data > LastOut')
        BY <3>5
      <4> QED
        BY <4>1, <4>2, <4>3
    <3>7. Held = 1
      BY <2>1 DEF Held, Bounded, Successor
    <3> QED
      BY <3>6, <3>7
  <2>2. CASE push_idx # Successor(pop_idx) /\ push_idx = pop_idx
    <3>1. Held = N
      BY <1>2, <2>2 DEF Held, Bounded
    <3>2. Held' = N - 1
      BY <1>1, <2>2 DEF Held, Bounded, Successor
    <3> QED
      BY <3>1, <3>2
  <2>3. CASE push_idx # Successor(pop_idx) /\ push_idx # pop_idx
    <3>1. push_idx' = push_idx /\ push_idx \in 0..(N - 1) /\ pop_idx \in 0..(N - 1)
      BY <1>1 DEF Bounded
    <3>2. CASE pop_idx < N - 1
      <4>1. pop_idx' = pop_idx + 1 /\ push_idx # pop_idx + 1
        BY <1>1, <2>3, <3>1, <3>2 DEF Successor
      <4> QED
        BY <2>3, <3>1, <3>2, <4>1 DEF Held
    <3>3. CASE ~(pop_idx < N - 1)
      <4>1. pop_idx' = 0 /\ push_idx # 0 /\ pop_idx = N - 1
        BY <1>1, <2>3, <3>1, <3>3 DEF Successor
      <4> QED
        BY <2>3, <3>1, <4>1 DEF Held
    <3> QED
      BY <3>2, <3>3
  <2> QED
    BY <2>1, <2>2, <2>3
<1>5. \A i \in 1..(Held - 1) : Slot(i)' = Slot(i + 1)
  BY <1>1, <1>3 DEF Slot, Bounded, Successor
<1>6. Contents' = [i \in 1..(Held - 1) |-> Contents[i + 1]]
  <2>1. Contents' = [i \in 1..Held' |-> msg_buf'[Slot(i)']]
    BY DEF Contents
  <2>2. \A i \in 1..(Held - 1) : msg_buf'[Slot(i)'] = Contents[i + 1]
    BY <1>1, <1>3, <1>5 DEF Contents
  <2> QED
    BY <1>4, <2>1, <2>2
<1>7. /\ Len(Contents) = Held /\ Contents # <<>>
      /\ Head(Contents) = msg_buf[pop_idx]
      /\ Tail(Contents) = [i \in 1..(Held - 1) |-> Contents[i + 1]]
  <2>1. Slot(1) = pop_idx
    BY DEF Slot, Bounded
  <2>2. Contents = [i \in 1..Held |-> msg_buf[Slot(i)]]
    BY DEF Contents
  <2> QED
    BY <1>3, <2>1, <2>2
<1> QED
  BY <1>6, <1>7 DEF Fifo!Take, pop_rbuf

(* The queue depends on the ring and on what was popped last.              *)
LEMMA SameContents ==
  ASSUME UNCHANGED <<push_idx, pop_idx, msg_buf, out>>
  PROVE  UNCHANGED Fifo!vars
BY DEF Fifo!vars, Contents, Held, Slot, LastOut

(* A slot that memset clears holds nothing during the first reset.         *)
LEMMA MemsetKeeps ==
  ASSUME TypeOK, Bounded, FilterInv, FifoInv, Memset, opened <= 1
  PROVE  UNCHANGED Fifo!vars
<1> USE RxRingAssumption
<1>1. ~rx_flag /\ push_idx = pop_idx /\ out = <<>> /\ LastOut = 0
  BY DEF Memset, FilterInv, FifoInv, LastOut
<1>2. \A i \in 0..(N - 1) : msg_buf[i] \in Messages /\ msg_buf[i].data = 0
  BY <1>1 DEF FifoInv, TypeOK
<1>3. \A i \in 0..(N - 1) : msg_buf'[i].data = 0
  BY <1>2 DEF Memset, TypeOK, Messages
<1>4. UNCHANGED <<push_idx, pop_idx, out>> /\ LastOut' = LastOut
  BY DEF Memset, LastOut
<1>5. Held = 0 /\ Held' = 0
  BY <1>1, <1>2, <1>3, <1>4 DEF Held, Bounded
<1>6. Contents = [i \in 1..Held |-> msg_buf[Slot(i)]] /\ Contents' = [i \in 1..Held' |-> msg_buf'[Slot(i)']]
  BY DEF Contents
<1>7. Contents = <<>> /\ Contents' = <<>>
  BY <1>5, <1>6
<1> QED
  BY <1>4, <1>7 DEF Fifo!vars

(* Until a second connection is opened, every step of the interrupt and of *)
(* the main loop is a step of the abstract queue or leaves it alone.       *)
LEMMA FifoSimulation ==
  TypeOK /\ OrderInv /\ FilterInv /\ FifoInv /\ [Next]_vars
    => (opened' <= 1 => [Fifo!Next]_(Fifo!vars))
<1> SUFFICES ASSUME TypeOK, OrderInv, FilterInv, FifoInv, [Next]_vars, opened' <= 1
             PROVE  [Fifo!Next]_(Fifo!vars)
  OBVIOUS
<1> USE RxRingAssumption
<1>0. Bounded
  BY InBounds
<1>1. CASE set_can_filter
  BY <1>1, SameContents DEF set_can_filter, ring
<1>2. CASE ResetPushIdx
  <2>1. push_idx = 0
    BY <1>2 DEF ResetPushIdx, FilterInv, TypeOK
  <2> QED
    BY <1>2, <2>1, SameContents DEF ResetPushIdx
<1>3. CASE ResetPopIdx
  <2>1. pop_idx = 0
    BY <1>3 DEF ResetPopIdx, FilterInv
  <2> QED
    BY <1>3, <2>1, SameContents DEF ResetPopIdx
<1>4. CASE Memset
  <2>1. opened <= 1
    BY <1>4 DEF Memset
  <2> QED
    BY <1>0, <1>4, <2>1, MemsetKeeps
<1>5. CASE SetRxFlag
  BY <1>5, SameContents DEF SetRxFlag
<1>6. CASE PopTest
  BY <1>6, SameContents DEF PopTest, ring
<1>7. CASE pop_rbuf
  <2>1. opened <= 1
    BY <1>7 DEF pop_rbuf
  <2> QED
    BY <1>0, <1>7, <2>1, PopTakes DEF Fifo!Next
<1>8. CASE Disconnect
  BY <1>8, SameContents DEF Disconnect, ring
<1>9. CASE \E id \in Ids, ext \in BOOLEAN : can2040_cb(id, ext)
  <2> PICK id \in Ids, ext \in BOOLEAN : can2040_cb(id, ext)
    BY <1>9
  <2> DEFINE m == [id |-> id, ext |-> ext, data |-> heard + 1]
             Message == [id : Ids, ext : BOOLEAN, data : 1..Frames]
  <2>1. UNCHANGED <<opened, out>> /\ opened <= 1
    BY DEF can2040_cb
  <2>2. CASE UNCHANGED ring
    BY <2>1, <2>2, SameContents DEF ring
  <2>3. CASE push_rbuf(m)
    <3>1. heard + 1 \in 1..Frames
      BY <1>0 DEF can2040_cb, Bounded
    <3>2. m \in Message /\ m.data = heard + 1
      BY <3>1
    <3> HIDE DEF m
    <3>3. Contents' = IF Len(Contents) = N THEN <<m>> ELSE Append(Contents, m)
      BY <1>0, <2>1, <2>3, <3>2, PushPuts
    <3>4. Fifo!Put(m)
      BY <2>1, <3>3 DEF Fifo!Put
    <3> QED
      BY <3>2, <3>4 DEF Fifo!Next
  <2> QED
    BY <2>2, <2>3 DEF can2040_cb
<1>10. CASE UNCHANGED vars
  BY <1>10, SameContents DEF vars
<1> QED
  BY <1>1, <1>2, <1>3, <1>4, <1>5, <1>6, <1>7, <1>8, <1>9, <1>10 DEF Next, Main

(* During the first connection the ring implements the abstract queue:     *)
(* whatever interrupt preempts whatever pop, a frame is put at the end of  *)
(* the queue or, into a full one, takes the place of all that it holds.    *)
THEOREM RingImplementsFifo == Spec => RingIsFifo
<1>1. Init => OrderInv
  BY RxRingAssumption DEF Init, OrderInv, InWindow, Base, DeliveredInOrder, Zero
<1>2. Init => FilterInv
  BY RxRingAssumption DEF Init, FilterInv, InWindow, Base, DeliveredPassFilter
<1>3. Init => FifoInv
  BY RxRingAssumption DEF Init, FifoInv, Zero
<1>4. Init => Fifo!Init
  <2> SUFFICES ASSUME Init PROVE Contents = <<>> /\ out = <<>>
    BY DEF Fifo!Init
  <2>1. push_idx = 0 /\ pop_idx = 0 /\ msg_buf[0].data = 0 /\ out = <<>> /\ LastOut = 0
    BY RxRingAssumption DEF Init, Zero, LastOut
  <2>2. Held = 0
    BY <2>1 DEF Held
  <2>3. Contents = [i \in 1..Held |-> msg_buf[Slot(i)]]
    BY DEF Contents
  <2> QED
    BY <2>1, <2>2, <2>3
<1> QED
  BY <1>1, <1>2, <1>3, <1>4, OrderStep, FilterStep, FifoStep, FifoSimulation, TypeCorrect, PTL
     DEF Spec, RingIsFifo
=============================================================================
