---------------------------- MODULE CanToEthProofs ----------------------------
(***************************************************************************)
(* Theorems about the bridge, for every number of slots, every filter, any *)
(* number of frames and connections, and whatever the peer sends.          *)
(***************************************************************************)
EXTENDS CanToEthProps, FiniteSetTheorems, TLAPS

(* The theorems about the ring.                                            *)
R == INSTANCE RxRingProofs

(* A message that was not yet on the bus when the ring was last reset, or  *)
(* that was cleared.                                                       *)
Fresh(m) == m.data = 0 \/ m.data > mark

(* The inductive strengthening of FramesOfThisConnection: memset leaves    *)
(* only fresh messages behind it, and so does the interrupt.               *)
FreshInv ==
  /\ mark \in Nat /\ mark <= heard
  /\ pc = "memset" => \A i \in 0..(N - 1) : 2 * i + 1 < wiped => Fresh(msg_buf[i])
  /\ pc \in {"open", "pop"} => \A i \in 0..(N - 1) : Fresh(msg_buf[i])
  /\ at = "send" => pc \in {"pop", "open"}
  /\ at = "send" /\ pc = "open" => out # <<>> /\ Fresh(out[Len(out)])
  /\ got \in Seq(R!Messages)
  /\ \A k \in DOMAIN got : Fresh(got[k])
-----------------------------------------------------------------------------
(* Every step of the bridge is one of the ring, or leaves the ring alone.  *)
LEMMA StepOfRing == Next => Ring!Next \/ UNCHANGED Ring!vars
<1> SUFFICES ASSUME Next PROVE Ring!Next \/ UNCHANGED Ring!vars
  OBVIOUS
<1> USE DEF Ring!Next, Ring!Main, Ring!vars, RV
<1>1. CASE Recv
  BY <1>1 DEF Recv
<1>2. CASE Loop
  <2>1. CASE Start
    BY <2>1 DEF Start
  <2>2. CASE SocketClosed
    BY <2>2 DEF SocketClosed
  <2>3. CASE SocketInit
    BY <2>3 DEF SocketInit
  <2>4. CASE SocketInitFails
    BY <2>4 DEF SocketInitFails
  <2>5. CASE Reset
    BY <2>5 DEF Reset
  <2>6. CASE SocketCloseWait
    BY <2>6 DEF SocketCloseWait
  <2>7. CASE Answer
    BY <2>7 DEF Answer, SendReturns, SendFails
  <2>8. CASE PopTest
    BY <2>8 DEF PopTest
  <2>9. CASE PopEmpty
    BY <2>9 DEF PopEmpty
  <2>10. CASE Pop
    BY <2>10 DEF Pop
  <2>11. CASE SendFrame
    BY <2>11 DEF SendFrame, SendReturns, SendFails
  <2> QED
    BY <1>2, <2>1, <2>2, <2>3, <2>4, <2>5, <2>6, <2>7, <2>8, <2>9, <2>10, <2>11 DEF Loop
<1>3. CASE Outside
  BY <1>3 DEF Outside, PeerConnect, PeerClose, PeerReset, Interrupt, PeerSend
<1> QED
  BY <1>1, <1>2, <1>3 DEF Next

(* The bridge is composed of the steps of RxRing, so that all that is      *)
(* proved about the ring holds in the bridge.                              *)
LEMMA UsesRing == Spec => Ring!Spec
<1>1. Init => Ring!Init
  BY DEF Init
<1>2. [Next]_vars => [Ring!Next]_Ring!vars
  <2>1. UNCHANGED vars => UNCHANGED Ring!vars
    BY DEF vars, RV, Ring!vars
  <2> QED
    BY <2>1, StepOfRing
<1> QED
  BY <1>1, <1>2, PTL DEF Spec, Ring!Spec

(* The ring of the theorems is the ring of the bridge.                     *)
LEMMA SameRing == Ring!Spec => R!Spec
<1>1. Ring!Init => R!Init
  BY DEF Ring!Init, R!Init, Ring!Zero, R!Zero
<1>2. [Ring!Next]_Ring!vars => [R!Next]_R!vars
  BY DEF Ring!Next, R!Next, Ring!vars, R!vars, Ring!Main, R!Main,
     Ring!set_can_filter, R!set_can_filter, Ring!ResetPushIdx, R!ResetPushIdx,
     Ring!ResetPopIdx, R!ResetPopIdx, Ring!Memset, R!Memset, Ring!SetRxFlag, R!SetRxFlag,
     Ring!PopTest, R!PopTest, Ring!pop_rbuf, R!pop_rbuf, Ring!Disconnect, R!Disconnect,
     Ring!can2040_cb, R!can2040_cb, Ring!push_rbuf, R!push_rbuf, Ring!ring, R!ring,
     Ring!Passes, R!Passes, Ring!Successor, R!Successor
<1> QED
  BY <1>1, <1>2, PTL DEF Ring!Spec, R!Spec

(* Frames leave the ring for the peers in the order in which they came,    *)
(* none twice, through every connection.                                   *)
THEOREM OrderInBridge == Spec => []R!DeliveredInOrder
<1>1. R!RxRingAssumption
  BY CanToEthAssumption DEF Ring!RxRingAssumption, R!RxRingAssumption
<1>2. R!Spec => []R!DeliveredInOrder
  BY <1>1, R!OrderKept
<1> QED
  BY <1>2, UsesRing, SameRing, PTL

-----------------------------------------------------------------------------
(* The types of the ring hold in the bridge.                               *)
LEMMA RingTyped == Spec => []R!TypeOK
<1>1. R!RxRingAssumption
  BY CanToEthAssumption DEF Ring!RxRingAssumption, R!RxRingAssumption
<1>2. R!Spec => []R!TypeOK
  BY <1>1, R!TypeCorrect
<1> QED
  BY <1>2, UsesRing, SameRing, PTL

(* Steps that leave the ring and what was sent alone keep the invariant.   *)
LEMMA FreshKept ==
  ASSUME FreshInv, UNCHANGED <<RV, history>>, at' # "send" \/ at' = at
  PROVE  FreshInv'
BY DEF FreshInv, Fresh, RV, history

(* The interrupt writes a fresh message.                                   *)
LEMMA FreshInterrupt ==
  ASSUME R!TypeOK, FreshInv, Interrupt
  PROVE  FreshInv'
<1> PICK id \in Ids, ext \in BOOLEAN : Ring!can2040_cb(id, ext)
  BY DEF Interrupt
<1> DEFINE m == [id |-> id, ext |-> ext, data |-> heard + 1]
<1>1. /\ heard \in Nat /\ heard' = heard + 1 /\ UNCHANGED <<pc, wiped, out, at, mark, got>>
      /\ push_idx \in 0..(N - 1) /\ msg_buf \in [0..(N - 1) -> R!Messages]
  BY DEF Ring!can2040_cb, Interrupt, history, R!TypeOK
<1>2. msg_buf' = msg_buf \/ msg_buf' = [msg_buf EXCEPT ![push_idx] = m]
  BY DEF Ring!can2040_cb, Ring!push_rbuf, Ring!ring
<1>3. mark \in Nat /\ mark <= heard /\ m.data = heard + 1
  BY DEF FreshInv
<1> HIDE DEF m
<1>4. \A i \in 0..(N - 1) : msg_buf'[i] = msg_buf[i] \/ msg_buf'[i] = m
  BY <1>1, <1>2
<1>5. \A i \in 0..(N - 1) : Fresh(msg_buf[i]) => Fresh(msg_buf[i])'
  BY <1>1, <1>3, <1>4 DEF Fresh
<1> QED
  BY <1>1, <1>3, <1>5 DEF FreshInv, Fresh

(* The reset begins with a new mark and ends with every slot fresh.        *)
LEMMA FreshReset ==
  ASSUME R!TypeOK, FreshInv, SocketInit \/ Reset
  PROVE  FreshInv'
<1>1. CASE SocketInit
  BY <1>1 DEF SocketInit, Ring!ResetPushIdx, FreshInv, Fresh, R!TypeOK
<1>2. CASE Ring!ResetPopIdx /\ Reset
  BY <1>2 DEF Reset, Ring!ResetPopIdx, FreshInv, Fresh, R!TypeOK
<1>3. CASE Ring!Memset /\ Reset
  <2> DEFINE slot == wiped \div 2
             half == IF wiped % 2 = 0 THEN [msg_buf[slot] EXCEPT !.id = {}, !.ext = FALSE]
                     ELSE [msg_buf[slot] EXCEPT !.data = 0]
  <2>1. /\ wiped \in Nat /\ wiped < 2 * N /\ N \in Nat /\ wiped' = wiped + 1
        /\ slot \in 0..(N - 1)
    <3>1. wiped \in Nat /\ wiped < 2 * N /\ N \in Nat /\ wiped' = wiped + 1
      BY <1>3, CanToEthAssumption DEF Ring!Memset, R!TypeOK, Ring!RxRingAssumption
    <3> QED
      BY <3>1
  <2>2. msg_buf \in [0..(N - 1) -> R!Messages] /\ msg_buf' = [msg_buf EXCEPT ![slot] = half]
    BY <1>3 DEF Ring!Memset, R!TypeOK
  <2>3. half.data = IF wiped % 2 = 0 THEN msg_buf[slot].data ELSE 0
    BY <2>1, <2>2 DEF R!Messages
  <2>4. /\ pc = "memset" /\ pc' = "memset"
        /\ UNCHANGED <<heard, out, at, mark, got>>
    BY <1>3 DEF Ring!Memset, Reset
  <2> HIDE DEF half, slot
  <2>5. \A i \in 0..(N - 1) : i # slot => msg_buf'[i] = msg_buf[i]
    BY <2>2
  <2>6. msg_buf'[slot] = half
    BY <2>1, <2>2
  <2>7. \A i \in 0..(N - 1) : 2 * i + 1 < wiped' => Fresh(msg_buf[i])'
    <3> SUFFICES ASSUME NEW i \in 0..(N - 1), 2 * i + 1 < wiped' PROVE Fresh(msg_buf[i])'
      OBVIOUS
    <3>1. CASE wiped = 2 * i + 1
      <4>1. wiped % 2 # 0
        BY <2>1, <3>1
      <4>2. i = slot
        BY <2>1, <3>1 DEF slot
      <4> QED
        BY <2>3, <2>6, <4>1, <4>2 DEF Fresh
    <3>2. CASE 2 * i + 1 < wiped
      <4>1. Fresh(msg_buf[i])
        BY <2>4, <3>2 DEF FreshInv
      <4>2. CASE i = slot
        <5>1. wiped % 2 = 0 => msg_buf'[i].data = msg_buf[i].data
          BY <2>3, <2>6, <4>2
        <5>2. wiped % 2 # 0 => msg_buf'[i].data = 0
          BY <2>3, <2>6, <4>2
        <5> QED
          BY <2>4, <4>1, <5>1, <5>2 DEF Fresh
      <4>3. CASE i # slot
        BY <2>4, <2>5, <4>1, <4>3 DEF Fresh
      <4> QED
        BY <4>2, <4>3
    <3> QED
      BY <2>1, <3>1, <3>2
  <2> QED
    BY <2>4, <2>7 DEF FreshInv, Fresh
<1>4. CASE Ring!SetRxFlag /\ Reset
  <2>1. \A i \in 0..(N - 1) : 2 * i + 1 < wiped
    BY <1>4, CanToEthAssumption DEF Ring!SetRxFlag, Ring!RxRingAssumption
  <2> QED
    BY <1>4, <2>1 DEF Reset, Ring!SetRxFlag, FreshInv, Fresh
<1> QED
  BY <1>1, <1>2, <1>3, <1>4 DEF Reset

(* The ring is left: nothing is about to be sent.                          *)
LEMMA FreshDisconnect ==
  ASSUME FreshInv, Ring!Disconnect, UNCHANGED history, at' = "loop"
  PROVE  FreshInv'
BY DEF Ring!Disconnect, FreshInv, Fresh, history

(* What pop_rbuf copies is fresh, and so is what is sent.                  *)
LEMMA FreshPop ==
  ASSUME R!TypeOK, FreshInv, PopTest \/ Pop \/ SendFrame
  PROVE  FreshInv'
<1>1. CASE PopTest
  BY <1>1 DEF PopTest, Ring!PopTest, Ring!ring, FreshInv, Fresh, history
<1>2. CASE Pop
  <2>1. /\ out \in Seq(R!Messages) /\ pop_idx \in 0..(N - 1) /\ msg_buf[pop_idx] \in R!Messages
        /\ out' = Append(out, msg_buf[pop_idx]) /\ pc = "pop" /\ pc' = "open"
        /\ UNCHANGED <<msg_buf, heard, at, mark, got>>
    BY <1>2 DEF Pop, Ring!pop_rbuf, R!TypeOK, history
  <2>2. out' # <<>> /\ out'[Len(out')] = msg_buf[pop_idx]
    BY <2>1
  <2>3. Fresh(msg_buf[pop_idx])
    BY <2>1 DEF FreshInv
  <2> QED
    BY <2>1, <2>2, <2>3 DEF FreshInv, Fresh
<1>3. CASE SendFrame
  <2>1. CASE SendReturns
    <3>1. /\ at' = "loop" /\ UNCHANGED <<pc, wiped, heard, msg_buf, out, mark>>
          /\ out # <<>> /\ Fresh(out[Len(out)])
      BY <1>3, <2>1 DEF SendFrame, SendReturns, RV, FreshInv
    <3>2. out[Len(out)] \in R!Messages
      <4>1. out \in Seq(R!Messages)
        BY DEF R!TypeOK
      <4> QED
        BY <3>1, <4>1
    <3>3. CASE got' = got
      BY <3>1, <3>3 DEF FreshInv, Fresh
    <3>4. CASE got' = Append(got, out[Len(out)])
      <4> DEFINE m == out[Len(out)]
      <4>1. got \in Seq(R!Messages) /\ m \in R!Messages /\ Fresh(m)
        BY <3>1, <3>2 DEF FreshInv
      <4> HIDE DEF m
      <4>2. got' = Append(got, m)
        BY <3>4 DEF m
      <4>3. got' \in Seq(R!Messages)
        BY <4>1, <4>2
      <4>4. \A k \in DOMAIN got' : got'[k] = m \/ (k \in DOMAIN got /\ got'[k] = got[k])
        BY <4>1, <4>2
      <4>5. \A k \in DOMAIN got' : Fresh(got'[k])
        BY <4>1, <4>4 DEF FreshInv
      <4> QED
        BY <3>1, <4>3, <4>5 DEF FreshInv, Fresh
    <3> QED
      BY <1>3, <2>1, <3>3, <3>4, Zenon DEF SendFrame, SendReturns, SendFails
  <2>2. CASE SendFails /\ got' = got
    BY <1>3, <2>2, FreshDisconnect DEF SendFrame, SendFails, history
  <2> QED
    BY <1>3, <2>1, <2>2 DEF SendFrame
<1> QED
  BY <1>1, <1>2, <1>3

(* The invariant holds at first, and no step breaks it.                     *)
LEMMA FreshInit == Init => FreshInv
BY DEF Init, Ring!Init, FreshInv, Fresh

(* Step by step.                                                            *)
LEMMA FreshStep == R!TypeOK /\ FreshInv /\ [Next]_vars => FreshInv'
<1> SUFFICES ASSUME R!TypeOK, FreshInv, [Next]_vars PROVE FreshInv'
  OBVIOUS
<1>1. CASE Recv
  BY <1>1, FreshKept DEF Recv
<1>2. CASE Start
  BY <1>2 DEF Start, Ring!set_can_filter, Ring!ring, FreshInv, Fresh, history
<1>3. CASE SocketClosed
  BY <1>3, FreshKept, FreshDisconnect DEF SocketClosed
<1>4. CASE SocketInit \/ Reset
  BY <1>4, FreshReset
<1>5. CASE SocketInitFails
  BY <1>5, FreshKept DEF SocketInitFails
<1>6. CASE SocketCloseWait
  BY <1>6, FreshDisconnect DEF SocketCloseWait
<1>7. CASE Answer
  BY <1>7, FreshKept, FreshDisconnect DEF Answer, SendReturns, SendFails
<1>8. CASE PopTest \/ Pop \/ SendFrame
  BY <1>8, FreshPop
<1>9. CASE PopEmpty
  BY <1>9, FreshKept DEF PopEmpty
<1>10. CASE Interrupt
  BY <1>10, FreshInterrupt
<1>11. CASE PeerConnect \/ PeerClose \/ PeerReset \/ \E s \in Segments : PeerSend(s)
  BY <1>11, FreshKept DEF PeerConnect, PeerClose, PeerReset, PeerSend
<1>12. CASE UNCHANGED vars
  BY <1>12, FreshKept DEF vars
<1> QED
  BY <1>1, <1>2, <1>3, <1>4, <1>5, <1>6, <1>7, <1>8, <1>9, <1>10, <1>11, <1>12 DEF Next, Loop, Outside

(* In every behaviour.                                                      *)
LEMMA FreshAlways == Spec => []FreshInv
<1>1. Init => FreshInv
  BY FreshInit
<1>2. R!TypeOK /\ FreshInv /\ [Next]_vars => FreshInv'
  BY FreshStep
<1> QED
  BY <1>1, <1>2, RingTyped, PTL DEF Spec

(* A peer gets no frame of an earlier connection.                          *)
THEOREM NoOldFrames == Spec => []FramesOfThisConnection
<1>1. FreshInv => FramesOfThisConnection
  BY DEF FreshInv, Fresh, FramesOfThisConnection, R!Messages
<1> QED
  BY <1>1, FreshAlways, PTL
-----------------------------------------------------------------------------
(* The cleared messages.  Every slot that can still be popped cleared, the  *)
(* one that is about to be sent, and those that were sent, together are no  *)
(* more than the frames that came during the reset: memset clears a slot    *)
(* that can be popped only if a frame was put there after the indices went  *)
(* back to zero, and every later frame overwrites a slot or adds one that   *)
(* is not cleared.                                                          *)
Cleared == {i \in 0..(N - 1) : R!InWindow(i) /\ msg_buf[i].data = 0}
SentCleared == {k \in DOMAIN got : got[k].data = 0}
Pending == IF at = "send" /\ pc = "open" /\ out[Len(out)].data = 0 THEN 1 ELSE 0

ClearInv ==
  /\ upto \in Nat /\ mark <= upto /\ upto <= heard
  /\ pc \in {"pop_idx", "memset"} => push_idx <= heard - mark /\ got = <<>>
  /\ pc = "memset" => pop_idx = 0
  /\ pc = "pop" => R!InWindow(pop_idx)
  /\ pc \in {"open", "pop"} =>
       Cardinality(Cleared) + Pending + Cardinality(SentCleared) <= upto - mark
  /\ Cardinality(SentCleared) <= upto - mark

(* The counted sets are finite, and so have a size.                         *)
LEMMA Counted ==
  ASSUME R!TypeOK, FreshInv
  PROVE  /\ IsFiniteSet(Cleared) /\ Cardinality(Cleared) \in Nat
         /\ IsFiniteSet(SentCleared) /\ Cardinality(SentCleared) \in Nat
         /\ Pending \in 0..1 /\ mark \in Nat /\ heard \in Nat
         /\ N \in Nat /\ N > 1 /\ push_idx \in 0..(N - 1) /\ pop_idx \in 0..(N - 1)
<1>1. N \in Nat /\ N > 1
  BY CanToEthAssumption DEF Ring!RxRingAssumption
<1>2. IsFiniteSet(0..(N - 1)) /\ Cleared \in SUBSET (0..(N - 1))
  BY <1>1, FS_Interval DEF Cleared
<1>3. IsFiniteSet(1..Len(got)) /\ SentCleared \in SUBSET (1..Len(got))
  BY FS_Interval DEF FreshInv, SentCleared
<1>4. IsFiniteSet(Cleared) /\ IsFiniteSet(SentCleared)
  BY <1>2, <1>3, FS_Subset
<1> QED
  BY <1>1, <1>4, FS_CardinalityType DEF Pending, FreshInv, R!TypeOK

(* Steps that leave the ring and what was sent alone keep the invariant.   *)
LEMMA ClearKept ==
  ASSUME R!TypeOK, FreshInv, ClearInv, UNCHANGED <<RV, history>>, at' # "send" \/ at' = at
  PROVE  ClearInv'
<1>1. /\ Cleared' = Cleared /\ SentCleared' = SentCleared
      /\ Pending' \in {0, Pending}
  BY DEF Cleared, SentCleared, Pending, R!InWindow, R!Base, RV, history
<1>2. UNCHANGED <<upto, mark, heard, pc, push_idx, pop_idx, got>> /\ (R!InWindow(pop_idx)' <=> R!InWindow(pop_idx))
  BY DEF RV, history, R!InWindow, R!Base
<1>3. upto \in Nat /\ mark \in Nat
  BY DEF ClearInv, FreshInv
<1> QED
  BY <1>1, <1>2, <1>3, Counted DEF ClearInv

(* The ring is left.                                                        *)
LEMMA ClearDisconnect ==
  ASSUME R!TypeOK, FreshInv, ClearInv, Ring!Disconnect, UNCHANGED history
  PROVE  ClearInv'
<1>1. pc' = "closed" /\ UNCHANGED <<heard, got, mark, upto>> /\ SentCleared' = SentCleared
  BY DEF Ring!Disconnect, history, SentCleared
<1> QED
  BY <1>1 DEF ClearInv

(* The interrupt uncovers no cleared slot.                                  *)
LEMMA ClearInterrupt ==
  ASSUME R!TypeOK, FreshInv, ClearInv, Interrupt
  PROVE  ClearInv'
<1> PICK id \in Ids, ext \in BOOLEAN : Ring!can2040_cb(id, ext)
  BY DEF Interrupt
<1> DEFINE m == [id |-> id, ext |-> ext, data |-> heard + 1]
<1>1. /\ heard' = heard + 1 /\ UNCHANGED <<pc, out, at, mark, upto, got>>
      /\ (R!push_rbuf(m) \/ UNCHANGED <<push_idx, pop_idx, msg_buf>>)
      /\ pop_idx' = pop_idx
  BY DEF Ring!can2040_cb, Interrupt, history, Ring!push_rbuf, R!push_rbuf, Ring!Successor,
         R!Successor, Ring!ring
<1>2. m.data # 0
  BY Counted
<1> HIDE DEF m
<1>3. /\ \A i \in 0..(N - 1) : R!InWindow(i)' => i = push_idx \/ R!InWindow(i)
      /\ pc = "pop" /\ R!InWindow(pop_idx) => R!InWindow(pop_idx)'
  <2>1. CASE R!push_rbuf(m)
    <3>1. R!RxRingAssumption
      BY CanToEthAssumption DEF Ring!RxRingAssumption, R!RxRingAssumption
    <3> QED
      BY <1>1, <2>1, <3>1, R!PushWindow
  <2>2. CASE UNCHANGED <<push_idx, pop_idx, msg_buf>>
    BY <1>1, <2>2 DEF R!InWindow, R!Base
  <2> QED
    BY <1>1, <2>1, <2>2
<1>4. Cleared' \in SUBSET Cleared
  <2>1. CASE R!push_rbuf(m)
    <3>1. /\ msg_buf'[push_idx] = m
          /\ \A i \in 0..(N - 1) : i # push_idx => msg_buf'[i] = msg_buf[i]
      BY <2>1, Counted DEF R!push_rbuf, R!TypeOK
    <3> QED
      BY <1>2, <1>3, <3>1 DEF Cleared
  <2>2. CASE UNCHANGED <<push_idx, pop_idx, msg_buf>>
    BY <1>1, <2>2 DEF Cleared, R!InWindow, R!Base
  <2> QED
    BY <1>1, <2>1, <2>2
<1>5. Cardinality(Cleared') <= Cardinality(Cleared) /\ Cardinality(Cleared') \in Nat
  BY <1>4, Counted, FS_Subset, FS_CardinalityType
<1>6. Pending' = Pending /\ SentCleared' = SentCleared
  BY <1>1 DEF Pending, SentCleared
<1>7. pc \in {"pop_idx", "memset"} => push_idx' <= heard' - mark'
  <2>1. push_idx' <= push_idx + 1
    BY <1>1, Counted DEF R!push_rbuf, R!Successor
  <2>2. push_idx' \in Int
    BY <1>1, Counted DEF R!push_rbuf, R!Successor
  <2> QED
    BY <1>1, <2>1, <2>2, Counted DEF ClearInv
<1>8. (Cardinality(Cleared) + Pending + Cardinality(SentCleared))' <=
        Cardinality(Cleared) + Pending + Cardinality(SentCleared)
  BY <1>5, <1>6, Counted
<1>9. pc \in {"open", "pop"} =>
        (Cardinality(Cleared) + Pending + Cardinality(SentCleared))' <= upto - mark
  BY <1>5, <1>6, <1>8, Counted DEF ClearInv
<1> QED
  BY <1>1, <1>3, <1>6, <1>7, <1>9, Counted DEF ClearInv

(* The reset: only slots below push_idx can be popped when it ends.         *)
LEMMA ClearReset ==
  ASSUME R!TypeOK, FreshInv, ClearInv, SocketInit \/ Reset
  PROVE  ClearInv'
<1>1. CASE SocketInit
  <2>1. /\ pc' = "pop_idx" /\ push_idx' = 0 /\ heard' = heard /\ mark' = heard /\ upto' = heard
        /\ got' = <<>>
    BY <1>1 DEF SocketInit, Ring!ResetPushIdx
  <2>2. SentCleared' = {}
    BY <2>1 DEF SentCleared
  <2> QED
    BY <2>1, <2>2, Counted, FS_EmptySet DEF ClearInv
<1>2. CASE Reset /\ ~Ring!SetRxFlag
  <2>1. /\ pc \in {"pop_idx", "memset"} /\ pc' = "memset" /\ pop_idx' \in {0, pop_idx}
        /\ (pc = "pop_idx" => pop_idx' = 0)
        /\ UNCHANGED <<push_idx, heard, mark, upto, got>>
    BY <1>2 DEF Reset, Ring!ResetPopIdx, Ring!Memset
  <2>2. SentCleared' = SentCleared
    BY <2>1 DEF SentCleared
  <2> QED
    BY <2>1, <2>2 DEF ClearInv
<1>3. CASE Reset /\ Ring!SetRxFlag
  <2>1. /\ pc = "memset" /\ pc' = "open" /\ upto' = heard /\ pop_idx = 0
        /\ UNCHANGED <<push_idx, pop_idx, msg_buf, heard, mark, got, at, out>> /\ got = <<>>
        /\ push_idx <= heard - mark
    BY <1>3 DEF Reset, Ring!SetRxFlag, Ring!ResetPopIdx, Ring!Memset, ClearInv
  <2>2. Pending' = 0
    BY <2>1 DEF Pending, FreshInv
  <2>3. SentCleared' = {} /\ SentCleared = {}
    BY <2>1 DEF SentCleared
  <2>4. Cleared' \in SUBSET (0..(push_idx - 1))
    BY <2>1, Counted DEF Cleared, R!InWindow, R!Base
  <2>5. IsFiniteSet(0..(push_idx - 1)) /\ Cardinality(0..(push_idx - 1)) = push_idx
    <3> DEFINE n == push_idx - 1
    <3>1. n \in Int /\ push_idx \in Int /\ 0 \in Int
      BY Counted
    <3> HIDE DEF n
    <3>2. IsFiniteSet(0..n) /\ Cardinality(0..n) = IF 0 > n THEN 0 ELSE n - 0 + 1
      BY <3>1, FS_Interval
    <3>3. (IF 0 > n THEN 0 ELSE n - 0 + 1) = push_idx
      BY Counted DEF n
    <3> QED
      BY <3>2, <3>3 DEF n
  <2>6. Cardinality(Cleared') <= push_idx /\ Cardinality(Cleared') \in Nat
    BY <2>4, <2>5, FS_Subset, FS_CardinalityType
  <2>7. Cardinality(SentCleared') = 0
    BY <2>3, FS_EmptySet
  <2>8. (Cardinality(Cleared) + Pending + Cardinality(SentCleared))' <= upto' - mark'
    BY <2>1, <2>2, <2>6, <2>7, Counted
  <2> QED
    BY <2>1, <2>7, <2>8, Counted DEF ClearInv, FreshInv
<1> QED
  BY <1>1, <1>2, <1>3

(* What is popped leaves the slots; what is sent was popped.                *)
LEMMA ClearPop ==
  ASSUME R!TypeOK, FreshInv, FreshInv', ClearInv, PopTest \/ Pop \/ SendFrame
  PROVE  ClearInv'
<1>0. /\ N \in Nat /\ push_idx \in 0..(N - 1) /\ pop_idx \in 0..(N - 1)
      /\ mark \in Nat /\ upto \in Nat /\ Cardinality(Cleared) \in Nat
      /\ Cardinality(SentCleared) \in Nat /\ Pending \in 0..1
  BY Counted DEF ClearInv
<1>1. CASE PopTest
  <2>1. /\ pc = "open" /\ pc' = "pop" /\ pop_idx # push_idx /\ at' = "send"
        /\ UNCHANGED <<push_idx, pop_idx, msg_buf, heard, mark, upto, got>>
    BY <1>1 DEF PopTest, Ring!PopTest, Ring!ring, history
  <2>2. Cleared' = Cleared /\ R!InWindow(pop_idx)'
    BY <1>0, <2>1 DEF Cleared, R!InWindow, R!Base
  <2>3. SentCleared' = SentCleared /\ Pending' = 0
    BY <2>1 DEF SentCleared, Pending
  <2>4. (Cardinality(Cleared) + Pending + Cardinality(SentCleared))' <= upto' - mark'
    BY <1>0, <2>1, <2>2, <2>3 DEF ClearInv
  <2> QED
    BY <2>1, <2>2, <2>3, <2>4 DEF ClearInv
<1>2. CASE Pop
  <2>1. /\ pc = "pop" /\ pc' = "open" /\ out' = Append(out, msg_buf[pop_idx]) /\ R!pop_rbuf
        /\ UNCHANGED <<push_idx, msg_buf, heard, mark, upto, got, at>>
    BY <1>2 DEF Pop, Ring!pop_rbuf, R!pop_rbuf, history, Ring!Successor, R!Successor
  <2>2. R!InWindow(pop_idx) /\ R!RxRingAssumption
    BY <2>1, CanToEthAssumption DEF ClearInv, Ring!RxRingAssumption, R!RxRingAssumption
  <2>3. \A i \in 0..(N - 1) : R!InWindow(i)' => R!InWindow(i) /\ i # pop_idx
    BY <2>1, <2>2, R!PopWindow
  <2>4. Cleared' \in SUBSET (Cleared \ {pop_idx})
    BY <2>1, <2>3 DEF Cleared
  <2>5. SentCleared' = SentCleared /\ Pending = 0
    BY <2>1 DEF SentCleared, Pending
  <2>6. out'[Len(out')] = msg_buf[pop_idx]
    BY <1>0, <2>1 DEF R!TypeOK
  <2>7. Pending' \in 0..1 /\ (Pending' = 1 => pop_idx \in Cleared)
    BY <1>0, <2>1, <2>2, <2>6 DEF Pending, Cleared
  <2>8. /\ IsFiniteSet(Cleared \ {pop_idx})
        /\ Cardinality(Cleared \ {pop_idx}) =
             IF pop_idx \in Cleared THEN Cardinality(Cleared) - 1 ELSE Cardinality(Cleared)
    BY Counted, FS_RemoveElement
  <2>9. Cardinality(Cleared') <= Cardinality(Cleared \ {pop_idx}) /\ Cardinality(Cleared') \in Nat
    BY <2>4, <2>8, FS_Subset, FS_CardinalityType
  <2>10. Cardinality(Cleared') + Pending' <= Cardinality(Cleared)
    BY <1>0, <2>7, <2>8, <2>9
  <2>11. (Cardinality(Cleared) + Pending + Cardinality(SentCleared))' <= upto' - mark'
    BY <1>0, <2>1, <2>5, <2>7, <2>9, <2>10 DEF ClearInv
  <2> QED
    BY <2>1, <2>5, <2>11 DEF ClearInv
<1>3. CASE SendFrame /\ SendReturns
  <2>1. /\ at = "send" /\ pc = "open" /\ pc' = "open" /\ at' = "loop"
        /\ UNCHANGED <<push_idx, pop_idx, msg_buf, heard, mark, upto, out>>
        /\ out # <<>>
    BY <1>3 DEF SendFrame, SendReturns, RV, FreshInv
  <2>2. Cleared' = Cleared /\ Pending' = 0
    BY <2>1 DEF Cleared, Pending, R!InWindow, R!Base
  <2>3. got' = got \/ got' = Append(got, out[Len(out)])
    BY <1>3, <2>1 DEF SendFrame, SendReturns, SendFails, Ring!Disconnect
  <2>4. Cardinality(SentCleared') \in Nat /\ Cardinality(SentCleared') <= Cardinality(SentCleared) + Pending
    <3>1. CASE got' = got
      <4>1. SentCleared' = SentCleared
        BY <3>1 DEF SentCleared
      <4> QED
        BY <1>0, <4>1
    <3>2. CASE got' = Append(got, out[Len(out)])
      <4> DEFINE e == out[Len(out)]
      <4>1. got \in Seq(R!Messages) /\ e \in R!Messages
        BY <2>1 DEF FreshInv, R!TypeOK
      <4>2. Pending = IF e.data = 0 THEN 1 ELSE 0
        BY <2>1 DEF Pending
      <4> HIDE DEF e
      <4>3. got' = Append(got, e)
        BY <3>2 DEF e
      <4>4. /\ DOMAIN got' = DOMAIN got \cup {Len(got) + 1} /\ got'[Len(got) + 1] = e
            /\ \A k \in DOMAIN got : got'[k] = got[k]
        BY <4>1, <4>3
      <4>5. CASE e.data = 0
        <5>1. SentCleared' = SentCleared \cup {Len(got) + 1}
          BY <4>4, <4>5 DEF SentCleared
        <5>2. Cardinality(SentCleared \cup {Len(got) + 1}) =
                IF Len(got) + 1 \in SentCleared THEN Cardinality(SentCleared)
                                                ELSE Cardinality(SentCleared) + 1
          BY Counted, FS_AddElement
        <5>3. Pending = 1
          BY <4>2, <4>5
        <5> QED
          BY <1>0, <5>1, <5>2, <5>3
      <4>6. CASE e.data # 0
        <5>1. SentCleared' = SentCleared
          BY <4>4, <4>6 DEF SentCleared
        <5> QED
          BY <1>0, <5>1
      <4> QED
        BY <4>5, <4>6
    <3> QED
      BY <2>3, <3>1, <3>2
  <2>5. (Cardinality(Cleared) + Pending + Cardinality(SentCleared))' <= upto' - mark'
    BY <1>0, <2>1, <2>2, <2>4 DEF ClearInv
  <2>6. Cardinality(SentCleared') <= upto' - mark'
    BY <1>0, <2>1, <2>2, <2>4, <2>5
  <2> QED
    BY <2>1, <2>5, <2>6 DEF ClearInv
<1>4. CASE SendFrame /\ SendFails /\ got' = got
  BY <1>4, ClearDisconnect DEF SendFrame, SendFails, history
<1> QED
  BY <1>1, <1>2, <1>3, <1>4 DEF SendFrame

(* No step breaks the count.                                                *)
LEMMA ClearStep == R!TypeOK /\ FreshInv /\ FreshInv' /\ ClearInv /\ [Next]_vars => ClearInv'
<1> SUFFICES ASSUME R!TypeOK, FreshInv, FreshInv', ClearInv, [Next]_vars PROVE ClearInv'
  OBVIOUS
<1>1. CASE Recv
  BY <1>1, ClearKept DEF Recv
<1>2. CASE Start
  <2>1. pc' = "closed" /\ UNCHANGED <<heard, got, mark, upto>> /\ SentCleared' = SentCleared
    BY <1>2 DEF Start, Ring!set_can_filter, history, SentCleared
  <2> QED
    BY <2>1 DEF ClearInv
<1>3. CASE SocketClosed
  BY <1>3, ClearKept, ClearDisconnect DEF SocketClosed
<1>4. CASE SocketInit \/ Reset
  BY <1>4, ClearReset
<1>5. CASE SocketInitFails
  BY <1>5, ClearKept DEF SocketInitFails
<1>6. CASE SocketCloseWait
  BY <1>6, ClearDisconnect DEF SocketCloseWait
<1>7. CASE Answer
  BY <1>7, ClearKept, ClearDisconnect DEF Answer, SendReturns, SendFails
<1>8. CASE PopTest \/ Pop \/ SendFrame
  BY <1>8, ClearPop
<1>9. CASE PopEmpty
  BY <1>9, ClearKept DEF PopEmpty
<1>10. CASE Interrupt
  BY <1>10, ClearInterrupt
<1>11. CASE PeerConnect \/ PeerClose \/ PeerReset \/ \E s \in Segments : PeerSend(s)
  BY <1>11, ClearKept DEF PeerConnect, PeerClose, PeerReset, PeerSend
<1>12. CASE UNCHANGED vars
  BY <1>12, ClearKept DEF vars
<1> QED
  BY <1>1, <1>2, <1>3, <1>4, <1>5, <1>6, <1>7, <1>8, <1>9, <1>10, <1>11, <1>12 DEF Next, Loop, Outside

(* A peer gets no more cleared messages than frames came during the reset   *)
(* of the ring: a peer of a quiet bus gets none.                            *)
THEOREM ClearedAreCounted == Spec => []ClearedOnlyByReset
<1>1. Init => ClearInv
  <2>1. ASSUME Init PROVE SentCleared = {} /\ pc = "boot" /\ upto = 0 /\ mark = 0 /\ heard = 0
    BY <2>1 DEF Init, Ring!Init, SentCleared
  <2> QED
    BY <2>1, FS_EmptySet DEF ClearInv
<1>2. R!TypeOK /\ FreshInv /\ FreshInv' /\ ClearInv /\ [Next]_vars => ClearInv'
  BY ClearStep
<1>3. ClearInv => ClearedOnlyByReset
  BY DEF ClearInv, ClearedOnlyByReset, SentCleared
<1> QED
  BY <1>1, <1>2, <1>3, RingTyped, FreshAlways, PTL DEF Spec
=============================================================================
