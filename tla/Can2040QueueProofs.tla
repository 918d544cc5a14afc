------------------------- MODULE Can2040QueueProofs -------------------------
(***************************************************************************)
(* The transmit queue of the CAN driver: its slots are complete whenever   *)
(* the handler may read them, and the driver implements the abstract       *)
(* first-in first-out queue TxFifo, for every length of the queue and      *)
(* width of its positions, on one core or two, whatever the wire does.     *)
(***************************************************************************)
EXTENDS Can2040Proofs

-----------------------------------------------------------------------------
(* Positions modulo their width, and slots modulo the length of the queue. *)

\* An integer is a multiple of the modulus and its remainder.
LEMMA Remainder ==
  ASSUME NEW m \in Nat \ {0}, NEW x \in Int
  PROVE  \E q \in Int : x = m * q + (x % m)
<1>1. x = m * (x \div m) + (x % m) /\ x \div m \in Int
  OBVIOUS
<1> QED
  BY <1>1

\* The remainder is the only number below the modulus with that property.
LEMMA RemainderUnique ==
  ASSUME NEW m \in Nat \ {0}, NEW q \in Int, NEW r \in 0..(m - 1)
  PROVE  (m * q + r) % m = r
OBVIOUS

\* Adding a multiple of the modulus does not change the remainder.
LEMMA RemainderPeriod ==
  ASSUME NEW m \in Nat \ {0}, NEW x \in Int, NEW q \in Int
  PROVE  (x + m * q) % m = x % m
<1> DEFINE r == x % m
<1>1. r \in 0..(m - 1)
  BY ModRange
<1>2. PICK k \in Int : x = m * k + r
  BY Remainder
<1> HIDE DEF r
<1>3. x + m * q = m * (k + q) + r /\ k + q \in Int
  BY <1>1, <1>2
<1>4. (m * (k + q) + r) % m = r
  BY <1>1, <1>3, RemainderUnique
<1> QED
  BY <1>3, <1>4 DEF r

\* Two numbers less than the modulus apart have different remainders.
LEMMA RemainderDiffers ==
  ASSUME NEW m \in Nat \ {0}, NEW x \in Int, NEW y \in Int, x < y, y < x + m
  PROVE  x % m # y % m
<1> SUFFICES ASSUME x % m = y % m PROVE FALSE
  OBVIOUS
<1> DEFINE r == x % m
<1>1. r \in 0..(m - 1)
  BY ModRange
<1>2. PICK j \in Int : x = m * j + r
  BY Remainder
<1>3. PICK k \in Int : y = m * k + r
  BY Remainder
<1> HIDE DEF r
<1>4. y - x = m * (k - j) /\ k - j \in Int
  BY <1>1, <1>2, <1>3
<1> DEFINE d == k - j
<1> HIDE DEF d
<1>5. d \in Int /\ 0 < m * d /\ m * d < m
  BY <1>4 DEF d
<1>6. d <= 0 => m * d <= 0
  BY <1>5
<1>7. d >= 1 => m * d >= m
  BY <1>5
<1> QED
  BY <1>5, <1>6, <1>7

Positions == 0..(PosMod - 1)
Next1(p) == (p + 1) % PosMod
Distance(p, q) == (p - q) % PosMod

\* The position after p: they wrap around at PosMod.
LEMMA NextPosition ==
  ASSUME NEW p \in Positions
  PROVE  /\ Next1(p) = IF p = PosMod - 1 THEN 0 ELSE p + 1
         /\ Next1(p) \in Positions
<1>1. PosMod \in Nat \ {0}
  BY Can2040Assumption
<1>2. CASE p = PosMod - 1
  <2>1. (PosMod * 1 + 0) % PosMod = 0
    BY <1>1, RemainderUnique
  <2> QED
    BY <1>1, <1>2, <2>1 DEF Next1, Positions
<1>3. CASE p # PosMod - 1
  <2>1. p + 1 \in 0..(PosMod - 1)
    BY <1>1, <1>3 DEF Positions
  <2>2. (PosMod * 0 + (p + 1)) % PosMod = p + 1
    BY <1>1, <2>1, RemainderUnique
  <2> QED
    BY <1>1, <1>3, <2>1, <2>2 DEF Next1, Positions
<1> QED
  BY <1>2, <1>3

\* The distance of two positions, without the modulus.
LEMMA DistanceIs ==
  ASSUME NEW p \in Positions, NEW q \in Positions
  PROVE  /\ Distance(p, q) = IF p >= q THEN p - q ELSE p - q + PosMod
         /\ Distance(p, q) \in Positions
<1>1. PosMod \in Nat \ {0}
  BY Can2040Assumption
<1>2. CASE p >= q
  <2>1. p - q \in 0..(PosMod - 1)
    BY <1>1, <1>2 DEF Positions
  <2>2. (PosMod * 0 + (p - q)) % PosMod = p - q
    BY <1>1, <2>1, RemainderUnique
  <2> QED
    BY <1>1, <1>2, <2>1, <2>2 DEF Distance, Positions
<1>3. CASE p < q
  <2>1. p - q + PosMod \in 0..(PosMod - 1)
    BY <1>1, <1>3 DEF Positions
  <2>2. (PosMod * (-1) + (p - q + PosMod)) % PosMod = p - q + PosMod
    BY <1>1, <2>1, RemainderUnique
  <2>3. PosMod * (-1) + (p - q + PosMod) = p - q
    BY <1>1 DEF Positions
  <2> QED
    BY <1>1, <1>3, <2>1, <2>2, <2>3 DEF Distance, Positions
<1> QED
  BY <1>1, <1>2, <1>3 DEF Positions

\* The distance is zero for equal positions only, grows by one with a push and shrinks by one
\* with a pull.
LEMMA DistanceSteps ==
  ASSUME NEW p \in Positions, NEW q \in Positions
  PROVE  /\ Distance(p, q) = 0 <=> p = q
         /\ Distance(p, q) < PosMod - 1 => Distance(Next1(p), q) = Distance(p, q) + 1
         /\ p # q => Distance(p, Next1(q)) = Distance(p, q) - 1
<1>1. PosMod \in Nat \ {0}
  BY Can2040Assumption
<1>2. Next1(p) \in Positions /\ Next1(q) \in Positions
  BY NextPosition
<1>3. /\ Distance(p, q) = IF p >= q THEN p - q ELSE p - q + PosMod
      /\ Distance(Next1(p), q) = IF Next1(p) >= q THEN Next1(p) - q ELSE Next1(p) - q + PosMod
      /\ Distance(p, Next1(q)) = IF p >= Next1(q) THEN p - Next1(q) ELSE p - Next1(q) + PosMod
  BY <1>2, DistanceIs
<1>4. /\ Next1(p) = IF p = PosMod - 1 THEN 0 ELSE p + 1
      /\ Next1(q) = IF q = PosMod - 1 THEN 0 ELSE q + 1
  BY NextPosition
<1> HIDE DEF Next1, Distance
<1> QED
  BY <1>1, <1>2, <1>3, <1>4 DEF Positions

\* The length of the queue divides the width of the positions: a slot does not depend on how
\* often a position wrapped around.
LEMMA SlotWraps ==
  ASSUME NEW x \in Int
  PROVE  tx_qpos(x + PosMod) = tx_qpos(x)
<1>1. QueueLen \in Nat \ {0} /\ PosMod \in Int /\ PosMod % QueueLen = 0
  BY Can2040Assumption
<1>2. PICK k \in Int : PosMod = QueueLen * k + (PosMod % QueueLen)
  BY <1>1, Remainder
<1>3. PosMod = QueueLen * k
  BY <1>1, <1>2
<1>4. (x + QueueLen * k) % QueueLen = x % QueueLen
  BY <1>1, RemainderPeriod
<1> QED
  BY <1>3, <1>4 DEF tx_qpos

\* The slots counted from the position after q are those counted from q, without the first.
LEMMA SlotAfter ==
  ASSUME NEW q \in Positions, NEW i \in Nat
  PROVE  tx_qpos(Next1(q) + i) = tx_qpos(q + (i + 1))
<1>1. PosMod \in Nat \ {0}
  BY Can2040Assumption
<1>2. CASE q = PosMod - 1
  <2>1. Next1(q) + i = i /\ q + (i + 1) = i + PosMod
    BY <1>1, <1>2, NextPosition
  <2> QED
    BY <2>1, SlotWraps
<1>3. CASE q # PosMod - 1
  <2>1. Next1(q) + i = q + (i + 1)
    BY <1>1, <1>3, NextPosition DEF Positions
  <2> QED
    BY <2>1
<1> QED
  BY <1>2, <1>3

\* The slot at the push position is the one as far from the pull position as the queue is long.
LEMMA SlotAtPush ==
  ASSUME NEW p \in Positions, NEW q \in Positions
  PROVE  tx_qpos(q + Distance(p, q)) = tx_qpos(p)
<1>1. PosMod \in Nat \ {0}
  BY Can2040Assumption
<1>2. CASE p >= q
  <2>1. q + Distance(p, q) = p
    BY <1>1, <1>2, DistanceIs DEF Positions
  <2> QED
    BY <2>1
<1>3. CASE p < q
  <2>1. q + Distance(p, q) = p + PosMod
    BY <1>1, <1>3, DistanceIs DEF Positions
  <2>2. tx_qpos(p + PosMod) = tx_qpos(p)
    BY <1>1, SlotWraps DEF Positions
  <2> QED
    BY <2>1, <2>2
<1> QED
  BY <1>1, <1>2, <1>3 DEF Positions

\* Slots at different places of one window of the queue are different slots.
LEMMA SlotsDiffer ==
  ASSUME NEW q \in Positions, NEW i \in 0..(QueueLen - 1), NEW j \in 0..(QueueLen - 1), i < j
  PROVE  tx_qpos(q + i) # tx_qpos(q + j)
<1>1. QueueLen \in Nat \ {0}
  BY Can2040Assumption
<1>2. q + i \in Int /\ q + j \in Int /\ q + i < q + j /\ q + j < q + i + QueueLen
  BY <1>1, Can2040Assumption DEF Positions
<1> QED
  BY <1>1, <1>2, RemainderDiffers DEF tx_qpos
-----------------------------------------------------------------------------
(* What the driver's functions assign, field by field.                     *)

\* report_handle_eof: the callback of the report, if it is complete, and the end of the report.
LEMMA HandleEofFields ==
  ASSUME NEW w \in Worlds
  PROVE  LET v == report_handle_eof(w) IN
         /\ v \in Worlds
         /\ v.cd = [w.cd EXCEPT !.report_state = "IDLE",
                      !.tx_pull_pos = IF w.cd.report_state = "TX_EOF"
                                      THEN Next1(w.cd.tx_pull_pos) ELSE w.cd.tx_pull_pos]
         /\ v.pio = [w.pio EXCEPT !.match = NoKey]
         /\ v.log.tx = IF w.cd.report_state = "TX_EOF"
                       THEN Append(w.log.tx, w.cd.parse_msg) ELSE w.log.tx
         /\ v.log.rx = IF w.cd.report_state = "RX_EOF"
                       THEN Append(w.log.rx, w.cd.parse_msg) ELSE w.log.rx
         /\ v.log.err = w.log.err
<1> DEFINE reported == CASE w.cd.report_state = "TX_EOF" -> report_callback_tx_msg(w)
                         [] w.cd.report_state = "RX_EOF" -> report_callback_rx_msg(w)
                         [] OTHER -> w
<1>1. /\ reported \in Worlds /\ reported.pio = w.pio
      /\ reported.cd = [w.cd EXCEPT !.tx_pull_pos = IF w.cd.report_state = "TX_EOF"
                          THEN Next1(w.cd.tx_pull_pos) ELSE w.cd.tx_pull_pos]
      /\ reported.log.tx = IF w.cd.report_state = "TX_EOF"
                           THEN Append(w.log.tx, w.cd.parse_msg) ELSE w.log.tx
      /\ reported.log.rx = IF w.cd.report_state = "RX_EOF"
                           THEN Append(w.log.rx, w.cd.parse_msg) ELSE w.log.rx
      /\ reported.log.err = w.log.err
  <2>1. CASE w.cd.report_state = "TX_EOF"
    <3>1. reported = report_callback_tx_msg(w)
      BY <2>1
    <3> HIDE DEF reported
    <3> QED
      BY <2>1, <3>1, CallbackWorld DEF report_callback_tx_msg, Next1, Worlds, CdStates, LogStates
  <2>2. CASE w.cd.report_state # "TX_EOF"
    <3>1. [w.cd EXCEPT !.tx_pull_pos = w.cd.tx_pull_pos] = w.cd
      BY DEF Worlds, CdStates
    <3>2. CASE w.cd.report_state = "RX_EOF"
      <4>1. reported = report_callback_rx_msg(w)
        BY <3>2
      <4> HIDE DEF reported
      <4>2. reported \in Worlds /\ reported.cd = w.cd /\ reported.pio = w.pio
        BY <4>1, CallbackWorld
      <4>3. /\ reported.log.rx = Append(w.log.rx, w.cd.parse_msg)
            /\ reported.log.tx = w.log.tx /\ reported.log.err = w.log.err
        BY <4>1 DEF report_callback_rx_msg, Worlds, LogStates
      <4> QED
        BY <2>2, <3>1, <3>2, <4>2, <4>3
    <3>3. CASE w.cd.report_state # "RX_EOF"
      <4>1. reported = w
        BY <2>2, <3>3
      <4> HIDE DEF reported
      <4> QED
        BY <2>2, <3>1, <3>3, <4>1
    <3> QED
      BY <3>2, <3>3
  <2> QED
    BY <2>1, <2>2
<1>2. report_handle_eof(w) = [SetReport(reported, "IDLE") EXCEPT !.pio = pio_match_clear(@)]
  BY DEF report_handle_eof
<1> HIDE DEF reported
<1> DEFINE s == SetReport(reported, "IDLE")
<1>3. /\ s \in Worlds /\ s.cd = [reported.cd EXCEPT !.report_state = "IDLE"]
      /\ s.pio = reported.pio /\ s.log = reported.log
  BY <1>1, SetReportWorld DEF SetReport, Worlds
<1>4. report_handle_eof(w) = [s EXCEPT !.pio = pio_match_clear(s.pio)]
  BY <1>2, <1>3 DEF Worlds
<1> HIDE DEF s
<1>5. pio_match_clear(w.pio) = [w.pio EXCEPT !.match = NoKey] /\ pio_match_clear(w.pio) \in PioStates
  BY DEF pio_match_clear, Worlds, PioStates, NoKey, MatchKinds
<1>6. s.cd = [w.cd EXCEPT !.report_state = "IDLE",
                !.tx_pull_pos = IF w.cd.report_state = "TX_EOF"
                                THEN Next1(w.cd.tx_pull_pos) ELSE w.cd.tx_pull_pos]
  BY <1>1, <1>3 DEF Worlds, CdStates
<1> QED
  BY <1>1, <1>3, <1>4, <1>5, <1>6 DEF Worlds

(* What a restart of the PIO block makes of the "tx" machine.              *)
Halted(txsm) == IF txsm = "conflict" THEN "conflict" ELSE "off"

Restart(w) == [w EXCEPT !.pio = pio_sm_setup(w.pio)]

\* pio_sm_setup flushes what was received and halts "tx"; its fifo and its message stay.
LEMMA RestartFields ==
  ASSUME NEW w \in Worlds
  PROVE  LET p == Restart(w).pio IN
         /\ Restart(w) \in Worlds /\ Restart(w).cd = w.cd /\ Restart(w).log = w.log
         /\ p = pio_sm_setup(w.pio)
         /\ p.fifo = <<>> /\ p.isr = <<>> /\ p.match = NoKey /\ p.irqs = {"TXPENDING"}
         /\ p.txsm = Halted(w.pio.txsm) /\ p.stall = FALSE /\ p.sync = "sampling"
         /\ p.txmsg = w.pio.txmsg /\ p.flevel = w.pio.flevel /\ p.inte = w.pio.inte
<1>1. pio_sm_setup(w.pio) \in PioStates
  BY EmptyType DEF Worlds, pio_sm_setup, PioStates, SmIrqs, NoKey, MatchKinds, TxSmStates
<1>2. /\ Restart(w) \in Worlds /\ Restart(w).cd = w.cd /\ Restart(w).log = w.log
      /\ Restart(w).pio = pio_sm_setup(w.pio)
  BY <1>1 DEF Restart, Worlds
<1>3. w.pio \in PioStates
  BY DEF Worlds
<1> QED
  BY <1>2, <1>3 DEF pio_sm_setup, PioStates, Halted

(* data_state_go_discard ends the report and masks MATCHED and ACKDONE;    *)
(* after an overrun of the rx fifo it restarts the state machines first.   *)
LEMMA DiscardFields ==
  ASSUME NEW w \in Worlds
  PROVE  LET v == data_state_go_discard(w) IN
         /\ v \in Worlds
         /\ v.cd = [w.cd EXCEPT !.parse_state = "DISCARD", !.report_state = "IDLE"]
         /\ v.log.rx = w.log.rx /\ v.log.tx = w.log.tx
         /\ v.pio.inte = {"MAYTX", "TXPENDING", "RX_DATA"} /\ v.pio.txmsg = w.pio.txmsg
         /\ v.pio.match = w.pio.match \/ v.pio.match = NoKey
         /\ w.cd.report_state # "IDLE" => v.pio.match = NoKey
         /\ ~w.pio.stall => /\ v.pio.fifo = w.pio.fifo /\ v.pio.isr = w.pio.isr
                            /\ v.pio.irqs = w.pio.irqs /\ v.pio.txsm = w.pio.txsm
                            /\ v.pio.sync = w.pio.sync /\ v.log = w.log
         /\ w.pio.stall => /\ v.pio.fifo = <<>> /\ v.pio.isr = <<>> /\ v.pio.match = NoKey
                           /\ v.pio.irqs = {"TXPENDING"} /\ v.pio.txsm = Halted(w.pio.txsm)
                           /\ v.pio.sync = "sampling" /\ v.log.err
         /\ v.pio.stall = FALSE /\ v.pio.flevel = w.pio.flevel
<1> DEFINE r == IF pio_rx_check_stall(w.pio)
                THEN [w EXCEPT !.pio = pio_sm_setup(w.pio), !.log.err = TRUE]
                ELSE w
           d == GoNext(r, "DISCARD")
           c == IF d.cd.report_state = "IDLE" THEN d
                ELSE [SetReport(d, "IDLE") EXCEPT !.pio = pio_match_clear(SetReport(d, "IDLE").pio)]
<1>1. data_state_go_discard(w) = SetMask(c, {"MAYTX", "TXPENDING"})
  BY DEF data_state_go_discard, report_note_discarding, c, d, r
<1>2. pio_sm_setup(w.pio) \in PioStates
  BY EmptyType DEF Worlds, pio_sm_setup, PioStates, SmIrqs, NoKey, MatchKinds, TxSmStates
<1>3. r \in Worlds /\ r.cd = w.cd /\ r.log.rx = w.log.rx /\ r.log.tx = w.log.tx
  BY <1>2 DEF Worlds, LogStates
<1>4. /\ ~w.pio.stall => r = w
      /\ w.pio.stall => r.pio = pio_sm_setup(w.pio) /\ r.log.err
  BY DEF pio_rx_check_stall, Worlds, LogStates
<1> HIDE DEF r
<1>5. /\ d \in Worlds /\ d.cd = [w.cd EXCEPT !.parse_state = "DISCARD"]
      /\ d.pio = r.pio /\ d.log = r.log
  BY <1>3, GoNextWorld DEF GoNext, Worlds
<1> HIDE DEF d
<1>6. /\ c \in Worlds /\ c.cd = [w.cd EXCEPT !.parse_state = "DISCARD", !.report_state = "IDLE"]
      /\ c.log = r.log /\ (c.pio = r.pio \/ c.pio = [r.pio EXCEPT !.match = NoKey])
      /\ w.cd.report_state # "IDLE" => c.pio = [r.pio EXCEPT !.match = NoKey]
  <2>0. d.cd.report_state = w.cd.report_state
    BY <1>5 DEF Worlds, CdStates
  <2>1. CASE d.cd.report_state = "IDLE"
    <3>1. c = d
      BY <2>1
    <3> HIDE DEF c
    <3> QED
      BY <1>5, <2>0, <2>1, <3>1 DEF Worlds, CdStates
  <2>2. CASE d.cd.report_state # "IDLE"
    <3>1. /\ SetReport(d, "IDLE") \in Worlds
          /\ SetReport(d, "IDLE").cd = [d.cd EXCEPT !.report_state = "IDLE"]
          /\ SetReport(d, "IDLE").pio = d.pio
          /\ SetReport(d, "IDLE").log = d.log
      BY <1>5, SetReportWorld DEF SetReport, Worlds
    <3>2. pio_match_clear(d.pio) \in PioStates /\ pio_match_clear(d.pio) = [d.pio EXCEPT !.match = NoKey]
      BY <1>5 DEF pio_match_clear, Worlds, PioStates, NoKey, MatchKinds
    <3>3. c = [SetReport(d, "IDLE") EXCEPT !.pio = pio_match_clear(d.pio)]
      BY <2>2, <3>1
    <3> HIDE DEF c
    <3> QED
      BY <1>5, <3>1, <3>2, <3>3 DEF Worlds, CdStates
  <2> QED
    BY <2>1, <2>2
<1> HIDE DEF c
<1> DEFINE v == SetMask(c, {"MAYTX", "TXPENDING"})
<1>7. /\ v \in Worlds /\ v.cd = c.cd /\ v.log = c.log
      /\ v.pio = [c.pio EXCEPT !.inte = {"MAYTX", "TXPENDING", "RX_DATA"}]
  <2>1. {"MAYTX", "TXPENDING"} \in SUBSET AllIrqs
    BY DEF AllIrqs, SmIrqs
  <2>2. {"MAYTX", "TXPENDING"} \cup {"RX_DATA"} = {"MAYTX", "TXPENDING", "RX_DATA"}
    OBVIOUS
  <2> QED
    BY <1>6, <2>1, <2>2, SetMaskWorld DEF SetMask, pio_irq_set, Worlds
<1>8. v.pio.match = c.pio.match /\ (c.pio.match = r.pio.match \/ c.pio.match = NoKey)
  BY <1>3, <1>6, <1>7 DEF Worlds, PioStates
<1>9. /\ v.log = r.log /\ v.cd = [w.cd EXCEPT !.parse_state = "DISCARD", !.report_state = "IDLE"]
      /\ v.pio.inte = {"MAYTX", "TXPENDING", "RX_DATA"}
      /\ v.pio.fifo = r.pio.fifo /\ v.pio.isr = r.pio.isr /\ v.pio.irqs = r.pio.irqs
      /\ v.pio.txsm = r.pio.txsm /\ v.pio.sync = r.pio.sync /\ v.pio.stall = r.pio.stall
      /\ v.pio.txmsg = r.pio.txmsg /\ v.pio.flevel = r.pio.flevel
      /\ v.pio.match = r.pio.match \/ v.pio.match = NoKey
      /\ w.cd.report_state # "IDLE" => v.pio.match = NoKey
  BY <1>3, <1>6, <1>7 DEF Worlds, PioStates
<1>10. w.pio \in PioStates /\ r.pio \in PioStates /\ w.pio.stall \in BOOLEAN
  BY <1>3 DEF Worlds, PioStates
<1>11. v \in Worlds /\ data_state_go_discard(w) = v
  BY <1>1, <1>7
<1> HIDE DEF v
<1>12. CASE ~w.pio.stall
  BY <1>3, <1>4, <1>9, <1>10, <1>11, <1>12
<1>13. CASE w.pio.stall
  <2>1. r.pio = pio_sm_setup(w.pio) /\ r.log.err
    BY <1>4, <1>13
  <2>2. /\ r.pio.fifo = <<>> /\ r.pio.isr = <<>> /\ r.pio.match = NoKey
        /\ r.pio.irqs = {"TXPENDING"} /\ r.pio.txsm = Halted(w.pio.txsm) /\ r.pio.stall = FALSE
        /\ r.pio.sync = "sampling" /\ r.pio.txmsg = w.pio.txmsg /\ r.pio.flevel = w.pio.flevel
    BY <2>1, <1>10 DEF pio_sm_setup, PioStates, Halted
  <2> QED
    BY <1>3, <1>9, <1>11, <1>13, <2>1, <2>2
<1> QED
  BY <1>10, <1>12, <1>13

\* Only the word that ends a field of the frame being parsed counts as that field.
LEMMA FieldIs ==
  ASSUME NEW w, NEW t, NEW kind, kind # "noise", Field(w, t) = kind
  PROVE  t.n = w.cd.parse_msg /\ t.k = kind
BY DEF Field

\* The ways in which one word of the rx fifo moves the parser on; in every other case it
\* discards the frame.
LEMMA ProcessRxCases ==
  ASSUME NEW w \in Worlds, NEW t \in Tokens, NEW again \in BOOLEAN
  PROVE  LET v == process_rx(w, t, again)
             s == w.cd.parse_state
             mine == t.n = w.cd.parse_msg
         IN
         \/ v = data_state_go_discard(w)
         \/ s = "DISCARD" /\ v = w
         \/ s = "START" /\ t.k = "idle" /\ v = GoNext(w, "START")
         \/ /\ t.k = "idle" \/ (t.k = "eof1" /\ s = "DISCARD")
            /\ ~w.pio.stall /\ v = GoNext(data_state_go_discard(w), "START")
         \/ /\ s \in {"DISCARD", "START"} /\ t.k = "long"
            /\ v = data_state_go_discard(Restart(w))
         \/ /\ s = "START" /\ t.k \notin {"err", "pas", "idle", "long"}
            /\ v = data_state_update_start(w, t.n)
         \/ /\ s = "HEADER" /\ mine /\ t.k = "body" /\ tx_check_local_message(w) # -1
            /\ v = GoNext(report_note_crc_start(w, tx_check_local_message(w) = 1), "CRC")
         \/ s = "CRC" /\ mine /\ t.k = "crc" /\ v = GoNext(report_note_crc_success(w), "ACK")
         \/ s = "ACK" /\ mine /\ t.k = "ack" /\ v = GoNext(report_note_ack_success(w), "EOF0")
         \/ s = "EOF0" /\ mine /\ t.k = "eof0" /\ ~w.pio.stall /\ v = GoNext(w, "EOF1")
         \/ s = "EOF1" /\ mine /\ t.k = "eof1" /\ v = GoNext(report_note_eof_success(w), "START")
         \/ /\ s = "EOF1" /\ mine /\ (t.k = "over" \/ (t.k = "rxover" /\ ~InTx(w.cd.report_state)))
            /\ v = data_state_go_discard(report_note_eof_success(w))
<1> DEFINE s == w.cd.parse_state
           v == process_rx(w, t, again)
<1>0. s \in {"START", "HEADER", "CRC", "ACK", "EOF0", "EOF1", "DISCARD"}
  BY DEF Worlds, CdStates
<1>1. CASE t.k = "err"
  BY <1>1 DEF process_rx, data_state_line_error, data_state_go_error
<1>2. CASE t.k = "pas"
  <2>1. v = data_state_line_passive(w, "six")
    BY <1>2 DEF process_rx
  <2> HIDE DEF v
  <2> QED
    BY <1>0, <1>2, <2>1 DEF data_state_line_passive, data_state_go_error, v
<1>4. CASE t.k = "long"
  <2>1. v = data_state_line_passive(w, "all")
    BY <1>4 DEF process_rx
  <2> HIDE DEF v
  <2> QED
    BY <1>0, <1>4, <2>1 DEF data_state_line_passive, data_state_go_error, Restart, v
<1>5. ASSUME v = TenPassive(w), t.k = "idle" \/ (t.k = "eof1" /\ s = "DISCARD")
      PROVE  \/ v = data_state_go_discard(w)
             \/ ~w.pio.stall /\ v = GoNext(data_state_go_discard(w), "START")
  <2> DEFINE d == data_state_go_discard(w)
  <2>1. data_state_line_passive(w, "six") = d
    BY DEF data_state_line_passive, data_state_go_error
  <2>2. d.cd.parse_state = "DISCARD"
    <3>1. d.cd = [w.cd EXCEPT !.parse_state = "DISCARD", !.report_state = "IDLE"]
      BY DiscardFields
    <3> HIDE DEF d
    <3> QED
      BY <3>1 DEF Worlds, CdStates
  <2> HIDE DEF v, d
  <2>3. data_state_line_passive(d, "ten") = GoNext(d, "START")
    BY <2>2 DEF data_state_line_passive
  <2> QED
    BY <1>5, <2>1, <2>3 DEF TenPassive, pio_rx_check_stall, d
<1>6. CASE t.k = "idle"
  <2>1. CASE s = "START" /\ ~again
    <3>1. v = data_state_line_passive(w, "ten")
      BY <1>6, <2>1 DEF process_rx
    <3> HIDE DEF v
    <3> QED
      BY <1>6, <2>1, <3>1 DEF data_state_line_passive, v
  <2>2. CASE ~(s = "START" /\ ~again)
    <3>1. v = TenPassive(w)
      BY <1>6, <2>2 DEF process_rx
    <3> HIDE DEF v
    <3> QED
      BY <1>5, <1>6, <3>1 DEF v
  <2> QED
    BY <2>1, <2>2
<1>3. CASE t.k \notin {"err", "pas", "long", "idle"}
  <2> DEFINE k == Field(w, t)
  <2>0. /\ k = "body" => t.n = w.cd.parse_msg /\ t.k = "body"
        /\ k = "crc" => t.n = w.cd.parse_msg /\ t.k = "crc"
        /\ k = "ack" => t.n = w.cd.parse_msg /\ t.k = "ack"
        /\ k = "eof0" => t.n = w.cd.parse_msg /\ t.k = "eof0"
        /\ k = "eof1" => t.n = w.cd.parse_msg /\ t.k = "eof1"
        /\ k = "over" => t.n = w.cd.parse_msg /\ t.k = "over"
        /\ k = "rxover" => t.n = w.cd.parse_msg /\ t.k = "rxover"
    BY FieldIs
  <2>1. CASE s = "START"
    BY <1>3, <2>1 DEF process_rx
  <2>2. CASE s = "HEADER"
    <3>1. v = data_state_update_header(w, k)
      BY <1>3, <2>2 DEF process_rx
    <3> HIDE DEF v, k
    <3>2. CASE k = "body"
      <4>1. v = data_state_go_crc(w)
        BY <3>1, <3>2 DEF data_state_update_header
      <4> QED
        BY <2>0, <2>2, <3>2, <4>1 DEF data_state_go_crc, data_state_go_error, v
    <3>3. CASE k # "body"
      BY <3>1, <3>3 DEF data_state_update_header, data_state_go_error, v
    <3> QED
      BY <3>2, <3>3
  <2>3. CASE s = "CRC"
    <3>1. v = data_state_update_crc(w, k)
      BY <1>3, <2>3 DEF process_rx
    <3> HIDE DEF v, k
    <3> QED
      BY <2>0, <2>3, <3>1 DEF data_state_update_crc, data_state_go_error, v
  <2>4. CASE s = "ACK"
    <3>1. v = data_state_update_ack(w, k)
      BY <1>3, <2>4 DEF process_rx
    <3> HIDE DEF v, k
    <3> QED
      BY <2>0, <2>4, <3>1 DEF data_state_update_ack, data_state_go_error, v
  <2>5. CASE s = "EOF0"
    <3>1. v = data_state_update_eof0(w, k)
      BY <1>3, <2>5 DEF process_rx
    <3> HIDE DEF v, k
    <3> QED
      BY <2>0, <2>5, <3>1 DEF data_state_update_eof0, pio_rx_check_stall, data_state_go_error, v
  <2>6. CASE s = "EOF1"
    <3>1. v = data_state_update_eof1(w, k)
      BY <1>3, <2>6 DEF process_rx
    <3> HIDE DEF v, k
    <3>2. CASE k = "eof1"
      BY <2>0, <2>6, <3>1, <3>2 DEF data_state_update_eof1, v
    <3>3. CASE k = "over" \/ (k = "rxover" /\ ~InTx(w.cd.report_state))
      BY <2>0, <2>6, <3>1, <3>3 DEF data_state_update_eof1, v
    <3>4. CASE k # "eof1" /\ ~(k = "over" \/ (k = "rxover" /\ ~InTx(w.cd.report_state)))
      BY <3>1, <3>4 DEF data_state_update_eof1, data_state_go_error, v
    <3> QED
      BY <3>2, <3>3, <3>4
  <2>7. CASE s = "DISCARD"
    <3>1. v = IF t.k = "eof1" THEN TenPassive(w)
              ELSE IF again THEN data_state_go_discard(w) ELSE w
      BY <1>3, <2>7 DEF process_rx
    <3> HIDE DEF v
    <3> QED
      BY <1>5, <2>7, <3>1 DEF v
  <2> QED
    BY <1>0, <2>1, <2>2, <2>3, <2>4, <2>5, <2>6, <2>7
<1> QED
  BY <1>1, <1>2, <1>3, <1>4, <1>6

\* data_state_go_next changes parse_state only.
LEMMA GoNextFields ==
  ASSUME NEW w \in Worlds,
         NEW s \in {"START", "HEADER", "CRC", "ACK", "EOF0", "EOF1", "DISCARD"}
  PROVE  /\ GoNext(w, s) \in Worlds
         /\ GoNext(w, s).cd = [w.cd EXCEPT !.parse_state = s]
         /\ GoNext(w, s).pio = w.pio /\ GoNext(w, s).log = w.log
BY GoNextWorld DEF GoNext, Worlds

\* A new interrupt mask leaves everything else alone.
LEMMA SetMaskFields ==
  ASSUME NEW w \in Worlds, NEW mask \in SUBSET SmIrqs
  PROVE  /\ SetMask(w, mask) \in Worlds
         /\ SetMask(w, mask).cd = w.cd /\ SetMask(w, mask).log = w.log
         /\ SetMask(w, mask).pio = [w.pio EXCEPT !.inte = mask \cup {"RX_DATA"}]
<1>1. mask \in SUBSET AllIrqs
  BY DEF AllIrqs
<1> QED
  BY <1>1, SetMaskWorld DEF SetMask, pio_irq_set, Worlds

\* data_state_update_start: the frame being parsed is the one that started.
LEMMA UpdateStartFields ==
  ASSUME NEW w \in Worlds, NEW n \in Nat
  PROVE  LET v == data_state_update_start(w, n) IN
         /\ v \in Worlds
         /\ v.cd = [w.cd EXCEPT !.parse_state = "HEADER", !.parse_msg = n]
         /\ v.pio = [w.pio EXCEPT !.inte = {"MAYTX"} \cup {"RX_DATA"}] /\ v.log = w.log
<1> DEFINE g == GoNext(w, "HEADER")
           h == [g EXCEPT !.cd.parse_msg = n]
<1>1. /\ g \in Worlds /\ g.cd = [w.cd EXCEPT !.parse_state = "HEADER"]
      /\ g.pio = w.pio /\ g.log = w.log
  BY GoNextFields
<1>2. data_state_update_start(w, n) = SetMask(h, {"MAYTX"})
  BY DEF data_state_update_start
<1> HIDE DEF g
<1>3. /\ h \in Worlds /\ h.pio = w.pio /\ h.log = w.log
      /\ h.cd = [w.cd EXCEPT !.parse_state = "HEADER", !.parse_msg = n]
  BY <1>1 DEF Worlds, CdStates
<1> HIDE DEF h
<1>4. {"MAYTX"} \in SUBSET SmIrqs
  BY DEF SmIrqs
<1> QED
  BY <1>2, <1>3, <1>4, SetMaskFields

\* report_note_crc_start: the report of an own frame, or of another node's, begins.
LEMMA CrcStartFields ==
  ASSUME NEW w \in Worlds, NEW own \in BOOLEAN
  PROVE  LET v == GoNext(report_note_crc_start(w, own), "CRC") IN
         /\ v \in Worlds /\ v.log = w.log
         /\ own => /\ v.cd = [w.cd EXCEPT !.parse_state = "CRC", !.report_state = "TX_ACK",
                                          !.tx_state = "CONFIRM_TX"]
                   /\ v.pio = [w.pio EXCEPT !.match = [kind |-> "txend", n |-> w.cd.parse_msg]]
         /\ ~own => /\ v.cd = [w.cd EXCEPT !.parse_state = "CRC", !.report_state = "RX_ACK"]
                    /\ v.pio = [w.pio EXCEPT !.irqs = w.pio.irqs \cup {"TXPENDING"},
                                             !.inte = {"MAYTX", "TXPENDING"} \cup {"RX_DATA"}]
<1> DEFINE r == SetReport(w, IF own THEN "TX_ACK" ELSE "RX_ACK")
           c == report_note_crc_start(w, own)
<1>1. /\ r \in Worlds /\ r.pio = w.pio /\ r.log = w.log
      /\ r.cd = [w.cd EXCEPT !.report_state = IF own THEN "TX_ACK" ELSE "RX_ACK"]
  BY SetReportWorld DEF SetReport, Worlds
<1>2. CASE own
  <2>1. c = [r EXCEPT !.cd.tx_state = "CONFIRM_TX",
                      !.pio = pio_match_check(r.pio, "txend", w.cd.parse_msg)]
    BY <1>1, <1>2 DEF report_note_crc_start, Worlds
  <2>2. /\ pio_match_check(r.pio, "txend", w.cd.parse_msg) \in PioStates
        /\ pio_match_check(r.pio, "txend", w.cd.parse_msg)
             = [w.pio EXCEPT !.match = [kind |-> "txend", n |-> w.cd.parse_msg]]
    BY <1>1 DEF pio_match_check, Worlds, PioStates, MatchKinds, CdStates
  <2> HIDE DEF c, r
  <2>3. /\ c \in Worlds /\ c.log = w.log
        /\ c.cd = [w.cd EXCEPT !.report_state = "TX_ACK", !.tx_state = "CONFIRM_TX"]
        /\ c.pio = [w.pio EXCEPT !.match = [kind |-> "txend", n |-> w.cd.parse_msg]]
    BY <1>1, <1>2, <2>1, <2>2 DEF Worlds, CdStates
  <2>4. /\ GoNext(c, "CRC") \in Worlds /\ GoNext(c, "CRC").pio = c.pio
        /\ GoNext(c, "CRC").log = w.log
        /\ GoNext(c, "CRC").cd = [w.cd EXCEPT !.parse_state = "CRC", !.report_state = "TX_ACK",
                                              !.tx_state = "CONFIRM_TX"]
    <3>1. /\ GoNext(c, "CRC") \in Worlds /\ GoNext(c, "CRC").pio = c.pio
          /\ GoNext(c, "CRC").log = c.log
          /\ GoNext(c, "CRC").cd = [c.cd EXCEPT !.parse_state = "CRC"]
      BY <2>3, GoNextFields
    <3>2. [c.cd EXCEPT !.parse_state = "CRC"]
            = [w.cd EXCEPT !.parse_state = "CRC", !.report_state = "TX_ACK",
                           !.tx_state = "CONFIRM_TX"]
      BY <2>3 DEF Worlds, CdStates
    <3> QED
      BY <2>3, <3>1, <3>2
  <2> QED
    BY <1>2, <2>3, <2>4 DEF c
<1>3. CASE ~own
  <2> DEFINE p == pio_irq_set(pio_signal_set_txpending(r.pio), {"MAYTX", "TXPENDING"})
  <2>1. c = [r EXCEPT !.pio = p]
    BY <1>1, <1>3 DEF report_note_crc_start, Worlds
  <2>2. /\ p \in PioStates
        /\ p = [w.pio EXCEPT !.irqs = w.pio.irqs \cup {"TXPENDING"},
                             !.inte = {"MAYTX", "TXPENDING"} \cup {"RX_DATA"}]
    BY <1>1 DEF pio_irq_set, pio_signal_set_txpending, Worlds, PioStates, AllIrqs, SmIrqs
  <2> HIDE DEF c, r, p
  <2>3. c \in Worlds /\ c.cd = r.cd /\ c.pio = p /\ c.log = w.log
    BY <1>1, <2>1, <2>2 DEF Worlds
  <2>4. /\ GoNext(c, "CRC") \in Worlds /\ GoNext(c, "CRC").pio = c.pio
        /\ GoNext(c, "CRC").log = w.log
        /\ GoNext(c, "CRC").cd = [w.cd EXCEPT !.parse_state = "CRC", !.report_state = "RX_ACK"]
    <3>1. /\ GoNext(c, "CRC") \in Worlds /\ GoNext(c, "CRC").pio = c.pio
          /\ GoNext(c, "CRC").log = c.log
          /\ GoNext(c, "CRC").cd = [c.cd EXCEPT !.parse_state = "CRC"]
      BY <2>3, GoNextFields
    <3>2. [c.cd EXCEPT !.parse_state = "CRC"]
            = [w.cd EXCEPT !.parse_state = "CRC", !.report_state = "RX_ACK"]
      BY <1>1, <1>3, <2>3 DEF Worlds, CdStates
    <3> QED
      BY <2>3, <3>1, <3>2
  <2> QED
    BY <1>3, <2>2, <2>3, <2>4 DEF c
<1> QED
  BY <1>2, <1>3

\* report_note_crc_success only changes the mask, and only while an own frame is reported.
LEMMA CrcSuccessFields ==
  ASSUME NEW w \in Worlds
  PROVE  LET v == report_note_crc_success(w) IN
         /\ v \in Worlds /\ v.cd = w.cd /\ v.log = w.log
         /\ v.pio = IF w.cd.report_state = "TX_ACK"
                    THEN [w.pio EXCEPT !.inte = {"MAYTX", "MATCHED"} \cup {"RX_DATA"}] ELSE w.pio
<1>1. {"MAYTX", "MATCHED"} \in SUBSET SmIrqs
  BY DEF SmIrqs
<1> QED
  BY <1>1, SetMaskFields DEF report_note_crc_success

\* report_note_ack_success advances a report that has begun.
LEMMA AckSuccessFields ==
  ASSUME NEW w \in Worlds
  PROVE  LET v == report_note_ack_success(w)
             r == IF w.cd.report_state = "IDLE" THEN "IDLE" ELSE WithEof(w.cd.report_state)
         IN v \in Worlds /\ v.cd = [w.cd EXCEPT !.report_state = r] /\ v.pio = w.pio /\ v.log = w.log
<1>1. CASE w.cd.report_state = "IDLE"
  BY <1>1 DEF report_note_ack_success, Worlds, CdStates
<1>2. CASE w.cd.report_state # "IDLE"
  <2>1. WithEof(w.cd.report_state) \in {"TX_EOF", "RX_EOF"}
    BY DEF WithEof
  <2> QED
    BY <1>2, <2>1, SetReportWorld DEF report_note_ack_success, SetReport, Worlds
<1> QED
  BY <1>1, <1>2

\* report_note_eof_success: the callback of a complete report, and the mask of a quiet line.
LEMMA EofSuccessFields ==
  ASSUME NEW w \in Worlds
  PROVE  LET v == report_note_eof_success(w) IN
         /\ v \in Worlds
         /\ v.cd = [w.cd EXCEPT !.report_state = "IDLE",
                      !.tx_pull_pos = IF w.cd.report_state = "TX_EOF"
                                      THEN Next1(w.cd.tx_pull_pos) ELSE w.cd.tx_pull_pos]
         /\ v.pio = IF w.cd.report_state = "IDLE" THEN w.pio
                    ELSE [w.pio EXCEPT !.match = NoKey, !.inte = {"TXPENDING"} \cup {"RX_DATA"}]
         /\ v.log.tx = IF w.cd.report_state = "TX_EOF"
                       THEN Append(w.log.tx, w.cd.parse_msg) ELSE w.log.tx
         /\ v.log.rx = IF w.cd.report_state = "RX_EOF"
                       THEN Append(w.log.rx, w.cd.parse_msg) ELSE w.log.rx
         /\ v.log.err = w.log.err
<1>1. CASE w.cd.report_state = "IDLE"
  <2>1. [w.cd EXCEPT !.report_state = "IDLE", !.tx_pull_pos = w.cd.tx_pull_pos] = w.cd
    BY <1>1 DEF Worlds, CdStates
  <2> QED
    BY <1>1, <2>1 DEF report_note_eof_success
<1>2. CASE w.cd.report_state # "IDLE"
  <2> DEFINE h == report_handle_eof(w)
  <2>1. /\ h \in Worlds
        /\ h.cd = [w.cd EXCEPT !.report_state = "IDLE",
                     !.tx_pull_pos = IF w.cd.report_state = "TX_EOF"
                                     THEN Next1(w.cd.tx_pull_pos) ELSE w.cd.tx_pull_pos]
        /\ h.pio = [w.pio EXCEPT !.match = NoKey]
        /\ h.log.tx = IF w.cd.report_state = "TX_EOF"
                      THEN Append(w.log.tx, w.cd.parse_msg) ELSE w.log.tx
        /\ h.log.rx = IF w.cd.report_state = "RX_EOF"
                      THEN Append(w.log.rx, w.cd.parse_msg) ELSE w.log.rx
        /\ h.log.err = w.log.err
    BY HandleEofFields
  <2>2. report_note_eof_success(w) = SetMask(h, {"TXPENDING"})
    BY <1>2 DEF report_note_eof_success
  <2> HIDE DEF h
  <2>3. {"TXPENDING"} \in SUBSET SmIrqs
    BY DEF SmIrqs
  <2>4. /\ SetMask(h, {"TXPENDING"}) \in Worlds
        /\ SetMask(h, {"TXPENDING"}).cd = h.cd /\ SetMask(h, {"TXPENDING"}).log = h.log
        /\ SetMask(h, {"TXPENDING"}).pio = [h.pio EXCEPT !.inte = {"TXPENDING"} \cup {"RX_DATA"}]
    BY <2>1, <2>3, SetMaskFields
  <2>5. [h.pio EXCEPT !.inte = {"TXPENDING"} \cup {"RX_DATA"}]
          = [w.pio EXCEPT !.match = NoKey, !.inte = {"TXPENDING"} \cup {"RX_DATA"}]
    BY <2>1 DEF Worlds, PioStates
  <2> QED
    BY <1>2, <2>1, <2>2, <2>4, <2>5
<1> QED
  BY <1>1, <1>2
-----------------------------------------------------------------------------
(* What the driver's functions do to the queue.                            *)

(* Every word but those of an idle line belongs to a frame of the wire.    *)
Passive == {"idle", "long"}
Known(s) == \A i \in DOMAIN s : s[i].k \notin Passive => s[i].n \in DOMAIN line.frames

(* While a message is queued, the "tx" machine has the head of the queue;  *)
(* while a report of an own frame is pending, the frame that is reported   *)
(* is the head of the queue.                                               *)
Sent(w) ==
  /\ Known(w.pio.fifo) /\ Known(w.pio.isr)
  /\ w.cd.parse_state \notin {"DISCARD", "START"} => w.cd.parse_msg \in DOMAIN line.frames
  /\ \A i \in DOMAIN w.log.tx : w.log.tx[i] \in DOMAIN line.frames
  /\ w.cd.tx_state = "QUEUED" =>
       w.cd.tx_push_pos # w.cd.tx_pull_pos /\ w.pio.txmsg = SlotMsg(w.cd)
  /\ InTx(w.cd.report_state) =>
       w.cd.tx_push_pos # w.cd.tx_pull_pos /\ line.frames[w.cd.parse_msg].msg = SlotMsg(w.cd)

(* A function leaves queue and confirmations alone, or confirms the head.  *)
Same(w, v) ==
  /\ v.cd.tx_push_pos = w.cd.tx_push_pos /\ v.cd.tx_pull_pos = w.cd.tx_pull_pos
  /\ v.cd.tx_queue = w.cd.tx_queue /\ v.log.tx = w.log.tx

Confirms(w, v) ==
  /\ InTx(w.cd.report_state)
  /\ v.cd.tx_push_pos = w.cd.tx_push_pos /\ v.cd.tx_queue = w.cd.tx_queue
  /\ v.cd.tx_pull_pos = Next1(w.cd.tx_pull_pos)
  /\ v.log.tx = Append(w.log.tx, w.cd.parse_msg)

Serve(w, v) == Sent(v) /\ (Same(w, v) \/ Confirms(w, v))

PartsOfPio(w, v) ==
  /\ v.pio.fifo = w.pio.fifo \/ v.pio.fifo = <<>>
  /\ v.pio.isr = w.pio.isr \/ v.pio.isr = <<>>
  /\ v.pio.txmsg = w.pio.txmsg

\* A function that neither touches the queue nor starts a report keeps Sent.
LEMMA SentKept ==
  ASSUME NEW w, NEW v, Sent(w), Same(w, v), PartsOfPio(w, v),
         v.cd.parse_state \notin {"DISCARD", "START"} => v.cd.parse_msg \in DOMAIN line.frames,
         v.cd.tx_state = "QUEUED" => w.cd.tx_state = "QUEUED",
         InTx(v.cd.report_state) =>
           InTx(w.cd.report_state) /\ v.cd.parse_msg = w.cd.parse_msg
  PROVE  Serve(w, v)
<1>1. Known(<<>>)
  BY DEF Known
<1>2. Known(v.pio.fifo) /\ Known(v.pio.isr)
  BY <1>1 DEF Sent, PartsOfPio
<1>3. SlotMsg(v.cd) = SlotMsg(w.cd) /\ v.pio.txmsg = w.pio.txmsg /\ v.log.tx = w.log.tx
  BY DEF SlotMsg, Same, PartsOfPio
<1> QED
  BY <1>2, <1>3 DEF Sent, Same, Serve

\* The end of a report: the callback for an own frame confirms the head of the queue.
LEMMA SentEnds ==
  ASSUME NEW w \in Worlds, NEW v \in Worlds, Sent(w), Confirming(w), PartsOfPio(w, v),
         w.cd.report_state # "IDLE" => w.cd.parse_msg \in DOMAIN line.frames,
         v.cd = [w.cd EXCEPT !.report_state = "IDLE",
                   !.tx_pull_pos = IF w.cd.report_state = "TX_EOF"
                                   THEN Next1(w.cd.tx_pull_pos) ELSE w.cd.tx_pull_pos],
         v.log.tx = IF w.cd.report_state = "TX_EOF"
                    THEN Append(w.log.tx, w.cd.parse_msg) ELSE w.log.tx
  PROVE  Serve(w, v)
<1>1. /\ v.cd.report_state = "IDLE" /\ v.cd.parse_state = w.cd.parse_state
      /\ v.cd.parse_msg = w.cd.parse_msg /\ v.cd.tx_state = w.cd.tx_state
      /\ v.cd.tx_push_pos = w.cd.tx_push_pos /\ v.cd.tx_queue = w.cd.tx_queue
      /\ v.cd.tx_pull_pos = IF w.cd.report_state = "TX_EOF"
                            THEN Next1(w.cd.tx_pull_pos) ELSE w.cd.tx_pull_pos
  BY DEF Worlds, CdStates
<1>2. CASE w.cd.report_state # "TX_EOF"
  <2>1. Same(w, v)
    BY <1>1, <1>2 DEF Same
  <2> QED
    BY <1>1, <2>1, SentKept DEF Sent, InTx
<1>3. CASE w.cd.report_state = "TX_EOF"
  <2>1. InTx(w.cd.report_state) /\ w.cd.tx_state = "CONFIRM_TX"
    BY <1>3 DEF InTx, Confirming
  <2>2. Confirms(w, v)
    BY <1>1, <1>3, <2>1 DEF Confirms
  <2>3. Known(<<>>)
    BY DEF Known
  <2>4. Known(v.pio.fifo) /\ Known(v.pio.isr)
    BY <2>3 DEF Sent, PartsOfPio
  <2>5. \A i \in DOMAIN v.log.tx : v.log.tx[i] \in DOMAIN line.frames
    <3>1. w.log.tx \in Seq(Nat) /\ w.cd.parse_msg \in DOMAIN line.frames
      BY <1>3 DEF Worlds, LogStates
    <3>2. w.cd.parse_msg \in Nat
      BY DEF Worlds, CdStates
    <3>3. v.log.tx = Append(w.log.tx, w.cd.parse_msg)
      BY <1>3
    <3> QED
      BY <3>1, <3>2, <3>3 DEF Sent
  <2> QED
    BY <1>1, <2>1, <2>2, <2>4, <2>5 DEF Sent, Serve, InTx
<1> QED
  BY <1>2, <1>3

\* One word of the rx fifo leaves the queue alone or confirms its head.
LEMMA ProcessRxServes ==
  ASSUME NEW w \in Worlds, ParserInv(w), Sent(w), NEW t \in Tokens, NEW again \in BOOLEAN,
         t.k \notin Passive => t.n \in DOMAIN line.frames
  PROVE  Serve(w, process_rx(w, t, again))
<1> DEFINE v == process_rx(w, t, again)
           s == w.cd.parse_state
           mine == t.n = w.cd.parse_msg
<1>0. w.cd \in CdStates /\ w.pio \in PioStates /\ t.n \in Nat
  BY DEF Worlds, Tokens
<1>1. ASSUME NEW u \in Worlds, Sent(u) PROVE Serve(u, data_state_go_discard(u))
  <2> DEFINE d == data_state_go_discard(u)
  <2>1. /\ d.cd = [u.cd EXCEPT !.parse_state = "DISCARD", !.report_state = "IDLE"]
        /\ d.log.tx = u.log.tx /\ d.pio.txmsg = u.pio.txmsg
        /\ d.pio.fifo = u.pio.fifo \/ d.pio.fifo = <<>>
        /\ d.pio.isr = u.pio.isr \/ d.pio.isr = <<>>
    BY DiscardFields DEF Worlds, PioStates
  <2> HIDE DEF d
  <2>2. /\ d.cd.parse_state = "DISCARD" /\ d.cd.report_state = "IDLE"
        /\ d.cd.tx_state = u.cd.tx_state /\ Same(u, d) /\ PartsOfPio(u, d)
    BY <2>1 DEF Worlds, CdStates, Same, PartsOfPio
  <2>3. Serve(u, d)
    BY <1>1, <2>2, SentKept DEF InTx
  <2> QED
    BY <2>3 DEF d
<1>2. ASSUME NEW u \in Worlds, Sent(u), NEW p \in {"START", "HEADER", "CRC", "ACK", "EOF0", "EOF1"},
             p # "START" => u.cd.parse_msg \in DOMAIN line.frames
      PROVE  Serve(u, GoNext(u, p))
  <2> DEFINE d == GoNext(u, p)
  <2>0. u \in Worlds /\ p \in {"START", "HEADER", "CRC", "ACK", "EOF0", "EOF1", "DISCARD"}
    BY <1>2
  <2>1. d.cd = [u.cd EXCEPT !.parse_state = p] /\ d.pio = u.pio /\ d.log = u.log
    BY <2>0, GoNextFields
  <2> HIDE DEF d
  <2>2. /\ d.cd.parse_state = p /\ d.cd.report_state = u.cd.report_state
        /\ d.cd.tx_state = u.cd.tx_state /\ d.cd.parse_msg = u.cd.parse_msg
        /\ Same(u, d) /\ PartsOfPio(u, d)
    BY <2>1 DEF Worlds, CdStates, Same, PartsOfPio
  <2>3. Serve(u, d)
    BY <1>2, <2>2, SentKept
  <2> QED
    BY <2>3 DEF d
<1>3. ASSUME NEW u, NEW x, NEW y, Serve(u, x), Same(x, y), Sent(y) PROVE Serve(u, y)
  BY <1>3 DEF Serve, Same, Confirms
<1>4. ASSUME NEW u, NEW x, NEW y, Serve(u, x), Serve(x, y), ~InTx(x.cd.report_state)
      PROVE  Serve(u, y)
  BY <1>3, <1>4 DEF Serve, Confirms
<1>5. CASE v = data_state_go_discard(w)
  BY <1>1, <1>5
<1>6. CASE v = w
  BY <1>6 DEF Serve, Same
<1>7. CASE v = GoNext(w, "START")
  BY <1>2, <1>7
<1>15. CASE v = GoNext(data_state_go_discard(w), "START")
  <2> DEFINE d == data_state_go_discard(w)
  <2>1. d \in Worlds /\ d.cd = [w.cd EXCEPT !.parse_state = "DISCARD", !.report_state = "IDLE"]
    BY DiscardFields
  <2>2. Serve(w, d)
    BY <1>1
  <2> HIDE DEF d
  <2>3. Sent(d) /\ ~InTx(d.cd.report_state)
    BY <1>0, <2>1, <2>2 DEF Serve, InTx, CdStates
  <2>4. Serve(d, GoNext(d, "START"))
    BY <1>2, <2>1, <2>3
  <2> QED
    BY <1>4, <1>15, <2>2, <2>3, <2>4 DEF d
<1>16. CASE v = data_state_go_discard(Restart(w))
  <2> DEFINE u == Restart(w)
  <2>1. /\ u \in Worlds /\ u.cd = w.cd /\ u.log = w.log /\ u.pio.fifo = <<>> /\ u.pio.isr = <<>>
        /\ u.pio.txmsg = w.pio.txmsg
    BY RestartFields
  <2> HIDE DEF u
  <2>2. Same(w, u) /\ PartsOfPio(w, u)
    BY <2>1 DEF Same, PartsOfPio
  <2>3. Serve(w, u)
    BY <2>1, <2>2, SentKept DEF Sent
  <2>4. Sent(u)
    BY <2>3 DEF Serve
  <2>5. Serve(u, data_state_go_discard(u))
    BY <1>1, <2>1, <2>4
  <2> QED
    BY <1>16, <2>1, <2>2, <2>5 DEF Serve, Same, Confirms, u
<1>8. CASE t.k \notin Passive /\ v = data_state_update_start(w, t.n) /\ s = "START"
  <2> HIDE DEF v
  <2>1. /\ v.cd = [w.cd EXCEPT !.parse_state = "HEADER", !.parse_msg = t.n]
        /\ v.pio = [w.pio EXCEPT !.inte = {"MAYTX"} \cup {"RX_DATA"}] /\ v.log = w.log
    BY <1>0, <1>8, UpdateStartFields
  <2>2. /\ v.cd.parse_msg = t.n /\ v.cd.report_state = w.cd.report_state
        /\ v.cd.tx_state = w.cd.tx_state /\ Same(w, v) /\ PartsOfPio(w, v)
    BY <1>0, <2>1 DEF CdStates, PioStates, Same, PartsOfPio
  <2>3. ~InTx(v.cd.report_state)
    BY <1>8, <2>2 DEF ParserInv, InTx
  <2> QED
    BY <1>8, <2>2, <2>3, SentKept DEF v
<1>9. CASE /\ s = "HEADER" /\ tx_check_local_message(w) # -1
           /\ v = GoNext(report_note_crc_start(w, tx_check_local_message(w) = 1), "CRC")
  <2>0. w.cd.report_state = "IDLE" /\ w.cd.parse_msg \in DOMAIN line.frames
    BY <1>9 DEF ParserInv, Sent
  <2>1. CASE tx_check_local_message(w) = 1
    <3>1. /\ w.cd.tx_state = "QUEUED"
          /\ SlotMsg(w.cd) = line.frames[w.cd.parse_msg].msg
      BY <2>1 DEF tx_check_local_message
    <3>2. /\ v.cd = [w.cd EXCEPT !.parse_state = "CRC", !.report_state = "TX_ACK",
                                 !.tx_state = "CONFIRM_TX"]
          /\ v.pio = [w.pio EXCEPT !.match = [kind |-> "txend", n |-> w.cd.parse_msg]]
          /\ v.log = w.log
      BY <1>9, <2>1, CrcStartFields
    <3> HIDE DEF v
    <3>3. /\ v.cd.parse_msg = w.cd.parse_msg /\ v.cd.tx_state = "CONFIRM_TX"
          /\ Same(w, v) /\ v.pio.fifo = w.pio.fifo /\ v.pio.isr = w.pio.isr
      BY <1>0, <3>2 DEF CdStates, PioStates, Same
    <3>4. SlotMsg(v.cd) = SlotMsg(w.cd)
      BY <3>3 DEF Same, SlotMsg
    <3> QED
      BY <2>0, <3>1, <3>2, <3>3, <3>4 DEF Sent, Serve, Same, v
  <2>2. CASE tx_check_local_message(w) # 1
    <3>1. /\ v.cd = [w.cd EXCEPT !.parse_state = "CRC", !.report_state = "RX_ACK"]
          /\ v.pio = [w.pio EXCEPT !.irqs = w.pio.irqs \cup {"TXPENDING"},
                                   !.inte = {"MAYTX", "TXPENDING"} \cup {"RX_DATA"}]
          /\ v.log = w.log
      BY <1>9, <2>2, CrcStartFields
    <3> HIDE DEF v
    <3>2. /\ v.cd.parse_msg = w.cd.parse_msg /\ v.cd.report_state = "RX_ACK"
          /\ v.cd.tx_state = w.cd.tx_state /\ Same(w, v) /\ PartsOfPio(w, v)
      BY <1>0, <3>1 DEF CdStates, PioStates, Same, PartsOfPio
    <3> QED
      BY <2>0, <3>2, SentKept DEF InTx, v
  <2> QED
    BY <2>1, <2>2
<1>10. CASE s = "CRC" /\ v = GoNext(report_note_crc_success(w), "ACK")
  <2> DEFINE r == report_note_crc_success(w)
  <2>1. /\ r \in Worlds /\ r.cd = w.cd /\ r.log = w.log
        /\ r.pio = IF w.cd.report_state = "TX_ACK"
                   THEN [w.pio EXCEPT !.inte = {"MAYTX", "MATCHED"} \cup {"RX_DATA"}] ELSE w.pio
    BY CrcSuccessFields
  <2> HIDE DEF r
  <2>2. Same(w, r) /\ PartsOfPio(w, r)
    BY <1>0, <2>1 DEF PioStates, Same, PartsOfPio
  <2>3. Serve(w, r) /\ r.cd.parse_msg \in DOMAIN line.frames
    BY <1>10, <2>1, <2>2, SentKept DEF Sent
  <2>4. GoNext(r, "ACK").cd = [r.cd EXCEPT !.parse_state = "ACK"] /\ GoNext(r, "ACK").log = r.log
    BY <2>1, GoNextFields
  <2>5. Same(r, GoNext(r, "ACK"))
    BY <2>1, <2>4 DEF Same, Worlds, CdStates
  <2> QED
    BY <1>2, <1>3, <1>10, <2>1, <2>3, <2>5 DEF r, Serve
<1>11. CASE s = "ACK" /\ v = GoNext(report_note_ack_success(w), "EOF0")
  <2> DEFINE r == report_note_ack_success(w)
             e == IF w.cd.report_state = "IDLE" THEN "IDLE" ELSE WithEof(w.cd.report_state)
  <2>1. /\ r \in Worlds /\ r.cd = [w.cd EXCEPT !.report_state = e]
        /\ r.log = w.log /\ r.pio = w.pio
    BY AckSuccessFields
  <2>2. InTx(e) => InTx(w.cd.report_state)
    BY DEF InTx, WithEof
  <2> HIDE DEF r, e
  <2>3. /\ Same(w, r) /\ PartsOfPio(w, r) /\ r.cd.parse_msg = w.cd.parse_msg
        /\ r.cd.tx_state = w.cd.tx_state /\ r.cd.report_state = e /\ r.cd.parse_state = "ACK"
    BY <1>0, <1>11, <2>1 DEF CdStates, Same, PartsOfPio
  <2>4. Serve(w, r) /\ r.cd.parse_msg \in DOMAIN line.frames
    BY <1>11, <2>2, <2>3, SentKept DEF Sent
  <2>5. GoNext(r, "EOF0").cd = [r.cd EXCEPT !.parse_state = "EOF0"] /\ GoNext(r, "EOF0").log = r.log
    BY <2>1, GoNextFields
  <2>6. Same(r, GoNext(r, "EOF0"))
    BY <2>1, <2>5 DEF Same, Worlds, CdStates
  <2> QED
    BY <1>2, <1>3, <1>11, <2>1, <2>4, <2>6 DEF r, Serve
<1>12. CASE s = "EOF0" /\ v = GoNext(w, "EOF1")
  BY <1>2, <1>12 DEF Sent
<1>13. CASE s = "EOF1" /\ v \in {GoNext(report_note_eof_success(w), "START"),
                                 data_state_go_discard(report_note_eof_success(w))}
  <2> DEFINE r == report_note_eof_success(w)
  <2>1. /\ r \in Worlds
        /\ r.cd = [w.cd EXCEPT !.report_state = "IDLE",
                     !.tx_pull_pos = IF w.cd.report_state = "TX_EOF"
                                     THEN Next1(w.cd.tx_pull_pos) ELSE w.cd.tx_pull_pos]
        /\ r.pio = IF w.cd.report_state = "IDLE" THEN w.pio
                   ELSE [w.pio EXCEPT !.match = NoKey, !.inte = {"TXPENDING"} \cup {"RX_DATA"}]
        /\ r.log.tx = IF w.cd.report_state = "TX_EOF"
                      THEN Append(w.log.tx, w.cd.parse_msg) ELSE w.log.tx
    BY EofSuccessFields
  <2>2. w.cd.parse_msg \in DOMAIN line.frames /\ Confirming(w)
    BY <1>13 DEF Sent, ParserInv, Confirming
  <2>3. v \in {GoNext(r, "START"), data_state_go_discard(r)}
    BY <1>13
  <2> HIDE DEF r, v
  <2>4. PartsOfPio(w, r) /\ ~InTx(r.cd.report_state)
    BY <1>0, <2>1 DEF PartsOfPio, PioStates, CdStates, InTx
  <2>5. Serve(w, r)
    BY <2>1, <2>2, <2>4, SentEnds
  <2>6. Serve(r, GoNext(r, "START")) /\ Serve(r, data_state_go_discard(r))
    BY <1>1, <1>2, <2>1, <2>5 DEF Serve
  <2> QED
    BY <1>4, <2>3, <2>4, <2>5, <2>6 DEF v
<1>14. t.k \notin {"err", "pas", "idle", "long"} => t.k \notin Passive
  BY DEF Passive
<1>17. \/ v = data_state_go_discard(w) \/ v = w \/ v = GoNext(w, "START")
       \/ v = GoNext(data_state_go_discard(w), "START") \/ v = data_state_go_discard(Restart(w))
       \/ t.k \notin Passive /\ v = data_state_update_start(w, t.n) /\ s = "START"
       \/ /\ s = "HEADER" /\ tx_check_local_message(w) # -1
          /\ v = GoNext(report_note_crc_start(w, tx_check_local_message(w) = 1), "CRC")
       \/ s = "CRC" /\ v = GoNext(report_note_crc_success(w), "ACK")
       \/ s = "ACK" /\ v = GoNext(report_note_ack_success(w), "EOF0")
       \/ s = "EOF0" /\ v = GoNext(w, "EOF1")
       \/ s = "EOF1" /\ v \in {GoNext(report_note_eof_success(w), "START"),
                               data_state_go_discard(report_note_eof_success(w))}
  BY <1>14, ProcessRxCases
<1> QED
  BY <1>5, <1>6, <1>7, <1>8, <1>9, <1>10, <1>11, <1>12, <1>13, <1>15,
     <1>16, <1>17
-----------------------------------------------------------------------------
(* What the wire does to the frames.                                       *)

(* Frames are only added, and who sent what does not change.               *)
FramesGrow ==
  /\ DOMAIN line.frames \subseteq DOMAIN line.frames'
  /\ \A n \in DOMAIN line.frames : /\ line.frames'[n].msg = line.frames[n].msg
                                   /\ line.frames'[n].src = line.frames[n].src

\* Every step of a frame on the wire samples at most one more word of that frame.
LEMMA FrameStepShape ==
  ASSUME WireTyped, FrameStep
  PROVE  /\ line'.frames = line.frames \/
            \E f \in Frames : /\ line'.frames = [line.frames EXCEPT ![Last] = f]
                              /\ f.msg = Frame.msg /\ f.src = Frame.src
         /\ pio'.isr = pio.isr \/ \E k \in Kinds : pio'.isr = Sampled(k, Last)
         /\ pio'.fifo = pio.fifo /\ pio'.txmsg = pio.txmsg
         /\ line.frames # <<>>
<1> DEFINE LineShape == line'.frames = line.frames \/
                        \E f \in Frames : /\ line'.frames = [line.frames EXCEPT ![Last] = f]
                                          /\ f.msg = Frame.msg /\ f.src = Frame.src
           PioShape == /\ pio'.isr = pio.isr \/ \E k \in Kinds : pio'.isr = Sampled(k, Last)
                       /\ pio'.fifo = pio.fifo /\ pio'.txmsg = pio.txmsg
           Shape == LineShape /\ PioShape /\ line.frames # <<>>
<1> SUFFICES Shape
  OBVIOUS
<1> USE DEF WireTyped
<1>0. /\ pio \in PioStates /\ line \in LineStates
      /\ line.phase # "idle" => line.frames # <<>> /\ Last \in DOMAIN line.frames /\ Frame \in Frames
  BY FrameUpdateType DEF FrameThere
<1>1. ASSUME NEW k \in {"body", "rsv"}, SendBody(k) PROVE Shape
  BY <1>0, <1>1 DEF SendBody, PioStates, LineStates, Kinds
<1>2. ASSUME NEW k \in {"crc", "badcrc"}, SendCrc(k) PROVE Shape
  <2>1. LineShape /\ line.frames # <<>>
    BY <1>0, <1>2 DEF SendCrc, LineStates
  <2>2. CASE k = "crc"
    <3>1. PICK left \in BOOLEAN :
            pio' = [pio EXCEPT !.isr = Sampled("crc", Last), !.irqs = MatchIrqs("inject"),
                               !.txsm = MatchTxSm("inject"), !.match = MatchLeft("inject"),
                               !.sync = "count", !.flevel = left]
      BY <1>0, <1>2, <2>2, SendCrcIs
    <3>2. "crc" \in Kinds /\ pio'.isr = Sampled("crc", Last)
      BY <1>0, <3>1 DEF PioStates, Kinds
    <3> QED
      BY <1>0, <2>1, <3>1, <3>2 DEF PioStates
  <2>3. CASE k # "crc"
    <3>1. PICK left \in BOOLEAN :
            pio' = [pio EXCEPT !.isr = Sampled(k, Last), !.sync = "count", !.flevel = left]
      BY <1>0, <1>2, <2>3, SendCrcIs
    <3>2. k \in Kinds /\ pio'.isr = Sampled(k, Last)
      BY <1>0, <3>1 DEF PioStates, Kinds
    <3> QED
      BY <1>0, <2>1, <3>1, <3>2 DEF PioStates
  <2> QED
    BY <2>2, <2>3
<1>3. ASSUME NEW others \in BOOLEAN, NEW txend \in {"conflict", "drained"}, AckSlot(others, txend)
      PROVE  Shape
  <2> DEFINE us == pio.txsm = "acking"
             f == [Frame EXCEPT !.ack = IF us THEN "us" ELSE IF others THEN "other" ELSE "none"]
             k == IF us \/ others THEN "ack" ELSE "noack"
  <2>1. line.phase # "idle"
    BY <1>3 DEF AckSlot
  <2>2. f \in Frames /\ f.msg = Frame.msg /\ f.src = Frame.src
    BY <1>0, <2>1 DEF Frames
  <2>3. line'.frames = [line.frames EXCEPT ![Last] = f]
    BY <1>0, <1>3, <2>1 DEF AckSlot, Frame, LineStates
  <2>4. k \in Kinds
    BY DEF Kinds
  <2>5. pio'.isr = Sampled(k, Last) /\ pio'.fifo = pio.fifo /\ pio'.txmsg = pio.txmsg
    BY <1>0, <1>3 DEF AckSlot, PioStates
  <2> HIDE DEF f, k
  <2> QED
    BY <1>0, <2>1, <2>2, <2>3, <2>4, <2>5
<1>4. CASE EofBit4
  BY <1>0, <1>4 DEF EofBit4, PioStates, LineStates, Kinds
<1>5. ASSUME NEW phase, NEW ok \in {"rx", "tx"}, line.phase # "idle",
             line' = [line EXCEPT !.phase = phase,
                        !.frames[Last].ok = IF Frame.ack = "none" THEN @ ELSE ok]
      PROVE  LineShape
  <2> DEFINE f == [Frame EXCEPT !.ok = IF Frame.ack = "none" THEN Frame.ok ELSE ok]
  <2>1. f \in Frames /\ f.msg = Frame.msg /\ f.src = Frame.src
    BY <1>0, <1>5 DEF Frames
  <2>2. line'.frames = [line.frames EXCEPT ![Last] = f]
    BY <1>0, <1>5 DEF Frame, LineStates
  <2> HIDE DEF f
  <2> QED
    BY <2>1, <2>2
<1>6. CASE EofBit6
  <2>1. LineShape
    BY <1>5, <1>6 DEF EofBit6
  <2>2. PioShape /\ line.frames # <<>>
    BY <1>0, <1>6 DEF EofBit6, PioStates
  <2> QED
    BY <2>1, <2>2
<1>7. CASE EofBit7
  <2>1. LineShape
    BY <1>5, <1>7 DEF EofBit7
  <2>2. PioShape /\ line.frames # <<>>
    <3>1. line.frames # <<>>
      BY <1>0, <1>7 DEF EofBit7
    <3>2. CASE Frame.ack # "none"
      BY <1>0, <1>7, <3>1, <3>2 DEF EofBit7, PioStates
    <3>3. CASE Frame.ack = "none"
      BY <1>7, <3>1, <3>3 DEF EofBit7
    <3> QED
      BY <3>2, <3>3
  <2> QED
    BY <2>1, <2>2
<1>8. CASE Intermission
  BY <1>0, <1>8 DEF Intermission, PioStates, LineStates, Kinds
<1>9. CASE Overload
  <2>1. (IF line.phase = "eof6" THEN "rxover" ELSE "over") \in Kinds
    BY DEF Kinds
  <2>2. LineShape /\ line.frames # <<>>
    BY <1>0, <1>9 DEF Overload, LineStates
  <2>3. PioShape
    BY <1>0, <1>9, <2>1 DEF Overload, PioStates
  <2> QED
    BY <2>2, <2>3
<1>10. ASSUME NEW k \in {"err", "pas"}, Disturb(k) PROVE Shape
  <2>1. k \in Kinds
    BY <1>10 DEF Kinds
  <2>2. LineShape /\ line.frames # <<>>
    BY <1>0, <1>10 DEF Disturb, LineStates
  <2>3. PioShape
    BY <1>0, <1>10, <2>1 DEF Disturb, PioStates
  <2> QED
    BY <2>2, <2>3
<1>11. CASE RecoverLine
  BY <1>0, <1>11 DEF RecoverLine, PioStates, LineStates, Kinds
<1> HIDE DEF Shape
<1> QED
  BY <1>1, <1>2, <1>3, <1>4, <1>6, <1>7, <1>8, <1>9, <1>10, <1>11 DEF FrameStep

\* An element of two sequences joined is an element of the one or the other.
LEMMA JoinedAt ==
  ASSUME NEW S, NEW a \in Seq(S), NEW b \in Seq(S), NEW i \in DOMAIN (a \o b)
  PROVE  \/ i \in DOMAIN a /\ (a \o b)[i] = a[i]
         \/ i - Len(a) \in DOMAIN b /\ (a \o b)[i] = b[i - Len(a)]
OBVIOUS

\* Words of the wire belong to frames of the wire.
LEMMA WireFrames ==
  ASSUME WireTyped, WireNext, Known(pio.fifo), Known(pio.isr)
  PROVE  /\ FramesGrow /\ pio'.txmsg = pio.txmsg
         /\ Known(pio.fifo)' /\ Known(pio.isr)'
<1> USE DEF WireTyped
<1>0. /\ pio.isr \in Seq(Tokens) /\ pio.fifo \in Seq(Tokens) /\ line.frames \in Seq(Frames)
      /\ Last \in Nat /\ DOMAIN line.frames = 1..Last
      /\ pio \in PioStates /\ line \in LineStates
  BY DEF PioStates, LineStates, Last
<1>1. ASSUME NEW k \in Kinds, NEW n \in Nat, pio'.isr = Sampled(k, n), FramesGrow,
             k \in Passive \/ n \in DOMAIN line'.frames
      PROVE  Known(pio.isr)'
  <2> DEFINE t == [k |-> k, n |-> n]
  <2>1. t \in Tokens /\ pio'.isr = Append(pio.isr, t)
    BY <1>1 DEF Sampled, Tokens
  <2> SUFFICES ASSUME NEW i \in DOMAIN pio'.isr
               PROVE  pio'.isr[i].k \notin Passive => pio'.isr[i].n \in DOMAIN line'.frames
    BY DEF Known
  <2> HIDE DEF t
  <2>2. CASE i \in DOMAIN pio.isr
    <3>1. pio'.isr[i] = pio.isr[i]
      BY <1>0, <2>1, <2>2
    <3> QED
      BY <1>1, <2>2, <3>1 DEF Known, FramesGrow
  <2>3. CASE i \notin DOMAIN pio.isr
    <3>1. pio'.isr[i] = t
      BY <1>0, <2>1, <2>3
    <3> QED
      BY <1>1, <3>1 DEF t
  <2> QED
    BY <2>2, <2>3
<1>2. FramesGrow /\ pio'.isr \in {pio.isr, <<>>} => Known(pio.isr)'
  BY DEF Known, FramesGrow
<1>3. FramesGrow /\ pio'.fifo = pio.fifo => Known(pio.fifo)'
  BY DEF Known, FramesGrow
<1>4. line'.frames = line.frames => FramesGrow
  BY DEF FramesGrow
<1>5. CASE FrameStep
  <2>1. /\ line'.frames = line.frames \/
           \E f \in Frames : /\ line'.frames = [line.frames EXCEPT ![Last] = f]
                             /\ f.msg = Frame.msg /\ f.src = Frame.src
        /\ pio'.isr = pio.isr \/ \E k \in Kinds : pio'.isr = Sampled(k, Last)
        /\ pio'.fifo = pio.fifo /\ pio'.txmsg = pio.txmsg
        /\ line.frames # <<>>
    BY <1>5, FrameStepShape
  <2>2. FramesGrow
    BY <1>0, <2>1 DEF FramesGrow, Frame
  <2>3. Last \in DOMAIN line'.frames
    BY <1>0, <2>1, <2>2 DEF FramesGrow
  <2> QED
    BY <1>0, <1>1, <1>2, <1>3, <2>1, <2>2, <2>3
<1>6. ASSUME NEW src, NEW m, NEW txsm, NEW left, NewFrame(src, m), StartOfFrame(txsm, left)
      PROVE  FramesGrow /\ pio'.txmsg = pio.txmsg /\ Known(pio.fifo)' /\ Known(pio.isr)'
  <2> DEFINE f == [src |-> src, msg |-> m, ack |-> "none", ok |-> "no"]
  <2>1. line'.frames = Append(line.frames, f)
    BY <1>0, <1>6 DEF NewFrame, LineStates
  <2>2. /\ pio'.isr = Sampled("sof", Last + 1) /\ pio'.fifo = pio.fifo /\ pio'.txmsg = pio.txmsg
    BY <1>0, <1>6 DEF StartOfFrame, PioStates
  <2> HIDE DEF f
  <2>3. DOMAIN line'.frames = 1..(Last + 1) /\ \A n \in DOMAIN line.frames : line'.frames[n] = line.frames[n]
    BY <1>0, <2>1
  <2>4. FramesGrow
    BY <1>0, <2>3 DEF FramesGrow
  <2>5. Last + 1 \in DOMAIN line'.frames /\ Last + 1 \in Nat /\ "sof" \in Kinds
    BY <1>0, <2>3 DEF Kinds
  <2> QED
    BY <1>1, <1>3, <2>2, <2>4, <2>5
<1>7. CASE StartOwn \/ \E m \in PeerMsgs : StartPeer(m) \/ LoseArbitration(m)
  BY <1>6, <1>7 DEF StartOwn, StartPeer, LoseArbitration
<1>8. ASSUME NEW k \in Passive, NEW isr \in {pio.isr, <<>>}, line'.frames = line.frames,
             pio'.isr = isr, pio'.txmsg = pio.txmsg, pio'.fifo = pio.fifo \o Sampled(k, Last)
      PROVE  FramesGrow /\ Known(pio.fifo)' /\ Known(pio.isr)'
  <2> DEFINE t == [k |-> k, n |-> Last]
             s == Append(pio.isr, t)
  <2>1. t.k = k /\ t \in Tokens /\ Sampled(k, Last) = s
    BY <1>0, <1>8 DEF Tokens, Kinds, Passive, Sampled
  <2> HIDE DEF t
  <2>2. \A i \in DOMAIN s : i \in DOMAIN pio.isr \/ s[i] = t
    BY <1>0, <2>1
  <2>3. s \in Seq(Tokens) /\ \A i \in DOMAIN pio.isr : s[i] = pio.isr[i]
    BY <1>0, <2>1
  <2>4. \A i \in DOMAIN s : s[i].k \notin Passive => s[i].n \in DOMAIN line.frames
    BY <1>8, <2>1, <2>2, <2>3 DEF Known
  <2> HIDE DEF s
  <2>5. \A i \in DOMAIN (pio.fifo \o s) :
          \/ i \in DOMAIN pio.fifo /\ (pio.fifo \o s)[i] = pio.fifo[i]
          \/ i - Len(pio.fifo) \in DOMAIN s /\ (pio.fifo \o s)[i] = s[i - Len(pio.fifo)]
    BY <1>0, <2>3, JoinedAt
  <2>6. Known(pio.fifo \o s)
    BY <2>4, <2>5 DEF Known
  <2>7. Known(pio.fifo)'
    BY <1>8, <2>1, <2>6 DEF Known
  <2> QED
    BY <1>2, <1>4, <1>8, <2>7
<1>12. CASE IdleBits \/ CounterWraps
  <2>1. /\ pio'.isr = <<>> /\ pio'.txmsg = pio.txmsg /\ line'.frames = line.frames
        /\ pio'.fifo = pio.fifo \o Sampled("idle", Last)
    BY <1>0, <1>12 DEF IdleBits, CounterWraps, PioStates, LineStates
  <2> QED
    BY <1>8, <2>1 DEF Passive
<1>13. CASE LongIdle
  <2>1. /\ pio'.isr = <<>> /\ pio'.txmsg = pio.txmsg /\ line' = line
        /\ pio'.fifo = pio.fifo \o Sampled("long", Last)
    BY <1>0, <1>13 DEF LongIdle, PioStates
  <2> QED
    BY <1>8, <2>1 DEF Passive
<1>9. CASE SignalMayTx
  <2>1. line' = line /\ pio'.isr = pio.isr /\ pio'.fifo = pio.fifo /\ pio'.txmsg = pio.txmsg
    BY <1>0, <1>9 DEF SignalMayTx, PioStates
  <2> QED
    BY <1>2, <1>3, <1>4, <2>1
<1>10. CASE Push
  <2>1. /\ line' = line /\ pio'.isr = <<>> /\ pio'.txmsg = pio.txmsg
        /\ pio'.fifo = pio.fifo \o pio.isr
    BY <1>0, <1>10 DEF Push, PioStates
  <2>2. \A i \in DOMAIN (pio.fifo \o pio.isr) :
            \/ i \in DOMAIN pio.fifo /\ (pio.fifo \o pio.isr)[i] = pio.fifo[i]
            \/ /\ i - Len(pio.fifo) \in DOMAIN pio.isr
               /\ (pio.fifo \o pio.isr)[i] = pio.isr[i - Len(pio.fifo)]
    BY <1>0, JoinedAt
  <2>3. Known(pio.fifo)'
    BY <2>1, <2>2 DEF Known
  <2> QED
    BY <1>2, <1>4, <2>1, <2>3
<1>11. CASE Overrun
  <2>1. /\ line'.frames = line.frames /\ pio'.isr = <<>> /\ pio'.txmsg = pio.txmsg
        /\ pio'.fifo = pio.fifo
    BY <1>0, <1>11 DEF Overrun, PioStates, LineStates
  <2> QED
    BY <1>2, <1>3, <1>4, <2>1
<1> QED
  BY <1>5, <1>7, <1>9, <1>10, <1>11, <1>12, <1>13 DEF WireNext
-----------------------------------------------------------------------------
(* The invariant of the queue.                                             *)

(* The slots from pull to push hold messages, and what can2040_transmit is *)
(* writing is in the slot after them.                                      *)
QueueFits ==
  /\ Pending <= QueueLen
  /\ \A i \in 0..(QueueLen - 1) : i < Pending => QueuedMsg(i) \in Msg
  /\ app.pc \in {"copy", "submit"} => Pending < QueueLen /\ app.msg \in Msg
  /\ app.pc = "submit" => cd.tx_queue[tx_qpos(cd.tx_push_pos)] = app.msg

QueueInv == DriverInv /\ Sent(World) /\ QueueFits

Moves == /\ Sent(World)' /\ UNCHANGED <<line, app>>
         /\ Same(World, World') \/ Confirms(World, World')

\* What a function of the driver does, the step of the handler that calls it does.
LEMMA ServeMoves ==
  ASSUME UNCHANGED <<line, app>>, Serve(World, World')
  PROVE  Moves
BY DEF Serve, Moves, Sent, Known

\* The typed parts of a state in which QueueInv holds.
LEMMA QueueTypes ==
  ASSUME QueueInv
  PROVE  /\ cd \in CdStates /\ pio \in PioStates /\ log \in LogStates /\ World \in Worlds
         /\ ParserInv(World) /\ Sent(World) /\ Confirming(World)
         /\ World.cd = cd /\ World.pio = pio /\ World.log = log
         /\ cd.report_state # "IDLE" => cd.parse_msg \in DOMAIN line.frames
<1>1. cd \in CdStates /\ pio \in PioStates /\ log \in LogStates /\ World \in Worlds
  BY WorldType DEF QueueInv, DriverInv, TypeOK
<1>2. World.cd = cd /\ World.pio = pio /\ World.log = log
  BY DEF World
<1>3. ParserInv(World) /\ Sent(World)
  BY DEF QueueInv, DriverInv, HandlerInv
<1> QED
  BY <1>1, <1>2, <1>3 DEF ParserInv, Sent, Confirming

\* A step that changes only registers, flags or the mask moves nothing of the queue.
LEMMA RegisterStep ==
  ASSUME QueueInv, UNCHANGED <<line, app, log>>, PartsOfPio(World, World'),
         cd'.tx_push_pos = cd.tx_push_pos, cd'.tx_pull_pos = cd.tx_pull_pos,
         cd'.tx_queue = cd.tx_queue,
         cd'.parse_state = cd.parse_state, cd'.parse_msg = cd.parse_msg,
         cd'.report_state = cd.report_state,
         cd'.tx_state = "QUEUED" => cd.tx_state = "QUEUED"
  PROVE  Moves
<1>1. Same(World, World')
  BY DEF Same, World
<1>2. Serve(World, World')
  BY <1>1, QueueTypes, SentKept DEF World, Sent
<1> QED
  BY <1>2, ServeMoves

\* The handler's loop over the rx fifo leaves the queue alone or confirms its head.
LEMMA ProcessRxMoves == QueueInv /\ (\E again \in BOOLEAN : ProcessRx(again)) => Moves
<1> SUFFICES ASSUME QueueInv, NEW again \in BOOLEAN, ProcessRx(again) PROVE Moves
  OBVIOUS
<1> DEFINE u == [World EXCEPT !.pio.fifo = Tail(pio.fifo)]
           t == Head(pio.fifo)
           v == process_rx(u, t, again)
<1>1. pio.fifo # <<>> /\ pio.fifo \in Seq(Tokens)
  BY DEF QueueInv, DriverInv, HandlerInv, TypeOK, PioStates, ProcessRx
<1>2. /\ t \in Tokens /\ Tail(pio.fifo) \in Seq(Tokens)
      /\ t = pio.fifo[1] /\ 1 \in DOMAIN pio.fifo
      /\ \A i \in DOMAIN Tail(pio.fifo) : /\ i + 1 \in DOMAIN pio.fifo
                                          /\ Tail(pio.fifo)[i] = pio.fifo[i + 1]
  BY <1>1
<1>3. /\ u \in Worlds /\ u.cd = cd /\ u.log = log /\ u.pio = [pio EXCEPT !.fifo = Tail(pio.fifo)]
  BY <1>2 DEF QueueInv, DriverInv, TypeOK, World, Worlds, PioStates
<1>4. /\ u.pio.fifo = Tail(pio.fifo) /\ u.pio.isr = pio.isr /\ u.pio.txmsg = pio.txmsg
      /\ u.pio.inte = pio.inte
  BY <1>3, QueueTypes DEF PioStates
<1>5. ParserInv(u)
  BY <1>3, <1>4, QueueTypes DEF ParserInv, World
<1>6. Sent(u)
  <2>1. Known(Tail(pio.fifo))
    BY <1>2, QueueTypes DEF Sent, Known, World
  <2> QED
    BY <1>3, <1>4, <2>1, QueueTypes DEF Sent, World
<1>7. t.k \notin Passive => t.n \in DOMAIN line.frames
  BY <1>2, QueueTypes DEF Sent, Known, World
<1> HIDE DEF u, t
<1>8. Serve(u, v)
  BY <1>2, <1>3, <1>5, <1>6, <1>7, ProcessRxServes
<1>9. /\ cd' = v.cd /\ pio' = v.pio /\ log' = v.log /\ UNCHANGED <<line, app>>
  BY DEF ProcessRx, Becomes, World, u, v, t
<1>10. Same(World, u) /\ World.cd.report_state = u.cd.report_state
  BY <1>3 DEF Same, World
<1> HIDE DEF v
<1>11. Serve(World, World')
  BY <1>3, <1>8, <1>9, <1>10 DEF Serve, Same, Confirms, Sent, World
<1> QED
  BY <1>9, <1>11, ServeMoves

\* A report that ends with MATCHED or MAYTX leaves the queue alone or confirms its head.
LEMMA ReportMoves ==
  ASSUME QueueInv, NEW r \in {cd.report_state, WithEof(cd.report_state)},
         cd.report_state # "IDLE",
         Becomes(report_handle_eof(SetReport(World, r))), UNCHANGED <<line, app>>
  PROVE  Moves
<1> DEFINE w == SetReport(World, r)
           v == report_handle_eof(w)
<1>1. /\ r \in {"IDLE", "RX_ACK", "RX_EOF", "TX_ACK", "TX_EOF"}
      /\ InTx(r) <=> InTx(cd.report_state)
  BY QueueTypes DEF CdStates, WithEof, InTx
<1>2. w \in Worlds /\ w.cd = [cd EXCEPT !.report_state = r] /\ w.pio = pio /\ w.log = log
  BY <1>1, QueueTypes, SetReportWorld DEF SetReport, World
<1>3. /\ w.cd.report_state = r /\ w.cd.parse_state = cd.parse_state
      /\ w.cd.parse_msg = cd.parse_msg /\ w.cd.tx_state = cd.tx_state
      /\ w.cd.tx_push_pos = cd.tx_push_pos /\ w.cd.tx_pull_pos = cd.tx_pull_pos
      /\ w.cd.tx_queue = cd.tx_queue
  BY <1>2, QueueTypes DEF CdStates
<1>4. /\ v \in Worlds
      /\ v.cd = [w.cd EXCEPT !.report_state = "IDLE",
                   !.tx_pull_pos = IF w.cd.report_state = "TX_EOF"
                                   THEN Next1(w.cd.tx_pull_pos) ELSE w.cd.tx_pull_pos]
      /\ v.pio = [w.pio EXCEPT !.match = NoKey]
      /\ v.log.tx = IF w.cd.report_state = "TX_EOF"
                    THEN Append(w.log.tx, w.cd.parse_msg) ELSE w.log.tx
  BY <1>2, HandleEofFields
<1>5. cd' = v.cd /\ pio' = v.pio /\ log' = v.log
  BY DEF Becomes
<1> HIDE DEF v, w
<1>6. Sent(w) /\ Confirming(w) /\ w.cd.parse_msg \in DOMAIN line.frames
  <2>1. SlotMsg(w.cd) = SlotMsg(cd)
    BY <1>3 DEF SlotMsg
  <2> QED
    BY <1>1, <1>2, <1>3, <2>1, QueueTypes DEF Sent, Confirming, World
<1>7. PartsOfPio(w, v)
  BY <1>2, <1>4, QueueTypes DEF PartsOfPio, PioStates
<1>8. Serve(w, v)
  BY <1>2, <1>4, <1>6, <1>7, SentEnds
<1>9. Same(World, w) /\ World.cd = cd
  BY <1>2, <1>3 DEF Same, World
<1>10. Serve(World, World')
  BY <1>1, <1>3, <1>5, <1>8, <1>9 DEF Serve, Same, Confirms, Sent, World
<1> QED
  BY <1>10, ServeMoves

\* report_line_matched and report_line_maytx do.
LEMMA MatchedMayTxMoves == QueueInv /\ (report_line_matched \/ report_line_maytx) => Moves
<1> SUFFICES ASSUME QueueInv, report_line_matched \/ report_line_maytx PROVE Moves
  OBVIOUS
<1>0. UNCHANGED <<line, app>>
  BY DEF report_line_matched, report_line_maytx
<1>1. CASE cd.report_state = "IDLE"
  <2>1. UNCHANGED <<cd, pio, log>>
    BY <1>1 DEF report_line_matched, report_line_maytx
  <2> QED
    BY <1>0, <2>1, RegisterStep DEF PartsOfPio, World
<1>2. CASE cd.report_state # "IDLE" /\ report_line_matched
  BY <1>0, <1>2, ReportMoves DEF report_line_matched
<1>3. CASE cd.report_state # "IDLE" /\ report_line_maytx
  <2>1. SetReport(World, cd.report_state) = World
    BY QueueTypes DEF SetReport, Worlds, CdStates
  <2>2. Becomes(report_handle_eof(SetReport(World, cd.report_state)))
    BY <1>3, <2>1 DEF report_line_maytx
  <2> QED
    BY <1>0, <1>3, <2>2, ReportMoves
<1> QED
  BY <1>1, <1>2, <1>3

\* The head of the queue goes to the "tx" machine: it is what TS_QUEUED stands for.
LEMMA SendHeadMoves ==
  ASSUME QueueInv, irq.pc \in {"sched", "reread"}, NEW p \in PioStates, SendHead(p),
         p.fifo = pio.fifo, p.isr = pio.isr, cd.tx_push_pos # cd.tx_pull_pos,
         UNCHANGED <<line, app, log>>
  PROVE  Moves
<1>1. ~InTx(cd.report_state)
  BY DEF QueueInv, DriverInv, HandlerInv
<1>2. cd' = [cd EXCEPT !.tx_state = "QUEUED"] /\ pio' = pio_irq_set(pio_tx_send(p, SlotMsg(cd)), irq.mask)
  BY DEF SendHead
<1>3. /\ cd'.tx_push_pos = cd.tx_push_pos /\ cd'.tx_pull_pos = cd.tx_pull_pos
      /\ cd'.tx_queue = cd.tx_queue /\ cd'.parse_state = cd.parse_state
      /\ cd'.parse_msg = cd.parse_msg /\ cd'.report_state = cd.report_state
  BY <1>2, QueueTypes DEF CdStates
<1>4. pio'.fifo = pio.fifo /\ pio'.isr = pio.isr /\ pio'.txmsg = SlotMsg(cd)
  BY <1>2 DEF pio_irq_set, pio_tx_send, pio_tx_reset, PioStates
<1>5. SlotMsg(cd') = SlotMsg(cd)
  BY <1>3 DEF SlotMsg
<1> QED
  BY <1>1, <1>3, <1>4, <1>5, QueueTypes DEF Moves, Sent, Known, Same, World

\* Every step of the handler leaves the queue alone or confirms its head.
LEMMA HandlerMoves == QueueInv /\ Handler => Moves
<1> SUFFICES ASSUME QueueInv, Handler PROVE Moves
  OBVIOUS
<1>0. cd \in CdStates /\ pio \in PioStates
  BY QueueTypes
<1>1. CASE IrqEnter \/ report_line_txpending
  <2>1. UNCHANGED <<line, pio, cd, app, log>>
    BY <1>1 DEF IrqEnter, report_line_txpending
  <2> QED
    BY <2>1, RegisterStep DEF PartsOfPio, World
<1>2. CASE report_line_ackdone
  <2>1. UNCHANGED <<line, cd, app, log>> /\ PartsOfPio(World, World')
    BY <1>0, <1>2 DEF report_line_ackdone, pio_match_check, PioStates, PartsOfPio, World
  <2> QED
    BY <2>1, RegisterStep
<1>3. CASE tx_inject_ack
  <2>1. UNCHANGED <<line, app, log>> /\ cd' = [cd EXCEPT !.tx_state = "ACKING_RX"]
        /\ pio' = pio_irq_set(pio_tx_inject_ack(pio, cd.parse_msg), {"MAYTX", "ACKDONE"})
    BY <1>3 DEF tx_inject_ack
  <2>2. PartsOfPio(World, World')
    BY <1>0, <2>1 DEF pio_irq_set, pio_tx_inject_ack, pio_tx_reset, pio_match_check, PioStates,
                      PartsOfPio, World
  <2>3. /\ cd'.tx_push_pos = cd.tx_push_pos /\ cd'.tx_pull_pos = cd.tx_pull_pos
        /\ cd'.tx_queue = cd.tx_queue /\ cd'.parse_state = cd.parse_state
        /\ cd'.parse_msg = cd.parse_msg /\ cd'.report_state = cd.report_state
        /\ cd'.tx_state = "ACKING_RX"
    BY <1>0, <2>1 DEF CdStates
  <2> QED
    BY <2>1, <2>2, <2>3, RegisterStep
<1>4. CASE ScheduleBusy \/ ScheduleClear \/ RereadEmpty
  <2>1. UNCHANGED <<line, cd, app, log>>
    BY <1>4 DEF ScheduleBusy, ScheduleClear, RereadEmpty
  <2>2. PartsOfPio(World, World')
    BY <1>0, <1>4 DEF ScheduleBusy, ScheduleClear, RereadEmpty, pio_irq_set,
                      pio_signal_clear_txpending, PioStates, PartsOfPio, World
  <2> QED
    BY <2>1, <2>2, RegisterStep
<1>5. CASE ScheduleEmpty
  <2>1. UNCHANGED <<line, pio, app, log>> /\ cd' = [cd EXCEPT !.tx_state = "IDLE"]
    BY <1>5 DEF ScheduleEmpty
  <2>2. /\ cd'.tx_push_pos = cd.tx_push_pos /\ cd'.tx_pull_pos = cd.tx_pull_pos
        /\ cd'.tx_queue = cd.tx_queue /\ cd'.parse_state = cd.parse_state
        /\ cd'.parse_msg = cd.parse_msg /\ cd'.report_state = cd.report_state
        /\ cd'.tx_state = "IDLE"
    BY <1>0, <2>1 DEF CdStates
  <2> QED
    BY <2>1, <2>2, RegisterStep DEF PartsOfPio, World
<1>6. CASE ScheduleSend
  BY <1>0, <1>6, SendHeadMoves DEF ScheduleSend
<1>7. CASE RereadRaced
  <2>1. /\ pio_signal_set_txpending(pio) \in PioStates
        /\ pio_signal_set_txpending(pio).fifo = pio.fifo
        /\ pio_signal_set_txpending(pio).isr = pio.isr
    BY <1>0 DEF PioStates, pio_signal_set_txpending, SmIrqs
  <2> QED
    BY <1>7, <2>1, SendHeadMoves DEF RereadRaced
<1> QED
  BY <1>1, <1>2, <1>3, <1>4, <1>5, <1>6, <1>7, ProcessRxMoves, MatchedMayTxMoves DEF Handler
-----------------------------------------------------------------------------
(* The window of the queue, from pull to push.                             *)

\* The number of pending messages is the distance of the two positions.
LEMMA PendingIs ==
  ASSUME cd \in CdStates
  PROVE  /\ Pending = Distance(cd.tx_push_pos, cd.tx_pull_pos) /\ Pending \in Positions
         /\ Pending = 0 <=> cd.tx_push_pos = cd.tx_pull_pos
         /\ cd.tx_push_pos \in Positions /\ cd.tx_pull_pos \in Positions
         /\ QueuedMsg(0) = SlotMsg(cd)
         /\ \A q \in Positions : tx_qpos(q) \in 0..(QueueLen - 1)
<1>1. cd.tx_push_pos \in Positions /\ cd.tx_pull_pos \in Positions
  BY DEF CdStates, Positions
<1>2. Pending = Distance(cd.tx_push_pos, cd.tx_pull_pos)
  BY DEF Pending, Distance
<1>3. cd.tx_pull_pos + 0 = cd.tx_pull_pos
  BY <1>1, Can2040Assumption DEF Positions
<1>4. \A q \in Positions : tx_qpos(q) \in 0..(QueueLen - 1)
  <2> TAKE q \in Positions
  <2>1. QueueLen \in Nat \ {0} /\ q \in Int
    BY Can2040Assumption DEF Positions
  <2> QED
    BY <2>1, ModRange DEF tx_qpos
<1> QED
  BY <1>1, <1>2, <1>3, <1>4, DistanceIs, DistanceSteps DEF QueuedMsg, SlotMsg

\* Writing the slot at the push position does not touch the slots from pull to push.
LEMMA WriteOutside ==
  ASSUME cd \in CdStates, Pending < QueueLen, NEW m \in Msg \cup {NoMsg},
         cd' = [cd EXCEPT !.tx_queue[tx_qpos(cd.tx_push_pos)] = m]
  PROVE  /\ Pending' = Pending
         /\ \A i \in 0..(QueueLen - 1) : i < Pending => QueuedMsg(i)' = QueuedMsg(i)
         /\ cd'.tx_queue[tx_qpos(cd.tx_push_pos)] = m
         /\ cd'.tx_push_pos = cd.tx_push_pos /\ cd'.tx_pull_pos = cd.tx_pull_pos
         /\ cd'.parse_state = cd.parse_state /\ cd'.parse_msg = cd.parse_msg
         /\ cd'.report_state = cd.report_state /\ cd'.tx_state = cd.tx_state
<1> DEFINE j == tx_qpos(cd.tx_push_pos)
<1>0. QueueLen \in Nat \ {0} /\ PosMod \in Nat
  BY Can2040Assumption
<1>1. /\ Pending \in Positions /\ Pending = Distance(cd.tx_push_pos, cd.tx_pull_pos)
      /\ cd.tx_push_pos \in Positions /\ cd.tx_pull_pos \in Positions
      /\ j \in 0..(QueueLen - 1)
  BY PendingIs
<1>2. tx_qpos(cd.tx_pull_pos + Pending) = j
  BY <1>1, SlotAtPush
<1>3. /\ cd'.tx_queue = [cd.tx_queue EXCEPT ![j] = m]
      /\ cd'.tx_push_pos = cd.tx_push_pos /\ cd'.tx_pull_pos = cd.tx_pull_pos
      /\ cd'.parse_state = cd.parse_state /\ cd'.parse_msg = cd.parse_msg
      /\ cd'.report_state = cd.report_state /\ cd'.tx_state = cd.tx_state
  BY DEF CdStates
<1>4. cd.tx_queue \in [0..(QueueLen - 1) -> Msg \cup {NoMsg}]
  BY DEF CdStates
<1>5. ASSUME NEW i \in 0..(QueueLen - 1), i < Pending PROVE QueuedMsg(i)' = QueuedMsg(i)
  <2>1. Pending \in 0..(QueueLen - 1)
    BY <1>0, <1>1 DEF Positions
  <2>2. tx_qpos(cd.tx_pull_pos + i) # j
    BY <1>1, <1>2, <1>5, <2>1, SlotsDiffer
  <2>3. cd'.tx_queue[tx_qpos(cd.tx_pull_pos + i)] = cd.tx_queue[tx_qpos(cd.tx_pull_pos + i)]
    BY <1>3, <1>4, <2>2
  <2> QED
    BY <1>3, <2>3 DEF QueuedMsg
<1>6. cd'.tx_queue[j] = m
  BY <1>1, <1>3, <1>4
<1>7. Pending' = Pending
  BY <1>3 DEF Pending
<1> QED
  BY <1>3, <1>5, <1>6, <1>7

\* A step that leaves positions and slots alone leaves the window alone.
LEMMA WindowStays ==
  ASSUME cd'.tx_push_pos = cd.tx_push_pos, cd'.tx_pull_pos = cd.tx_pull_pos,
         cd'.tx_queue = cd.tx_queue
  PROVE  Pending' = Pending /\ \A i \in Nat : QueuedMsg(i)' = QueuedMsg(i)
BY DEF Pending, QueuedMsg

\* A confirmation takes the head of the window away.
LEMMA WindowPulls ==
  ASSUME cd \in CdStates, cd'.tx_push_pos = cd.tx_push_pos, cd'.tx_queue = cd.tx_queue,
         cd'.tx_pull_pos = Next1(cd.tx_pull_pos), cd.tx_push_pos # cd.tx_pull_pos
  PROVE  Pending' = Pending - 1 /\ \A i \in Nat : QueuedMsg(i)' = QueuedMsg(i + 1)
<1>1. /\ cd.tx_push_pos \in Positions /\ cd.tx_pull_pos \in Positions
      /\ Pending = Distance(cd.tx_push_pos, cd.tx_pull_pos)
  BY PendingIs
<1>2. Distance(cd.tx_push_pos, Next1(cd.tx_pull_pos)) = Distance(cd.tx_push_pos, cd.tx_pull_pos) - 1
  BY <1>1, DistanceSteps
<1>3. Pending' = Distance(cd.tx_push_pos, Next1(cd.tx_pull_pos))
  BY DEF Pending, Distance
<1>4. \A i \in Nat : tx_qpos(Next1(cd.tx_pull_pos) + i) = tx_qpos(cd.tx_pull_pos + (i + 1))
  BY <1>1, SlotAfter
<1> HIDE DEF Next1
<1> QED
  BY <1>1, <1>2, <1>3, <1>4 DEF QueuedMsg

\* Submitting the written slot adds it to the window.
LEMMA WindowPushes ==
  ASSUME cd \in CdStates, Pending < QueueLen,
         cd' = [cd EXCEPT !.tx_push_pos = (cd.tx_push_pos + 1) % PosMod]
  PROVE  /\ Pending' = Pending + 1 /\ \A i \in Nat : QueuedMsg(i)' = QueuedMsg(i)
         /\ QueuedMsg(Pending) = cd.tx_queue[tx_qpos(cd.tx_push_pos)]
         /\ cd'.tx_push_pos # cd'.tx_pull_pos
         /\ cd'.tx_pull_pos = cd.tx_pull_pos /\ cd'.tx_queue = cd.tx_queue
         /\ cd'.parse_state = cd.parse_state /\ cd'.parse_msg = cd.parse_msg
         /\ cd'.report_state = cd.report_state /\ cd'.tx_state = cd.tx_state
<1>0. QueueLen \in Nat \ {0} /\ PosMod \in Nat /\ PosMod >= 2 * QueueLen
  BY Can2040Assumption
<1>1. /\ cd.tx_push_pos \in Positions /\ cd.tx_pull_pos \in Positions
      /\ Pending = Distance(cd.tx_push_pos, cd.tx_pull_pos) /\ Pending \in Positions
  BY PendingIs
<1>2. /\ cd'.tx_push_pos = Next1(cd.tx_push_pos) /\ cd'.tx_pull_pos = cd.tx_pull_pos
      /\ cd'.tx_queue = cd.tx_queue
      /\ cd'.parse_state = cd.parse_state /\ cd'.parse_msg = cd.parse_msg
      /\ cd'.report_state = cd.report_state /\ cd'.tx_state = cd.tx_state
  BY DEF CdStates, Next1
<1>3. Pending < PosMod - 1
  BY <1>0, <1>1 DEF Positions
<1>4. Distance(Next1(cd.tx_push_pos), cd.tx_pull_pos) = Pending + 1
  BY <1>1, <1>3, DistanceSteps
<1>5. Pending' = Distance(Next1(cd.tx_push_pos), cd.tx_pull_pos)
  BY <1>2 DEF Pending, Distance
<1>6. Next1(cd.tx_push_pos) # cd.tx_pull_pos
  BY <1>0, <1>1, <1>4, DistanceSteps, NextPosition DEF Positions
<1>7. tx_qpos(cd.tx_pull_pos + Pending) = tx_qpos(cd.tx_push_pos)
  BY <1>1, SlotAtPush
<1> HIDE DEF Next1
<1> QED
  BY <1>2, <1>4, <1>5, <1>6, <1>7 DEF QueuedMsg
-----------------------------------------------------------------------------
(* QueueInv is an invariant.                                               *)

\* A step of the handler keeps the slots it leaves in the queue.
LEMMA MovesQueue == QueueInv /\ Moves => Sent(World)' /\ QueueFits'
<1> SUFFICES ASSUME QueueInv, Moves PROVE Sent(World)' /\ QueueFits'
  OBVIOUS
<1>0. QueueLen \in Nat \ {0} /\ cd \in CdStates /\ Pending \in Nat
  BY Can2040Assumption, QueueTypes, PendingIs DEF Positions
<1>1. CASE Same(World, World')
  <2>1. /\ cd'.tx_push_pos = cd.tx_push_pos /\ cd'.tx_pull_pos = cd.tx_pull_pos
        /\ cd'.tx_queue = cd.tx_queue
    BY <1>1 DEF Same, World
  <2>2. Pending' = Pending /\ \A i \in Nat : QueuedMsg(i)' = QueuedMsg(i)
    BY <2>1, WindowStays
  <2> QED
    BY <1>0, <2>1, <2>2 DEF Moves, QueueInv, QueueFits
<1>2. CASE Confirms(World, World')
  <2>1. /\ cd'.tx_push_pos = cd.tx_push_pos /\ cd'.tx_queue = cd.tx_queue
        /\ cd'.tx_pull_pos = Next1(cd.tx_pull_pos) /\ cd.tx_push_pos # cd.tx_pull_pos
    BY <1>2, QueueTypes DEF Confirms, Sent, World
  <2>2. Pending' = Pending - 1 /\ \A i \in Nat : QueuedMsg(i)' = QueuedMsg(i + 1)
    BY <1>0, <2>1, WindowPulls
  <2>3. Pending <= QueueLen
    BY DEF QueueInv, QueueFits
  <2>4. \A i \in 0..(QueueLen - 1) : i < Pending' => QueuedMsg(i)' \in Msg
    <3> SUFFICES ASSUME NEW i \in 0..(QueueLen - 1), i < Pending' PROVE QueuedMsg(i)' \in Msg
      OBVIOUS
    <3>1. i + 1 \in 0..(QueueLen - 1) /\ i + 1 < Pending /\ i \in Nat
      BY <1>0, <2>2, <2>3
    <3> QED
      BY <2>2, <3>1 DEF QueueInv, QueueFits
  <2> QED
    BY <1>0, <2>1, <2>2, <2>3, <2>4 DEF Moves, QueueInv, QueueFits
<1> QED
  BY <1>1, <1>2 DEF Moves

\* A step of can2040_transmit keeps the slots the handler may read.
LEMMA MainQueue == QueueInv /\ Main => Sent(World)' /\ QueueFits'
<1> SUFFICES ASSUME QueueInv, Main PROVE Sent(World)' /\ QueueFits'
  OBVIOUS
<1>0. /\ QueueLen \in Nat \ {0} /\ cd \in CdStates /\ Pending \in Nat
      /\ app \in AppStates /\ Sent(World) /\ World.cd = cd /\ QueueFits
      /\ pio \in PioStates
  BY Can2040Assumption, QueueTypes, PendingIs DEF Positions, QueueInv, DriverInv, TypeOK
<1>1. ASSUME UNCHANGED <<line, log>>, pio'.fifo = pio.fifo, pio'.isr = pio.isr, pio'.txmsg = pio.txmsg,
             cd'.parse_state = cd.parse_state, cd'.parse_msg = cd.parse_msg,
             cd'.report_state = cd.report_state, cd'.tx_state = cd.tx_state,
             cd.tx_push_pos # cd.tx_pull_pos =>
               cd'.tx_push_pos # cd'.tx_pull_pos /\ QueuedMsg(0)' = QueuedMsg(0),
             QueuedMsg(0)' = SlotMsg(cd')
      PROVE  Sent(World)'
  BY <1>0, <1>1, PendingIs DEF Sent, Known, World
<1>2. ASSUME NEW m \in Msg \cup {NoMsg}, Pending < QueueLen,
             cd' = [cd EXCEPT !.tx_queue[tx_qpos(cd.tx_push_pos)] = m],
             UNCHANGED <<line, pio, log>>,
             app'.pc \in {"copy", "submit"}, app'.msg \in Msg,
             app'.pc = "submit" => m = app'.msg
      PROVE  Sent(World)' /\ QueueFits'
  <2>1. /\ Pending' = Pending
        /\ \A i \in 0..(QueueLen - 1) : i < Pending => QueuedMsg(i)' = QueuedMsg(i)
        /\ cd'.tx_queue[tx_qpos(cd.tx_push_pos)] = m
        /\ cd'.tx_push_pos = cd.tx_push_pos /\ cd'.tx_pull_pos = cd.tx_pull_pos
        /\ cd'.parse_state = cd.parse_state /\ cd'.parse_msg = cd.parse_msg
        /\ cd'.report_state = cd.report_state /\ cd'.tx_state = cd.tx_state
    BY <1>0, <1>2, WriteOutside
  <2>2. QueueFits'
    BY <1>0, <1>2, <2>1 DEF QueueFits
  <2>3. QueuedMsg(0)' = SlotMsg(cd')
    <3>1. cd'.tx_pull_pos + 0 = cd'.tx_pull_pos
      BY <1>0, <2>1, Can2040Assumption DEF CdStates
    <3> QED
      BY <3>1 DEF QueuedMsg, SlotMsg
  <2>4. cd.tx_push_pos # cd.tx_pull_pos => QueuedMsg(0)' = QueuedMsg(0)
    BY <1>0, <2>1, PendingIs
  <2>5. Sent(World)'
    BY <1>1, <1>2, <2>1, <2>3, <2>4
  <2> QED
    BY <2>2, <2>5
<1>3. ASSUME NEW m \in AppMsgs, TransmitBegin(m) PROVE Sent(World)' /\ QueueFits'
  <2>1. /\ NoMsg \in Msg \cup {NoMsg} /\ Pending < QueueLen /\ UNCHANGED <<line, pio, log>>
        /\ cd' = [cd EXCEPT !.tx_queue[tx_qpos(cd.tx_push_pos)] = NoMsg]
        /\ app'.pc = "copy" /\ app'.msg \in Msg
    BY <1>3, Can2040Assumption DEF TransmitBegin
  <2> QED
    BY <1>2, <2>1
<1>4. CASE TransmitCopy
  <2>1. /\ app.msg \in Msg /\ Pending < QueueLen /\ UNCHANGED <<line, pio, log>>
        /\ cd' = [cd EXCEPT !.tx_queue[tx_qpos(cd.tx_push_pos)] = app.msg]
        /\ app'.pc = "submit" /\ app'.msg = app.msg
    BY <1>0, <1>4 DEF TransmitCopy, QueueFits, AppStates
  <2> QED
    BY <1>2, <2>1
<1>5. CASE TransmitSubmit
  <2>1. /\ Pending < QueueLen /\ UNCHANGED <<line, pio, log>> /\ app'.pc = "wake"
        /\ cd' = [cd EXCEPT !.tx_push_pos = (cd.tx_push_pos + 1) % PosMod]
        /\ cd.tx_queue[tx_qpos(cd.tx_push_pos)] = app.msg /\ app.msg \in Msg
    BY <1>0, <1>5 DEF TransmitSubmit, QueueFits, AppStates
  <2>2. /\ Pending' = Pending + 1 /\ \A i \in Nat : QueuedMsg(i)' = QueuedMsg(i)
        /\ QueuedMsg(Pending) = cd.tx_queue[tx_qpos(cd.tx_push_pos)]
        /\ cd'.tx_push_pos # cd'.tx_pull_pos
        /\ cd'.tx_pull_pos = cd.tx_pull_pos /\ cd'.tx_queue = cd.tx_queue
        /\ cd'.parse_state = cd.parse_state /\ cd'.parse_msg = cd.parse_msg
        /\ cd'.report_state = cd.report_state /\ cd'.tx_state = cd.tx_state
    BY <1>0, <2>1, WindowPushes
  <2>3. \A i \in 0..(QueueLen - 1) : i < Pending' => QueuedMsg(i)' \in Msg
    <3> SUFFICES ASSUME NEW i \in 0..(QueueLen - 1), i < Pending' PROVE QueuedMsg(i)' \in Msg
      OBVIOUS
    <3>1. i = Pending \/ i < Pending
      BY <1>0, <2>2
    <3> QED
      BY <1>0, <2>1, <2>2, <3>1 DEF QueueFits
  <2>4. QueueFits'
    BY <1>0, <2>1, <2>2, <2>3 DEF QueueFits
  <2>5. QueuedMsg(0)' = SlotMsg(cd')
    <3>1. cd'.tx_pull_pos + 0 = cd'.tx_pull_pos
      BY <1>0, <2>2, Can2040Assumption DEF CdStates
    <3> QED
      BY <3>1 DEF QueuedMsg, SlotMsg
  <2>6. Sent(World)'
    BY <1>1, <2>1, <2>2, <2>5
  <2> QED
    BY <2>4, <2>6
<1>6. CASE TransmitWake \/ \E m \in AppMsgs : TransmitFull(m)
  <2>1. /\ UNCHANGED <<line, cd, log>> /\ app'.pc \notin {"copy", "submit"}
        /\ pio'.fifo = pio.fifo /\ pio'.isr = pio.isr /\ pio'.txmsg = pio.txmsg
    BY <1>0, <1>6 DEF TransmitWake, TransmitFull, AppStates, pio_signal_set_txpending, PioStates
  <2>2. Pending' = Pending /\ \A i \in Nat : QueuedMsg(i)' = QueuedMsg(i)
    BY <2>1, WindowStays
  <2>3. QueueFits'
    BY <1>0, <2>1, <2>2 DEF QueueFits
  <2>4. QueuedMsg(0)' = SlotMsg(cd')
    BY <1>0, <2>1, <2>2, PendingIs
  <2> QED
    BY <1>1, <2>1, <2>2, <2>3, <2>4
<1> QED
  BY <1>3, <1>4, <1>5, <1>6 DEF Main

\* A step of the wire keeps what the "tx" machine has and what the rx fifo tells of.
LEMMA WireQueue == QueueInv /\ Wire => Sent(World)' /\ QueueFits' /\ FramesGrow
<1> SUFFICES ASSUME QueueInv, Wire PROVE Sent(World)' /\ QueueFits' /\ FramesGrow
  OBVIOUS
<1>1. WireTyped /\ WireNext /\ UNCHANGED <<cd, app, log>>
  BY DEF QueueInv, DriverInv, TypeOK, WireTyped, Wire
<1>2. Sent(World) /\ World.pio = pio /\ World.cd = cd /\ World.log = log
  BY QueueTypes
<1>3. FramesGrow /\ pio'.txmsg = pio.txmsg /\ Known(pio.fifo)' /\ Known(pio.isr)'
  BY <1>1, <1>2, WireFrames DEF Sent
<1>4. InTx(cd.report_state) => cd.parse_msg \in DOMAIN line.frames
  BY QueueTypes DEF InTx
<1>5. Sent(World)'
  BY <1>1, <1>2, <1>3, <1>4 DEF Sent, FramesGrow, World
<1>6. QueueFits'
  BY <1>1 DEF QueueInv, QueueFits, Pending, QueuedMsg
<1> QED
  BY <1>3, <1>5, <1>6

\* The queue is empty when the driver has started.
LEMMA QueueInit == Init => QueueInv
<1> SUFFICES ASSUME Init PROVE QueueInv
  OBVIOUS
<1>1. DriverInv
  BY InitHolds
<1>2. cd \in CdStates /\ cd.tx_push_pos = cd.tx_pull_pos
  BY <1>1 DEF Init, DriverInv, TypeOK
<1>3. Pending = 0
  BY <1>2, PendingIs
<1>4. QueueFits
  BY <1>3, Can2040Assumption DEF Init, QueueFits
<1>5. Sent(World)
  BY DEF Init, PioInit, Sent, Known, World, InTx
<1> QED
  BY <1>1, <1>4, <1>5 DEF QueueInv

\* Every step keeps QueueInv.
LEMMA QueueStep == QueueInv /\ [Next]_vars => QueueInv'
<1> SUFFICES ASSUME QueueInv, [Next]_vars PROVE QueueInv'
  OBVIOUS
<1>1. DriverInv'
  BY WireStep, HandlerStep, MainStep, StutterStep DEF QueueInv, Next
<1>2. CASE UNCHANGED vars
  <2>1. Sent(World)' /\ QueueFits'
    BY <1>2 DEF QueueInv, vars, Sent, Known, World, QueueFits, Pending, QueuedMsg
  <2> QED
    BY <1>1, <2>1 DEF QueueInv
<1>3. Sent(World)' /\ QueueFits' => QueueInv'
  BY <1>1 DEF QueueInv
<1> QED
  BY <1>2, <1>3, HandlerMoves, MovesQueue, MainQueue, WireQueue DEF Next

\* QueueInv holds in every reachable state.
LEMMA QueueInvariant == Spec => []QueueInv
BY QueueInit, QueueStep, PTL DEF Spec

(* The queue never overflows, the handler never reads a slot that          *)
(* can2040_transmit is still writing, the "tx" machine has the head of the *)
(* queue while TS_QUEUED holds, and the frame that is confirmed is the     *)
(* head of the queue.                                                      *)
THEOREM QueueKept == Spec => []QueueSound
<1>1. QueueInv => QueueSound
  <2> SUFFICES ASSUME QueueInv PROVE QueueSound
    OBVIOUS
  <2>1. /\ cd \in CdStates /\ Sent(World) /\ World.cd = cd /\ World.pio = pio
        /\ ParserInv(World) /\ PosMod \in Nat
    BY QueueTypes, Can2040Assumption
  <2>2. /\ Pending \in Nat /\ QueuedMsg(0) = SlotMsg(cd)
        /\ Pending = 0 <=> cd.tx_push_pos = cd.tx_pull_pos
    BY <2>1, PendingIs DEF Positions
  <2> QED
    BY <2>1, <2>2 DEF QueueInv, QueueFits, Sent, ParserInv, QueueSound
<1> QED
  BY <1>1, QueueInvariant, PTL
-----------------------------------------------------------------------------
(* The driver implements the first-in first-out queue.                     *)

offered == IF app.pc \in {"copy", "submit"} THEN app.msg ELSE NoMsg
confirmed == [i \in DOMAIN log.tx |-> line.frames[log.tx[i]].msg]

\* The queued messages are a sequence, as long as there are pending messages.
LEMMA QueuedIs ==
  ASSUME QueueInv
  PROVE  /\ Pending \in Nat /\ Queued \in Seq(Msg) /\ Len(Queued) = Pending
         /\ \A i \in 1..Pending : Queued[i] = QueuedMsg(i - 1)
<1>1. Pending \in Nat /\ Pending <= QueueLen /\ QueueLen \in Nat
  BY QueueTypes, PendingIs, Can2040Assumption DEF Positions, QueueInv, QueueFits
<1>2. \A i \in 1..Pending : QueuedMsg(i - 1) \in Msg
  <2> TAKE i \in 1..Pending
  <2>1. i - 1 \in 0..(QueueLen - 1) /\ i - 1 < Pending
    BY <1>1
  <2> QED
    BY <2>1 DEF QueueInv, QueueFits
<1>3. Queued \in [1..Pending -> Msg]
  BY <1>2 DEF Queued
<1> QED
  BY <1>1, <1>3 DEF Queued

\* A sequence as a function.
LEMMA SeqIs ==
  ASSUME NEW S, NEW s \in Seq(S)
  PROVE  s = [i \in 1..Len(s) |-> s[i]]
<1>1. DOMAIN s = 1..Len(s) /\ s \in [1..Len(s) -> S]
  OBVIOUS
<1> QED
  BY <1>1

\* The tail of a sequence as a function.
LEMMA TailIs ==
  ASSUME NEW S, NEW s \in Seq(S), s # << >>
  PROVE  Tail(s) = [i \in 1..(Len(s) - 1) |-> s[i + 1]]
<1>1. Tail(s) \in Seq(S) /\ Len(Tail(s)) = Len(s) - 1
  OBVIOUS
<1>2. \A i \in 1..(Len(s) - 1) : Tail(s)[i] = s[i + 1]
  OBVIOUS
<1>3. Tail(s) = [i \in 1..(Len(s) - 1) |-> Tail(s)[i]]
  BY <1>1, SeqIs
<1> QED
  BY <1>2, <1>3

\* A sequence with one element more, as a function.
LEMMA AppendIs ==
  ASSUME NEW S, NEW s \in Seq(S), NEW e
  PROVE  Append(s, e) = [i \in 1..(Len(s) + 1) |-> IF i = Len(s) + 1 THEN e ELSE s[i]]
<1>1. s \in Seq(S \cup {e}) /\ e \in S \cup {e} /\ Len(s) \in Nat
  OBVIOUS
<1>2. Append(s, e) \in Seq(S \cup {e}) /\ Len(Append(s, e)) = Len(s) + 1
  BY <1>1
<1>3. \A i \in 1..(Len(s) + 1) : Append(s, e)[i] = IF i = Len(s) + 1 THEN e ELSE s[i]
  BY <1>1
<1>4. Append(s, e) = [i \in 1..(Len(s) + 1) |-> Append(s, e)[i]]
  BY <1>2, SeqIs
<1> QED
  BY <1>3, <1>4

\* Frames that were confirmed keep their messages while the wire goes on.
LEMMA ConfirmedKept ==
  ASSUME QueueInv, FramesGrow, UNCHANGED log
  PROVE  confirmed' = confirmed
BY QueueTypes DEF confirmed, FramesGrow, Sent, World

\* A step of the wire is a stutter of the queue.
LEMMA WireFifo == QueueInv /\ Wire => UNCHANGED <<offered, Queued, confirmed>>
<1> SUFFICES ASSUME QueueInv, Wire PROVE UNCHANGED <<offered, Queued, confirmed>>
  OBVIOUS
<1>1. UNCHANGED <<cd, app, log>> /\ FramesGrow
  BY WireQueue DEF Wire
<1> QED
  BY <1>1, ConfirmedKept DEF offered, Queued, Pending, QueuedMsg

\* A step of the handler is a stutter of the queue, or confirms its head.
LEMMA HandlerFifo == QueueInv /\ Moves => Fifo!Confirm \/ UNCHANGED <<offered, Queued, confirmed>>
<1> SUFFICES ASSUME QueueInv, Moves PROVE Fifo!Confirm \/ UNCHANGED <<offered, Queued, confirmed>>
  OBVIOUS
<1>0. UNCHANGED offered /\ UNCHANGED line
  BY DEF Moves, offered
<1>1. CASE Same(World, World')
  <2>1. /\ cd'.tx_push_pos = cd.tx_push_pos /\ cd'.tx_pull_pos = cd.tx_pull_pos
        /\ cd'.tx_queue = cd.tx_queue /\ log'.tx = log.tx
    BY <1>1 DEF Same, World
  <2>2. UNCHANGED Queued
    BY <2>1 DEF Queued, Pending, QueuedMsg
  <2> QED
    BY <1>0, <2>1, <2>2 DEF confirmed
<1>2. CASE Confirms(World, World')
  <2>1. /\ cd'.tx_push_pos = cd.tx_push_pos /\ cd'.tx_queue = cd.tx_queue
        /\ cd'.tx_pull_pos = Next1(cd.tx_pull_pos) /\ cd.tx_push_pos # cd.tx_pull_pos
        /\ log'.tx = Append(log.tx, cd.parse_msg)
        /\ line.frames[cd.parse_msg].msg = SlotMsg(cd)
        /\ cd \in CdStates /\ log \in LogStates
    BY <1>2, QueueTypes DEF Confirms, Sent, World
  <2>2. Pending' = Pending - 1 /\ \A i \in Nat : QueuedMsg(i)' = QueuedMsg(i + 1)
    BY <2>1, WindowPulls
  <2>3. /\ Pending \in Nat /\ Pending # 0 /\ Queued \in Seq(Msg) /\ Len(Queued) = Pending
        /\ \A i \in 1..Pending : Queued[i] = QueuedMsg(i - 1)
        /\ QueuedMsg(0) = SlotMsg(cd)
    BY <2>1, QueuedIs, PendingIs
  <2>4. Queued # <<>> /\ Head(Queued) = SlotMsg(cd)
    BY <2>3
  <2>5. Queued' = Tail(Queued)
    <3>1. Tail(Queued) = [i \in 1..(Pending - 1) |-> Queued[i + 1]]
      <4> HIDE DEF Queued, Pending
      <4> QED
        BY <2>3, <2>4, TailIs
    <3>2. Queued' = [i \in 1..(Pending - 1) |-> QueuedMsg(i - 1)']
      BY <2>2 DEF Queued
    <3>3. \A i \in 1..(Pending - 1) : QueuedMsg(i - 1)' = Queued[i + 1]
      <4> TAKE i \in 1..(Pending - 1)
      <4>1. i - 1 \in Nat /\ i + 1 \in 1..Pending /\ (i - 1) + 1 = i /\ (i + 1) - 1 = i
        BY <2>3
      <4>2. QueuedMsg(i - 1)' = QueuedMsg((i - 1) + 1)
        BY <2>2, <4>1
      <4>3. Queued[i + 1] = QueuedMsg((i + 1) - 1)
        BY <2>3, <4>1
      <4> QED
        BY <4>1, <4>2, <4>3
    <3> HIDE DEF Queued
    <3> QED
      BY <3>1, <3>2, <3>3
  <2>6. confirmed' = Append(confirmed, SlotMsg(cd))
    <3>1. log.tx \in Seq(Nat) /\ cd.parse_msg \in Nat /\ UNCHANGED line
      BY <1>0, <2>1 DEF LogStates, CdStates
    <3> DEFINE n == Len(log.tx)
    <3>2. n \in Nat /\ DOMAIN log.tx = 1..n /\ DOMAIN log'.tx = 1..(n + 1)
          /\ log'.tx[n + 1] = cd.parse_msg /\ \A i \in 1..n : log'.tx[i] = log.tx[i]
      BY <2>1, <3>1
    <3> HIDE DEF n
    <3>3. confirmed' = [i \in 1..(n + 1) |-> line.frames[log'.tx[i]].msg]
      BY <3>1, <3>2 DEF confirmed
    <3>4. confirmed = [i \in 1..n |-> line.frames[log.tx[i]].msg]
      BY <3>2 DEF confirmed
    <3>5. Append(confirmed, SlotMsg(cd))
            = [i \in 1..(n + 1) |-> IF i = n + 1 THEN SlotMsg(cd) ELSE confirmed[i]]
      <4>1. confirmed \in Seq({line.frames[log.tx[i]].msg : i \in 1..n}) /\ Len(confirmed) = n
        BY <3>2, <3>4
      <4> HIDE DEF confirmed
      <4> QED
        BY <4>1, AppendIs
    <3>6. \A i \in 1..(n + 1) : line.frames[log'.tx[i]].msg
                                  = IF i = n + 1 THEN SlotMsg(cd) ELSE confirmed[i]
      BY <2>1, <3>2, <3>4
    <3> QED
      BY <3>3, <3>5, <3>6
  <2> QED
    BY <1>0, <2>4, <2>5, <2>6 DEF Fifo!Confirm, offered, confirmed
<1> QED
  BY <1>1, <1>2 DEF Moves

\* A step of can2040_transmit offers a message, adds it to the queue, or is a stutter.
LEMMA MainFifo ==
  QueueInv /\ Main => \/ \E m \in Msg : Fifo!Offer(m)
                      \/ Fifo!Accept
                      \/ UNCHANGED <<offered, Queued, confirmed>>
<1> SUFFICES ASSUME QueueInv, Main
             PROVE  \/ \E m \in Msg : Fifo!Offer(m)
                    \/ Fifo!Accept
                    \/ UNCHANGED <<offered, Queued, confirmed>>
  OBVIOUS
<1>0. /\ cd \in CdStates /\ app \in AppStates /\ QueueFits
      /\ Pending \in Nat /\ Queued \in Seq(Msg) /\ Len(Queued) = Pending
      /\ \A i \in 1..Pending : Queued[i] = QueuedMsg(i - 1)
      /\ QueueLen \in Nat /\ NoMsg \notin Msg
  BY QueueTypes, QueuedIs, Can2040Assumption, PioAssumption DEF QueueInv, DriverInv, TypeOK
<1>1. ASSUME NEW m \in Msg \cup {NoMsg}, Pending < QueueLen,
             cd' = [cd EXCEPT !.tx_queue[tx_qpos(cd.tx_push_pos)] = m]
      PROVE  Queued' = Queued
  <2>1. /\ Pending' = Pending
        /\ \A i \in 0..(QueueLen - 1) : i < Pending => QueuedMsg(i)' = QueuedMsg(i)
    BY <1>0, <1>1, WriteOutside
  <2>2. \A i \in 1..Pending : QueuedMsg(i - 1)' = QueuedMsg(i - 1)
    <3> TAKE i \in 1..Pending
    <3>1. i - 1 \in 0..(QueueLen - 1) /\ i - 1 < Pending
      BY <1>0, <1>1
    <3> QED
      BY <2>1, <3>1
  <2> QED
    BY <2>1, <2>2 DEF Queued
<1>2. ASSUME NEW m \in AppMsgs, TransmitBegin(m) PROVE \E x \in Msg : Fifo!Offer(x)
  <2>1. /\ NoMsg \in Msg \cup {NoMsg} /\ Pending < QueueLen /\ UNCHANGED <<line, pio, log>>
        /\ cd' = [cd EXCEPT !.tx_queue[tx_qpos(cd.tx_push_pos)] = NoMsg]
        /\ app.pc = "ready" /\ app'.pc = "copy" /\ app'.msg = m /\ m \in Msg
    BY <1>2, Can2040Assumption DEF TransmitBegin
  <2>2. Queued' = Queued
    BY <1>1, <2>1
  <2> QED
    BY <1>0, <2>1, <2>2 DEF Fifo!Offer
<1>3. CASE TransmitCopy
  <2>1. /\ app.msg \in Msg /\ Pending < QueueLen /\ UNCHANGED <<line, pio, log>>
        /\ cd' = [cd EXCEPT !.tx_queue[tx_qpos(cd.tx_push_pos)] = app.msg]
        /\ app.pc = "copy" /\ app'.pc = "submit" /\ app'.msg = app.msg
    BY <1>0, <1>3 DEF TransmitCopy, QueueFits, AppStates
  <2>2. Queued' = Queued
    BY <1>1, <2>1
  <2> QED
    BY <2>1, <2>2 DEF offered, confirmed
<1>4. CASE TransmitSubmit
  <2>1. /\ Pending < QueueLen /\ UNCHANGED <<line, pio, log>>
        /\ app.pc = "submit" /\ app'.pc = "wake"
        /\ cd' = [cd EXCEPT !.tx_push_pos = (cd.tx_push_pos + 1) % PosMod]
        /\ cd.tx_queue[tx_qpos(cd.tx_push_pos)] = app.msg /\ app.msg \in Msg
    BY <1>0, <1>4 DEF TransmitSubmit, QueueFits, AppStates
  <2>2. /\ Pending' = Pending + 1 /\ \A i \in Nat : QueuedMsg(i)' = QueuedMsg(i)
        /\ QueuedMsg(Pending) = app.msg
    BY <1>0, <2>1, WindowPushes
  <2>3. Queued' = Append(Queued, app.msg)
    <3>1. Append(Queued, app.msg)
            = [i \in 1..(Pending + 1) |-> IF i = Pending + 1 THEN app.msg ELSE Queued[i]]
      BY <1>0, <2>1
    <3>2. Queued' = [i \in 1..(Pending + 1) |-> QueuedMsg(i - 1)']
      BY <2>2 DEF Queued
    <3>3. \A i \in 1..(Pending + 1) :
             QueuedMsg(i - 1)' = IF i = Pending + 1 THEN app.msg ELSE Queued[i]
      <4> TAKE i \in 1..(Pending + 1)
      <4>1. /\ i - 1 \in Nat /\ QueuedMsg(i - 1)' = QueuedMsg(i - 1)
        BY <1>0, <2>2
      <4>2. i = Pending + 1 => i - 1 = Pending
        BY <1>0
      <4>3. i # Pending + 1 => i \in 1..Pending
        BY <1>0
      <4> QED
        BY <1>0, <2>2, <4>1, <4>2, <4>3
    <3> HIDE DEF Queued
    <3> QED
      BY <3>1, <3>2, <3>3
  <2> QED
    BY <1>0, <2>1, <2>3 DEF Fifo!Accept
<1>5. CASE TransmitWake \/ \E m \in AppMsgs : TransmitFull(m)
  <2>1. /\ UNCHANGED <<line, cd, log>>
        /\ app.pc \notin {"copy", "submit"} /\ app'.pc \notin {"copy", "submit"}
    BY <1>0, <1>5 DEF TransmitWake, TransmitFull, AppStates
  <2> QED
    BY <2>1 DEF offered, confirmed, Queued, Pending, QueuedMsg
<1> QED
  BY <1>2, <1>3, <1>4, <1>5 DEF Main

\* The started driver is an empty queue.
LEMMA FifoInit == Init => Fifo!Init
<1> SUFFICES ASSUME Init PROVE Fifo!Init
  OBVIOUS
<1>1. cd \in CdStates /\ cd.tx_push_pos = cd.tx_pull_pos
  BY InitHolds DEF Init, DriverInv, TypeOK
<1>2. Pending = 0
  BY <1>1, PendingIs
<1>3. Queued = <<>>
  BY <1>2 DEF Queued
<1>4. confirmed = <<>>
  BY DEF Init, confirmed
<1> QED
  BY <1>3, <1>4 DEF Fifo!Init, Init, confirmed

\* Every step of the driver is a step of the queue or a stutter.
LEMMA FifoStep == QueueInv /\ [Next]_vars => [Fifo!Next]_(Fifo!vars)
<1> SUFFICES ASSUME QueueInv, [Next]_vars PROVE [Fifo!Next]_(Fifo!vars)
  OBVIOUS
<1>1. UNCHANGED <<offered, Queued, confirmed>> => UNCHANGED Fifo!vars
  BY DEF Fifo!vars, offered, confirmed
<1>2. UNCHANGED vars => UNCHANGED <<offered, Queued, confirmed>>
  BY DEF vars, offered, Queued, confirmed, Pending, QueuedMsg
<1>3. CASE Wire
  BY <1>1, <1>3, WireFifo
<1>4. CASE Handler
  BY <1>1, <1>4, HandlerMoves, HandlerFifo DEF Fifo!Next
<1>5. CASE Main
  BY <1>1, <1>5, MainFifo DEF Fifo!Next
<1> QED
  BY <1>1, <1>2, <1>3, <1>4, <1>5 DEF Next

(* The driver implements the abstract first-in first-out queue: a call of  *)
(* can2040_transmit that found room is one accepted message, the callback  *)
(* of an own frame confirms the oldest one, and no other step, of wire,    *)
(* handler or main loop, adds, loses or reorders a message.                *)
THEOREM DriverImplementsFifo == Spec => FifoSpec
BY FifoInit, FifoStep, QueueInvariant, PTL DEF Spec, FifoSpec, Fifo!Spec
=============================================================================
