---------------------------- MODULE Can2040Proofs ----------------------------
(***************************************************************************)
(* Theorems about the CAN driver, for every set of messages, every length  *)
(* of the queue and width of its positions, any number of frames, faults,  *)
(* overruns and sends, and one or two cores.                               *)
(***************************************************************************)
EXTENDS Can2040Props, TLAPS

FrameThere == line.phase # "idle" => line.frames # <<>>

-----------------------------------------------------------------------------
(* Type correctness of the wire and the PIO state machines.                *)

\* The shift register with one more token is a sequence of tokens.
LEMMA SampledType ==
  ASSUME line \in LineStates, pio \in PioStates, NEW k \in Kinds
  PROVE  /\ Sampled(k, Last) \in Seq(Tokens)
         /\ Sampled(k, Last + 1) \in Seq(Tokens)
<1>1. Last \in Nat /\ pio.isr \in Seq(Tokens)
  BY DEF LineStates, PioStates, Last
<1>2. [k |-> k, n |-> Last] \in Tokens /\ [k |-> k, n |-> Last + 1] \in Tokens
  BY <1>1 DEF Tokens
<1> QED
  BY <1>1, <1>2 DEF Sampled

\* An emptied shift register or fifo is a sequence of tokens.
LEMMA EmptyType == <<>> \in Seq(Tokens)
OBVIOUS

\* What the match machine does when a key goes by keeps flags, tx and key typed.
LEMMA MatchType ==
  ASSUME pio \in PioStates, NEW kind
  PROVE  /\ MatchIrqs(kind) \in SUBSET SmIrqs
         /\ MatchTxSm(kind) \in TxSmStates
         /\ MatchLeft(kind) \in [kind : MatchKinds, n : Nat]
BY DEF PioStates, MatchIrqs, MatchTxSm, MatchLeft, SmIrqs, TxSmStates, NoKey, MatchKinds

(* The current frame with other fields is still a frame of the sequence.   *)
LEMMA FrameUpdateType ==
  ASSUME line \in LineStates, line.frames # <<>>
  PROVE  /\ Last \in DOMAIN line.frames
         /\ Frame \in Frames
         /\ \A f \in Frames : [line.frames EXCEPT ![Last] = f] \in Seq(Frames)
<1>1. line.frames \in Seq(Frames)
  BY DEF LineStates
<1>2. Last \in DOMAIN line.frames
  BY <1>1 DEF Last
<1> QED
  BY <1>1, <1>2 DEF Frame

\* A frame that starts leaves the wire typed and with a frame on it.
LEMMA NewFrameType ==
  ASSUME line \in LineStates, NEW src \in {"own", "peer"}, NEW m \in Msg \cup {NoMsg},
         src = "peer" => line.peers > 0, NewFrame(src, m)
  PROVE  line' \in LineStates /\ line'.frames # <<>>
<1> DEFINE f == [src |-> src, msg |-> m, ack |-> "none", ok |-> "no"]
<1>1. f \in Frames /\ line.frames \in Seq(Frames)
  BY DEF Frames, LineStates
<1>2. Append(line.frames, f) \in Seq(Frames) /\ Append(line.frames, f) # <<>>
  BY <1>1
<1>3. (IF src = "peer" THEN line.peers - 1 ELSE line.peers) \in Nat
  BY DEF LineStates
<1> HIDE DEF f
<1> QED
  BY <1>2, <1>3 DEF NewFrame, LineStates, Phases, f

\* The crc as a change of the registers, with the level of the tx fifo named.
LEMMA SendCrcIs ==
  ASSUME pio \in PioStates, NEW kind, SendCrc(kind)
  PROVE  \E left \in BOOLEAN :
           /\ left = (pio.flevel /\ Frame.src = "peer")
           /\ kind = "crc" =>
                pio' = [pio EXCEPT !.isr = Sampled("crc", Last), !.irqs = MatchIrqs("inject"),
                                   !.txsm = MatchTxSm("inject"), !.match = MatchLeft("inject"),
                                   !.sync = "count", !.flevel = left]
           /\ kind # "crc" =>
                pio' = [pio EXCEPT !.isr = Sampled(kind, Last), !.sync = "count",
                                   !.flevel = left]
<1> DEFINE left == pio.flevel /\ Frame.src = "peer"
<1>1. left \in BOOLEAN
  OBVIOUS
<1>2. kind = "crc" =>
        pio' = [pio EXCEPT !.isr = Sampled("crc", Last), !.irqs = MatchIrqs("inject"),
                           !.txsm = MatchTxSm("inject"), !.match = MatchLeft("inject"),
                           !.sync = "count", !.flevel = left]
  BY DEF SendCrc
<1>3. kind # "crc" =>
        pio' = [pio EXCEPT !.isr = Sampled(kind, Last), !.sync = "count", !.flevel = left]
  BY DEF SendCrc
<1>4. left = (pio.flevel /\ Frame.src = "peer")
  OBVIOUS
<1> HIDE DEF left
<1> QED
  BY <1>1, <1>2, <1>3, <1>4

WireTyped == line \in LineStates /\ pio \in PioStates /\ FrameThere

\* Every field of a frame that passes over the wire keeps wire and PIO block typed.
LEMMA FrameStepType == WireTyped /\ FrameStep => WireTyped'
<1> SUFFICES ASSUME WireTyped, FrameStep PROVE WireTyped'
  OBVIOUS
<1> USE DEF WireTyped
<1>1. ASSUME NEW k \in {"body", "rsv"}, SendBody(k) PROVE WireTyped'
  <2>1. Sampled(k, Last) \in Seq(Tokens)
    BY SampledType DEF Kinds
  <2>2. (IF k = "rsv" THEN line.faults - 1 ELSE line.faults) \in Nat
    BY <1>1 DEF SendBody, LineStates
  <2>3. line' \in LineStates /\ FrameThere'
    BY <1>1, <2>2 DEF SendBody, FrameThere, LineStates, Phases
  <2>4. pio' \in PioStates
    BY <1>1, <2>1 DEF SendBody, PioStates
  <2> QED
    BY <2>3, <2>4
<1>2. ASSUME NEW k \in {"crc", "badcrc"}, SendCrc(k) PROVE WireTyped'
  <2>1. Sampled(k, Last) \in Seq(Tokens)
    BY SampledType DEF Kinds
  <2>2. (IF k = "badcrc" THEN line.faults - 1 ELSE line.faults) \in Nat
    BY <1>2 DEF SendCrc, LineStates
  <2>3. line' \in LineStates /\ FrameThere'
    BY <1>2, <2>2 DEF SendCrc, FrameThere, LineStates, Phases
  <2>4. CASE k = "crc"
    <3>1. /\ MatchIrqs("inject") \in SUBSET SmIrqs
          /\ MatchTxSm("inject") \in TxSmStates
          /\ MatchLeft("inject") \in [kind : MatchKinds, n : Nat]
      BY MatchType
    <3>2. Sampled("crc", Last) \in Seq(Tokens)
      BY <2>1, <2>4
    <3>3. PICK left \in BOOLEAN :
            pio' = [pio EXCEPT !.isr = Sampled("crc", Last), !.irqs = MatchIrqs("inject"),
                               !.txsm = MatchTxSm("inject"), !.match = MatchLeft("inject"),
                               !.sync = "count", !.flevel = left]
      BY <1>2, <2>4, SendCrcIs
    <3> QED
      BY <2>3, <3>1, <3>2, <3>3 DEF PioStates
  <2>5. CASE k # "crc"
    BY <1>2, <2>1, <2>3, <2>5 DEF SendCrc, PioStates
  <2> QED
    BY <2>4, <2>5
<1>3. ASSUME NEW others \in BOOLEAN, NEW txend \in {"conflict", "drained"}, AckSlot(others, txend)
      PROVE  WireTyped'
  <2> DEFINE us == pio.txsm = "acking"
             a == IF us THEN "us" ELSE IF others THEN "other" ELSE "none"
             f == [Frame EXCEPT !.ack = a]
             k == IF us \/ others THEN "ack" ELSE "noack"
  <2>1. line.frames # <<>> /\ Last \in DOMAIN line.frames /\ Frame \in Frames
    BY <1>3, FrameUpdateType DEF AckSlot, FrameThere
  <2>2. f \in Frames
    BY <2>1 DEF Frames
  <2>3. [line.frames EXCEPT ![Last] = f] \in Seq(Frames)
    BY <2>1, <2>2, FrameUpdateType
  <2>4. Sampled(k, Last) \in Seq(Tokens)
    BY SampledType DEF Kinds
  <2>5. (Frame.src = "own" /\ ~(us \/ others)) => line.faults > 0
    BY <1>3 DEF AckSlot
  <2>6. line' \in LineStates /\ line'.frames # <<>>
    <3>1. line'.frames = [line.frames EXCEPT ![Last] = f]
      BY <1>3, <2>1 DEF AckSlot, Frame, LineStates
    <3>2. line'.frames # <<>>
      BY <2>1, <3>1
    <3>3. /\ line' = [line EXCEPT !.phase = "ack", !.frames = line'.frames, !.faults = line'.faults]
          /\ line'.faults \in Nat
      BY <1>3, <2>5 DEF AckSlot, LineStates
    <3> QED
      BY <2>3, <3>1, <3>2, <3>3 DEF LineStates, Phases
  <2>7. pio' \in PioStates
    BY <1>3, <2>4 DEF AckSlot, PioStates, SmIrqs, TxSmStates
  <2> QED
    BY <2>6, <2>7 DEF FrameThere
<1>4. ASSUME EofBit4 PROVE WireTyped'
  <2>1. Sampled("eof0", Last) \in Seq(Tokens)
    BY SampledType DEF Kinds
  <2> QED
    BY <1>4, <2>1 DEF EofBit4, FrameThere, LineStates, PioStates, Phases
<1>5. ASSUME NEW phase \in Phases, NEW ok \in {"rx", "tx"}, line.phase # "idle",
             line' = [line EXCEPT !.phase = phase,
                        !.frames[Last].ok = IF Frame.ack = "none" THEN @ ELSE ok]
      PROVE  line' \in LineStates /\ FrameThere'
  <2> DEFINE f == [Frame EXCEPT !.ok = IF Frame.ack = "none" THEN Frame.ok ELSE ok]
  <2>1. line.frames # <<>> /\ Last \in DOMAIN line.frames /\ Frame \in Frames
    BY <1>5, FrameUpdateType DEF FrameThere
  <2>2. f \in Frames
    BY <2>1 DEF Frames
  <2>3. [line.frames EXCEPT ![Last] = f] \in Seq(Frames)
    BY <2>1, <2>2, FrameUpdateType
  <2>4. line' = [line EXCEPT !.phase = phase, !.frames = [line.frames EXCEPT ![Last] = f]]
    BY <1>5, <2>1 DEF Frame, LineStates
  <2>5. [line.frames EXCEPT ![Last] = f] # <<>>
    BY <2>1
  <2> QED
    BY <2>3, <2>4, <2>5 DEF FrameThere, LineStates
<1>6. ASSUME EofBit6 PROVE WireTyped'
  <2>1. line' \in LineStates /\ FrameThere'
    BY <1>5, <1>6 DEF EofBit6, Phases
  <2> QED
    BY <1>6, <2>1, MatchType DEF EofBit6, PioStates
<1>7. ASSUME EofBit7 PROVE WireTyped'
  <2>1. line' \in LineStates /\ FrameThere'
    BY <1>5, <1>7 DEF EofBit7, Phases
  <2>2. MatchIrqs("txend") \in SUBSET SmIrqs /\ MatchLeft("txend") \in [kind : MatchKinds, n : Nat]
    BY MatchType
  <2>3. pio' \in PioStates
    BY <1>7, <2>2 DEF EofBit7, PioStates
  <2> QED
    BY <2>1, <2>3
<1>8. ASSUME Intermission PROVE WireTyped'
  <2>1. Sampled("eof1", Last) \in Seq(Tokens)
    BY SampledType DEF Kinds
  <2> QED
    BY <1>8, <2>1 DEF Intermission, FrameThere, LineStates, PioStates, Phases
<1>9. ASSUME Overload PROVE WireTyped'
  <2>1. Sampled(IF line.phase = "eof6" THEN "rxover" ELSE "over", Last) \in Seq(Tokens)
    BY SampledType DEF Kinds
  <2>2. line' \in LineStates /\ FrameThere'
    <3>1. line.faults - 1 \in Nat /\ line.phase # "idle"
      BY <1>9 DEF Overload, LineStates
    <3>2. line' = [line EXCEPT !.phase = "flag", !.faults = line.faults - 1]
      BY <1>9 DEF Overload
    <3> QED
      BY <3>1, <3>2 DEF FrameThere, LineStates, Phases
  <2>3. pio' \in PioStates
    BY <1>9, <2>1 DEF Overload, PioStates
  <2> QED
    BY <2>2, <2>3
<1>10. ASSUME NEW k \in {"err", "pas"}, Disturb(k) PROVE WireTyped'
  <2>1. Sampled(k, Last) \in Seq(Tokens)
    BY SampledType DEF Kinds
  <2>2. line' \in LineStates /\ FrameThere'
    <3> DEFINE free == \/ /\ Frame.src = "own" /\ pio.txsm # "sending"
                          /\ line.phase \in {"sof", "body"} /\ k = "pas"
                       \/ /\ Frame.src = "peer" /\ Frame.ack = "none"
                          /\ line.phase = "ack" /\ k = "err"
               faults == IF free THEN line.faults ELSE line.faults - 1
    <3>1. /\ line' = [line EXCEPT !.phase = "flag", !.faults = faults]
          /\ free \/ line.faults > 0
          /\ line.phase # "idle"
      BY <1>10 DEF Disturb
    <3>2. faults \in Nat
      BY <3>1 DEF LineStates
    <3> HIDE DEF faults
    <3> QED
      BY <3>1, <3>2 DEF FrameThere, LineStates, Phases
  <2>3. pio' \in PioStates
    BY <1>10, <2>1 DEF Disturb, PioStates, TxSmStates
  <2> QED
    BY <2>2, <2>3
<1>11. ASSUME RecoverLine PROVE WireTyped'
  <2>1. Sampled("idle", Last) \in Seq(Tokens)
    BY SampledType DEF Kinds
  <2> QED
    BY <1>11, <2>1 DEF RecoverLine, FrameThere, LineStates, PioStates, Phases
<1> QED
  BY <1>1, <1>2, <1>3, <1>4, <1>6, <1>7, <1>8, <1>9, <1>10, <1>11 DEF FrameStep

\* Every step of the wire, frames, idle bits and starts, keeps wire and PIO block typed.
LEMMA WireType == WireTyped /\ WireNext => WireTyped'
<1> SUFFICES ASSUME WireTyped, WireNext PROVE WireTyped'
  OBVIOUS
<1> USE DEF WireTyped
<1>1. ASSUME NEW txsm \in TxSmStates, NEW left \in BOOLEAN, StartOfFrame(txsm, left)
      PROVE  pio' \in PioStates
  <2>1. Sampled("sof", Last + 1) \in Seq(Tokens)
    BY SampledType DEF Kinds
  <2> QED
    BY <1>1, <2>1 DEF StartOfFrame, PioStates
<1>2. ASSUME StartOwn PROVE WireTyped'
  <2>1. pio.txmsg \in Msg \cup {NoMsg}
    BY DEF PioStates
  <2>2. line' \in LineStates /\ line'.frames # <<>>
    BY <1>2, <2>1, NewFrameType DEF StartOwn
  <2>3. PICK left \in BOOLEAN : StartOfFrame("sending", left)
    BY <1>2 DEF StartOwn
  <2> QED
    BY <1>1, <2>2, <2>3 DEF FrameThere, TxSmStates
<1>3. ASSUME NEW m \in PeerMsgs, StartPeer(m) \/ LoseArbitration(m) PROVE WireTyped'
  <2>1. m \in Msg \cup {NoMsg}
    BY PioAssumption
  <2>2. line' \in LineStates /\ line'.frames # <<>>
    BY <1>3, <2>1, NewFrameType DEF StartPeer, LoseArbitration
  <2>3. pio.txsm \in TxSmStates /\ "conflict" \in TxSmStates /\ pio.flevel \in BOOLEAN
    BY DEF PioStates, TxSmStates
  <2> QED
    BY <1>1, <1>3, <2>2, <2>3 DEF StartPeer, LoseArbitration, FrameThere
<1>4. ASSUME IdleBits PROVE WireTyped'
  <2>1. Sampled("idle", Last) \in Seq(Tokens)
    BY SampledType DEF Kinds
  <2>2. pio.fifo \o Sampled("idle", Last) \in Seq(Tokens)
    BY <2>1 DEF PioStates
  <2>3. pio' \in PioStates
    BY <1>4, <2>2, EmptyType DEF IdleBits, PioStates
  <2> QED
    BY <1>4, <2>3 DEF IdleBits, FrameThere
<1>5. ASSUME SignalMayTx PROVE WireTyped'
  BY <1>5 DEF SignalMayTx, PioStates, FrameThere, SmIrqs
<1>8. ASSUME CounterWraps PROVE WireTyped'
  <2>1. Sampled("idle", Last) \in Seq(Tokens)
    BY SampledType DEF Kinds
  <2>2. pio.fifo \o Sampled("idle", Last) \in Seq(Tokens)
    BY <2>1 DEF PioStates
  <2>3. pio' \in PioStates
    BY <1>8, <2>2, EmptyType DEF CounterWraps, PioStates
  <2>4. line.wraps - 1 \in Nat /\ line.faults - 1 \in Nat
    BY <1>8 DEF CounterWraps, LineStates
  <2>5. line' \in LineStates
    BY <1>8, <2>4 DEF CounterWraps, LineStates
  <2>6. FrameThere'
    BY <1>8 DEF CounterWraps, LineStates, FrameThere
  <2> QED
    BY <2>3, <2>5, <2>6
<1>9. ASSUME LongIdle PROVE WireTyped'
  <2>1. Sampled("long", Last) \in Seq(Tokens)
    BY SampledType DEF Kinds
  <2>2. pio.fifo \o Sampled("long", Last) \in Seq(Tokens)
    BY <2>1 DEF PioStates
  <2>3. pio' \in PioStates
    BY <1>9, <2>2, EmptyType DEF LongIdle, PioStates
  <2> QED
    BY <1>9, <2>3 DEF LongIdle, FrameThere
<1>6. ASSUME Push PROVE WireTyped'
  <2>1. pio.fifo \o pio.isr \in Seq(Tokens)
    BY DEF PioStates
  <2>2. pio' \in PioStates
    BY <1>6, <2>1, EmptyType DEF Push, PioStates
  <2> QED
    BY <1>6, <2>2 DEF Push, FrameThere
<1>7. ASSUME Overrun PROVE WireTyped'
  <2>1. line' \in LineStates /\ FrameThere'
    BY <1>7 DEF Overrun, LineStates, FrameThere
  <2>2. pio' \in PioStates
    BY <1>7, EmptyType DEF Overrun, PioStates
  <2> QED
    BY <2>1, <2>2
<1> QED
  BY <1>2, <1>3, <1>4, <1>5, <1>6, <1>7, <1>8, <1>9, FrameStepType DEF WireNext
-----------------------------------------------------------------------------
(* The driver's functions, as operators on worlds.                         *)

Worlds == [cd : CdStates, pio : PioStates, log : LogStates]

(* Between two interrupts: a frame is reported as transmitted only while   *)
(* the transmit state waits for its confirmation, and then neither ACKDONE *)
(* nor TXPENDING can make the handler schedule anything; the parser can    *)
(* take a frame for this node's own only after it masked TXPENDING.        *)
ParserInv(w) ==
  /\ InTx(w.cd.report_state) =>
       /\ w.cd.tx_state = "CONFIRM_TX"
       /\ w.pio.inte \subseteq {"MAYTX", "MATCHED", "RX_DATA"}
  /\ w.cd.parse_state \in {"DISCARD", "START", "HEADER"} => w.cd.report_state = "IDLE"
  /\ w.cd.parse_state = "HEADER" =>
       /\ w.pio.inte \subseteq {"MAYTX", "TXPENDING", "RX_DATA"}
       /\ w.cd.tx_state = "QUEUED" => "TXPENDING" \notin w.pio.inte

(* What the parser leaves alone: the push position, a raised TXPENDING     *)
(* flag, and the pull position unless a transmission was confirmed.        *)
Kept(w, v) ==
  /\ v.cd.tx_push_pos = w.cd.tx_push_pos
  /\ v.cd.tx_state \in {w.cd.tx_state, "CONFIRM_TX"}
  /\ v.cd.tx_pull_pos # w.cd.tx_pull_pos => v.cd.tx_state = "CONFIRM_TX"
  /\ "TXPENDING" \in w.pio.irqs => "TXPENDING" \in v.pio.irqs

Confirming(w) == InTx(w.cd.report_state) => w.cd.tx_state = "CONFIRM_TX"

\* A position of the queue taken modulo PosMod is a position.
LEMMA ModRange ==
  ASSUME NEW m \in Nat \ {0}, NEW x \in Int
  PROVE  x % m \in 0..(m - 1)
OBVIOUS

\* pio_irq_set changes the interrupt mask and nothing else of the handler's world.
LEMMA SetMaskWorld ==
  ASSUME NEW w \in Worlds, NEW mask \in SUBSET AllIrqs
  PROVE  /\ SetMask(w, mask) \in Worlds
         /\ SetMask(w, mask).cd = w.cd
         /\ SetMask(w, mask).pio.irqs = w.pio.irqs
         /\ SetMask(w, mask).pio.inte = mask \cup {"RX_DATA"}
BY DEF Worlds, SetMask, pio_irq_set, PioStates, AllIrqs

\* A new report_state keeps the handler's world typed.
LEMMA SetReportWorld ==
  ASSUME NEW w \in Worlds, NEW r \in {"IDLE", "RX_ACK", "RX_EOF", "TX_ACK", "TX_EOF"}
  PROVE  /\ SetReport(w, r) \in Worlds
         /\ SetReport(w, r).cd = [w.cd EXCEPT !.report_state = r]
         /\ SetReport(w, r).pio = w.pio
BY DEF Worlds, SetReport, CdStates

\* data_state_go_next keeps the handler's world typed.
LEMMA GoNextWorld ==
  ASSUME NEW w \in Worlds,
         NEW s \in {"START", "HEADER", "CRC", "ACK", "EOF0", "EOF1", "DISCARD"}
  PROVE  /\ GoNext(w, s) \in Worlds
         /\ GoNext(w, s).cd = [w.cd EXCEPT !.parse_state = s]
         /\ GoNext(w, s).pio = w.pio
BY DEF Worlds, GoNext, CdStates

\* A call of the application's callback keeps the handler's world typed.
LEMMA CallbackWorld ==
  ASSUME NEW w \in Worlds
  PROVE  /\ report_callback_rx_msg(w) \in Worlds
         /\ report_callback_rx_msg(w).cd = w.cd
         /\ report_callback_rx_msg(w).pio = w.pio
         /\ report_callback_tx_msg(w) \in Worlds
         /\ report_callback_tx_msg(w).pio = w.pio
         /\ \E pull \in 0..(PosMod - 1) :
               report_callback_tx_msg(w).cd = [w.cd EXCEPT !.tx_pull_pos = pull]
<1>1. w.cd.parse_msg \in Nat /\ w.log.rx \in Seq(Nat) /\ w.log.tx \in Seq(Nat)
  BY DEF Worlds, CdStates, LogStates
<1>2. Append(w.log.rx, w.cd.parse_msg) \in Seq(Nat) /\ Append(w.log.tx, w.cd.parse_msg) \in Seq(Nat)
  BY <1>1
<1>3. (w.cd.tx_pull_pos + 1) % PosMod \in 0..(PosMod - 1)
  <2>1. PosMod \in Nat \ {0}
    BY Can2040Assumption
  <2>2. w.cd.tx_pull_pos + 1 \in Int
    BY <2>1 DEF Worlds, CdStates
  <2> QED
    BY <2>1, <2>2, ModRange
<1>4. /\ report_callback_rx_msg(w) \in Worlds
      /\ report_callback_rx_msg(w).cd = w.cd
      /\ report_callback_rx_msg(w).pio = w.pio
  BY <1>2 DEF report_callback_rx_msg, Worlds, LogStates
<1>5. /\ report_callback_tx_msg(w).pio = w.pio
      /\ report_callback_tx_msg(w).cd = [w.cd EXCEPT !.tx_pull_pos = (w.cd.tx_pull_pos + 1) % PosMod]
  BY DEF report_callback_tx_msg, Worlds, CdStates
<1>6. report_callback_tx_msg(w) \in Worlds
  BY <1>2, <1>3 DEF report_callback_tx_msg, Worlds, LogStates, CdStates
<1> QED
  BY <1>3, <1>4, <1>5, <1>6

\* report_handle_eof keeps the handler's world typed.
LEMMA ReportHandleEofWorld ==
  ASSUME NEW w \in Worlds, Confirming(w)
  PROVE  /\ report_handle_eof(w) \in Worlds
         /\ report_handle_eof(w).cd.report_state = "IDLE"
         /\ report_handle_eof(w).cd.parse_state = w.cd.parse_state
         /\ report_handle_eof(w).cd.tx_state = w.cd.tx_state
         /\ report_handle_eof(w).pio.inte = w.pio.inte
         /\ Kept(w, report_handle_eof(w))
<1> DEFINE reported == CASE w.cd.report_state = "TX_EOF" -> report_callback_tx_msg(w)
                         [] w.cd.report_state = "RX_EOF" -> report_callback_rx_msg(w)
                         [] OTHER -> w
<1>1. reported \in Worlds /\ reported.pio = w.pio
  BY CallbackWorld
<1>2. /\ reported.cd.parse_state = w.cd.parse_state
      /\ reported.cd.tx_state = w.cd.tx_state
      /\ reported.cd.tx_push_pos = w.cd.tx_push_pos
      /\ reported.cd.tx_pull_pos # w.cd.tx_pull_pos => w.cd.tx_state = "CONFIRM_TX"
  <2>1. CASE w.cd.report_state = "TX_EOF"
    <3>1. w.cd.tx_state = "CONFIRM_TX"
      BY <2>1 DEF Confirming, InTx
    <3>2. PICK pull \in 0..(PosMod - 1) : reported.cd = [w.cd EXCEPT !.tx_pull_pos = pull]
      BY <2>1, CallbackWorld
    <3> HIDE DEF reported
    <3> QED
      BY <3>1, <3>2 DEF Worlds, CdStates
  <2>2. CASE w.cd.report_state # "TX_EOF"
    BY <2>2, CallbackWorld
  <2> QED
    BY <2>1, <2>2
<1> HIDE DEF reported
<1> DEFINE v == SetReport(reported, "IDLE")
<1>3. /\ v \in Worlds /\ v.cd = [reported.cd EXCEPT !.report_state = "IDLE"]
      /\ v.pio = w.pio
  BY <1>1, SetReportWorld
<1>4. /\ v.cd.report_state = "IDLE" /\ v.cd.parse_state = w.cd.parse_state
      /\ v.cd.tx_state = w.cd.tx_state /\ v.cd.tx_push_pos = w.cd.tx_push_pos
      /\ v.cd.tx_pull_pos # w.cd.tx_pull_pos => w.cd.tx_state = "CONFIRM_TX"
  BY <1>1, <1>2, <1>3 DEF Worlds, CdStates
<1>5. report_handle_eof(w) = [v EXCEPT !.pio = pio_match_clear(v.pio)]
  BY <1>3 DEF report_handle_eof, reported, Worlds
<1> HIDE DEF v
<1>6. /\ pio_match_clear(v.pio) \in PioStates
      /\ pio_match_clear(v.pio).inte = w.pio.inte /\ pio_match_clear(v.pio).irqs = w.pio.irqs
  BY <1>3 DEF pio_match_clear, Worlds, PioStates, NoKey, MatchKinds
<1> QED
  BY <1>3, <1>4, <1>5, <1>6 DEF Worlds, Kept
-----------------------------------------------------------------------------
(* The parser.                                                             *)

\* Kept, what a part of the parser leaves alone, holds of parts in sequence.
LEMMA KeptTransitive ==
  ASSUME NEW u, NEW v, NEW w, Kept(u, v), Kept(v, w)
  PROVE  Kept(u, w)
BY DEF Kept

(* Discarding the frame ends every report.                                 *)
LEMMA GoDiscardWorld ==
  ASSUME NEW w \in Worlds
  PROVE  /\ data_state_go_discard(w) \in Worlds
         /\ ParserInv(data_state_go_discard(w))
         /\ Kept(w, data_state_go_discard(w))
<1> DEFINE r == IF pio_rx_check_stall(w.pio)
                THEN [w EXCEPT !.pio = pio_sm_setup(w.pio), !.log.err = TRUE]
                ELSE w
           d == GoNext(r, "DISCARD")
           c == IF d.cd.report_state = "IDLE" THEN d
                ELSE [SetReport(d, "IDLE") EXCEPT !.pio = pio_match_clear(SetReport(d, "IDLE").pio)]
           v == SetMask(c, {"MAYTX", "TXPENDING"})
<1>1. pio_sm_setup(w.pio) \in PioStates /\ "TXPENDING" \in pio_sm_setup(w.pio).irqs
  BY EmptyType DEF Worlds, pio_sm_setup, PioStates, SmIrqs, NoKey, MatchKinds, TxSmStates
<1>2. r \in Worlds /\ r.cd = w.cd /\ ("TXPENDING" \in w.pio.irqs => "TXPENDING" \in r.pio.irqs)
  BY <1>1 DEF Worlds, LogStates
<1> HIDE DEF r
<1>3. d \in Worlds /\ d.cd = [w.cd EXCEPT !.parse_state = "DISCARD"] /\ d.pio = r.pio
  BY <1>2, GoNextWorld
<1>4. d.cd.parse_state = "DISCARD" /\ d.cd.tx_state = w.cd.tx_state
      /\ d.cd.tx_push_pos = w.cd.tx_push_pos /\ d.cd.tx_pull_pos = w.cd.tx_pull_pos
  BY <1>3 DEF Worlds, CdStates
<1> HIDE DEF d
<1>5. /\ c \in Worlds /\ c.cd.report_state = "IDLE" /\ c.cd.parse_state = "DISCARD"
      /\ c.cd.tx_state = w.cd.tx_state /\ c.cd.tx_push_pos = w.cd.tx_push_pos
      /\ c.cd.tx_pull_pos = w.cd.tx_pull_pos /\ c.pio.irqs = r.pio.irqs
  <2>1. CASE d.cd.report_state = "IDLE"
    BY <1>3, <1>4, <2>1
  <2>2. CASE d.cd.report_state # "IDLE"
    <3>1. /\ SetReport(d, "IDLE") \in Worlds
          /\ SetReport(d, "IDLE").cd = [d.cd EXCEPT !.report_state = "IDLE"]
          /\ SetReport(d, "IDLE").pio = d.pio
      BY <1>3, SetReportWorld
    <3>2. pio_match_clear(d.pio) \in PioStates /\ pio_match_clear(d.pio).irqs = d.pio.irqs
      BY <1>3 DEF pio_match_clear, Worlds, PioStates, NoKey, MatchKinds
    <3>3. c = [SetReport(d, "IDLE") EXCEPT !.pio = pio_match_clear(d.pio)]
      BY <2>2, <3>1
    <3> HIDE DEF c
    <3> QED
      BY <1>3, <1>4, <3>1, <3>2, <3>3 DEF Worlds, CdStates
  <2> QED
    BY <2>1, <2>2
<1> HIDE DEF c
<1>6. v \in Worlds /\ v.cd = c.cd /\ v.pio.irqs = c.pio.irqs
  BY <1>5, SetMaskWorld DEF AllIrqs, SmIrqs
<1>7. data_state_go_discard(w) = v
  BY DEF data_state_go_discard, report_note_discarding, v, c, d, r
<1> HIDE DEF v
<1> QED
  BY <1>2, <1>5, <1>6, <1>7 DEF ParserInv, Kept, InTx

(* What holds after one word of the rx fifo was processed.                 *)
Step(w, v) == v \in Worlds /\ ParserInv(v) /\ Kept(w, v)

\* data_state_go_discard and its callers, with or without a restart of the PIO, are a parser step.
LEMMA GoErrorWorld ==
  ASSUME NEW w \in Worlds
  PROVE  /\ Step(w, data_state_go_error(w))
         /\ Step(w, data_state_go_discard(w))
         /\ Step(w, data_state_line_error(w))
BY GoDiscardWorld DEF data_state_go_error, data_state_line_error, Step

(* Going to a state that only moves the parser on.                         *)
LEMMA GoOnWorld ==
  ASSUME NEW w \in Worlds, ParserInv(w), NEW s \in {"START", "CRC", "ACK", "EOF0", "EOF1"},
         s = "START" => w.cd.report_state = "IDLE"
  PROVE  Step(w, GoNext(w, s))
<1> DEFINE v == GoNext(w, s)
<1>1. v \in Worlds /\ v.cd = [w.cd EXCEPT !.parse_state = s] /\ v.pio = w.pio
  BY GoNextWorld
<1>2. /\ v.cd.parse_state = s /\ v.cd.report_state = w.cd.report_state
      /\ v.cd.tx_state = w.cd.tx_state
      /\ v.cd.tx_push_pos = w.cd.tx_push_pos /\ v.cd.tx_pull_pos = w.cd.tx_pull_pos
  BY <1>1 DEF Worlds, CdStates
<1> HIDE DEF v
<1>3. ParserInv(v) /\ Kept(w, v)
  BY <1>1, <1>2 DEF ParserInv, Kept
<1> QED
  BY <1>1, <1>3 DEF Step, v

\* A restart of the PIO block alone: typed, and TXPENDING is raised.
LEMMA RestartWorld ==
  ASSUME NEW w \in Worlds
  PROVE  /\ [w EXCEPT !.pio = pio_sm_setup(w.pio)] \in Worlds
         /\ Kept(w, [w EXCEPT !.pio = pio_sm_setup(w.pio)])
<1>1. pio_sm_setup(w.pio) \in PioStates /\ "TXPENDING" \in pio_sm_setup(w.pio).irqs
  BY EmptyType DEF Worlds, pio_sm_setup, PioStates, SmIrqs, NoKey, MatchKinds, TxSmStates
<1> QED
  BY <1>1 DEF Worlds, Kept

\* data_state_line_passive is a parser step, the restart on an overflow included.
LEMMA LinePassiveWorld ==
  ASSUME NEW w \in Worlds, ParserInv(w), NEW run \in {"six", "ten", "all"}
  PROVE  Step(w, data_state_line_passive(w, run))
<1>1. CASE w.cd.parse_state \notin {"DISCARD", "START"}
  BY <1>1, GoErrorWorld DEF data_state_line_passive
<1>2. CASE w.cd.parse_state \in {"DISCARD", "START"} /\ run = "ten"
  <2>1. w.cd.report_state = "IDLE"
    BY <1>2 DEF ParserInv
  <2> QED
    BY <1>2, <2>1, GoOnWorld DEF data_state_line_passive
<1>3. CASE w.cd.parse_state \in {"DISCARD", "START"} /\ run = "six"
  BY <1>3, GoErrorWorld DEF data_state_line_passive
<1>4. CASE w.cd.parse_state \in {"DISCARD", "START"} /\ run = "all"
  <2> DEFINE u == [w EXCEPT !.pio = pio_sm_setup(w.pio)]
  <2>1. u \in Worlds /\ Kept(w, u)
    BY RestartWorld
  <2>2. data_state_line_passive(w, run) = data_state_go_discard(u)
    BY <1>4 DEF data_state_line_passive
  <2> HIDE DEF u
  <2>3. Step(u, data_state_go_discard(u))
    BY <2>1, GoErrorWorld
  <2> QED
    BY <2>1, <2>2, <2>3, KeptTransitive DEF Step
<1> QED
  BY <1>1, <1>2, <1>3, <1>4

\* Ten passive bits one by one are a parser step.
LEMMA TenPassiveWorld ==
  ASSUME NEW w \in Worlds, ParserInv(w)
  PROVE  Step(w, TenPassive(w))
<1> DEFINE six == data_state_line_passive(w, "six")
<1>1. Step(w, six)
  BY LinePassiveWorld
<1>2. TenPassive(w) \in {six, data_state_line_passive(six, "ten")}
  BY DEF TenPassive
<1> HIDE DEF six
<1>3. Step(six, data_state_line_passive(six, "ten"))
  BY <1>1, LinePassiveWorld DEF Step
<1> QED
  BY <1>1, <1>2, <1>3, KeptTransitive DEF Step

\* data_state_update_start keeps the handler's world typed.
LEMMA UpdateStartWorld ==
  ASSUME NEW w \in Worlds, ParserInv(w), NEW n \in Nat, w.cd.parse_state = "START"
  PROVE  Step(w, data_state_update_start(w, n))
<1> DEFINE h == [GoNext(w, "HEADER") EXCEPT !.cd.parse_msg = n]
           v == SetMask(h, {"MAYTX"})
<1>1. h \in Worlds /\ h.pio = w.pio /\ h.cd = [w.cd EXCEPT !.parse_state = "HEADER", !.parse_msg = n]
  <2> DEFINE g == GoNext(w, "HEADER")
  <2>1. g \in Worlds /\ g.cd = [w.cd EXCEPT !.parse_state = "HEADER"] /\ g.pio = w.pio
    BY GoNextWorld
  <2>2. h = [g EXCEPT !.cd = [g.cd EXCEPT !.parse_msg = n]]
    BY <2>1 DEF Worlds
  <2> HIDE DEF g, h
  <2> QED
    BY <2>1, <2>2 DEF Worlds, CdStates
<1> HIDE DEF h
<1>2. v \in Worlds /\ v.cd = h.cd /\ v.pio.irqs = w.pio.irqs /\ v.pio.inte = {"MAYTX", "RX_DATA"}
  BY <1>1, SetMaskWorld DEF AllIrqs, SmIrqs
<1>3. data_state_update_start(w, n) = v
  BY DEF data_state_update_start, v, h
<1>4. /\ v.cd.report_state = "IDLE" /\ v.cd.tx_state = w.cd.tx_state
      /\ v.cd.tx_push_pos = w.cd.tx_push_pos /\ v.cd.tx_pull_pos = w.cd.tx_pull_pos
  BY <1>1, <1>2 DEF Worlds, CdStates, ParserInv
<1> HIDE DEF v
<1> QED
  BY <1>2, <1>3, <1>4 DEF Step, ParserInv, Kept, InTx

(* The report of a frame begins: TX_ACK for this node's own, with          *)
(* TXPENDING masked since the start of the frame, RX_ACK otherwise.        *)
LEMMA GoCrcWorld ==
  ASSUME NEW w \in Worlds, ParserInv(w), w.cd.parse_state = "HEADER"
  PROVE  Step(w, data_state_go_crc(w))
<1>1. CASE tx_check_local_message(w) = -1
  BY <1>1, GoErrorWorld DEF data_state_go_crc
<1>2. CASE tx_check_local_message(w) = 1
  <2> DEFINE r == SetReport(w, "TX_ACK")
             c == [r EXCEPT !.cd.tx_state = "CONFIRM_TX",
                            !.pio = pio_match_check(r.pio, "txend", w.cd.parse_msg)]
             v == GoNext(c, "CRC")
  <2>1. w.cd.tx_state = "QUEUED"
    BY <1>2 DEF tx_check_local_message
  <2>2. w.pio.inte \subseteq {"MAYTX", "RX_DATA"}
    BY <2>1 DEF ParserInv
  <2>3. r \in Worlds /\ r.cd = [w.cd EXCEPT !.report_state = "TX_ACK"] /\ r.pio = w.pio
    BY SetReportWorld
  <2> HIDE DEF r
  <2>4. /\ pio_match_check(r.pio, "txend", w.cd.parse_msg) \in PioStates
        /\ pio_match_check(r.pio, "txend", w.cd.parse_msg).irqs = w.pio.irqs
        /\ pio_match_check(r.pio, "txend", w.cd.parse_msg).inte = w.pio.inte
    BY <2>3 DEF pio_match_check, Worlds, PioStates, MatchKinds, CdStates
  <2>5. /\ c \in Worlds
        /\ c.cd = [w.cd EXCEPT !.report_state = "TX_ACK", !.tx_state = "CONFIRM_TX"]
        /\ c.pio.irqs = w.pio.irqs /\ c.pio.inte = w.pio.inte
    BY <2>3, <2>4 DEF Worlds, CdStates
  <2>6. data_state_go_crc(w) = v
    BY <1>2, <2>3 DEF data_state_go_crc, report_note_crc_start, c, r, v, Worlds
  <2> HIDE DEF c
  <2>7. v \in Worlds /\ v.cd = [c.cd EXCEPT !.parse_state = "CRC"] /\ v.pio = c.pio
    BY <2>5, GoNextWorld
  <2>8. /\ v.cd.parse_state = "CRC" /\ v.cd.tx_state = "CONFIRM_TX"
        /\ v.cd.tx_push_pos = w.cd.tx_push_pos /\ v.cd.tx_pull_pos = w.cd.tx_pull_pos
    BY <2>5, <2>7 DEF Worlds, CdStates
  <2> HIDE DEF v
  <2> QED
    BY <2>2, <2>5, <2>6, <2>7, <2>8 DEF Step, ParserInv, Kept
<1>3. CASE tx_check_local_message(w) = 0
  <2> DEFINE r == SetReport(w, "RX_ACK")
             p == pio_irq_set(pio_signal_set_txpending(r.pio), {"MAYTX", "TXPENDING"})
             c == [r EXCEPT !.pio = p]
             v == GoNext(c, "CRC")
  <2>1. r \in Worlds /\ r.cd = [w.cd EXCEPT !.report_state = "RX_ACK"] /\ r.pio = w.pio
    BY SetReportWorld
  <2>2. data_state_go_crc(w) = v
    BY <1>3, <2>1 DEF data_state_go_crc, report_note_crc_start, c, r, p, v, Worlds
  <2> HIDE DEF r
  <2>3. p \in PioStates /\ "TXPENDING" \in p.irqs
    BY <2>1 DEF Worlds, PioStates, pio_irq_set, pio_signal_set_txpending, SmIrqs, AllIrqs
  <2> HIDE DEF p
  <2>4. c \in Worlds /\ c.cd = r.cd /\ c.pio = p
    BY <2>1, <2>3 DEF Worlds
  <2> HIDE DEF c
  <2>5. v \in Worlds /\ v.cd = [c.cd EXCEPT !.parse_state = "CRC"] /\ v.pio = p
    BY <2>4, GoNextWorld
  <2> HIDE DEF v
  <2>6. /\ v.cd.parse_state = "CRC" /\ v.cd.report_state = "RX_ACK"
        /\ v.cd.tx_state = w.cd.tx_state
        /\ v.cd.tx_push_pos = w.cd.tx_push_pos /\ v.cd.tx_pull_pos = w.cd.tx_pull_pos
    BY <2>1, <2>4, <2>5 DEF Worlds, CdStates
  <2> QED
    BY <2>2, <2>3, <2>5, <2>6 DEF Step, ParserInv, Kept, InTx
<1> QED
  BY <1>1, <1>2, <1>3 DEF tx_check_local_message
\* Two parts of a parser step compose to one.
LEMMA StepTransitive ==
  ASSUME NEW u, NEW v, NEW w, Step(u, v), Step(v, w)
  PROVE  Step(u, w)
BY KeptTransitive DEF Step

\* report_note_crc_success keeps the handler's world typed.
LEMMA CrcSuccessWorld ==
  ASSUME NEW w \in Worlds, ParserInv(w), w.cd.parse_state = "CRC"
  PROVE  Step(w, report_note_crc_success(w))
<1>1. CASE w.cd.report_state = "TX_ACK"
  <2> DEFINE v == SetMask(w, {"MAYTX", "MATCHED"})
  <2>1. /\ v \in Worlds /\ v.cd = w.cd /\ v.pio.irqs = w.pio.irqs
        /\ v.pio.inte = {"MAYTX", "MATCHED", "RX_DATA"}
    BY SetMaskWorld DEF AllIrqs, SmIrqs
  <2>2. report_note_crc_success(w) = v
    BY <1>1 DEF report_note_crc_success
  <2> HIDE DEF v
  <2> QED
    BY <2>1, <2>2 DEF Step, ParserInv, Kept
<1>2. CASE w.cd.report_state # "TX_ACK"
  BY <1>2 DEF report_note_crc_success, Step, Kept
<1> QED
  BY <1>1, <1>2

\* report_note_ack_success keeps the handler's world typed.
LEMMA AckSuccessWorld ==
  ASSUME NEW w \in Worlds, ParserInv(w), w.cd.parse_state = "ACK"
  PROVE  Step(w, report_note_ack_success(w))
<1>1. CASE w.cd.report_state # "IDLE"
  <2> DEFINE r == WithEof(w.cd.report_state)
             v == SetReport(w, r)
  <2>1. r \in {"RX_EOF", "TX_EOF"} /\ (InTx(r) <=> InTx(w.cd.report_state))
    BY DEF WithEof, InTx
  <2> HIDE DEF r
  <2>2. v \in Worlds /\ v.cd = [w.cd EXCEPT !.report_state = r] /\ v.pio = w.pio
    BY <2>1, SetReportWorld
  <2>3. report_note_ack_success(w) = v
    BY <1>1 DEF report_note_ack_success, r
  <2> HIDE DEF v
  <2>4. /\ v.cd.parse_state = "ACK" /\ v.cd.report_state = r /\ v.cd.tx_state = w.cd.tx_state
        /\ v.cd.tx_push_pos = w.cd.tx_push_pos /\ v.cd.tx_pull_pos = w.cd.tx_pull_pos
    BY <2>2 DEF Worlds, CdStates
  <2> QED
    BY <2>1, <2>2, <2>3, <2>4 DEF Step, ParserInv, Kept
<1>2. CASE w.cd.report_state = "IDLE"
  BY <1>2 DEF report_note_ack_success, Step, Kept
<1> QED
  BY <1>1, <1>2

\* report_note_eof_success keeps the handler's world typed.
LEMMA EofSuccessWorld ==
  ASSUME NEW w \in Worlds, ParserInv(w), w.cd.parse_state = "EOF1"
  PROVE  /\ Step(w, report_note_eof_success(w))
         /\ report_note_eof_success(w).cd.report_state = "IDLE"
<1>1. CASE w.cd.report_state # "IDLE"
  <2> DEFINE h == report_handle_eof(w)
             v == SetMask(h, {"TXPENDING"})
  <2>1. /\ h \in Worlds /\ h.cd.report_state = "IDLE" /\ h.cd.parse_state = "EOF1"
        /\ Kept(w, h)
    BY ReportHandleEofWorld DEF Confirming, ParserInv
  <2> HIDE DEF h
  <2>2. v \in Worlds /\ v.cd = h.cd /\ v.pio.irqs = h.pio.irqs
    BY <2>1, SetMaskWorld DEF AllIrqs, SmIrqs
  <2>3. report_note_eof_success(w) = v
    BY <1>1 DEF report_note_eof_success, h
  <2> HIDE DEF v
  <2> QED
    BY <2>1, <2>2, <2>3 DEF Step, ParserInv, Kept, InTx
<1>2. CASE w.cd.report_state = "IDLE"
  BY <1>2 DEF report_note_eof_success, Step, Kept
<1> QED
  BY <1>1, <1>2

\* data_state_update_header keeps the handler's world typed.
LEMMA UpdateHeaderWorld ==
  ASSUME NEW w \in Worlds, ParserInv(w), w.cd.parse_state = "HEADER", NEW kind
  PROVE  Step(w, data_state_update_header(w, kind))
<1>1. CASE kind = "body"
  BY <1>1, GoCrcWorld DEF data_state_update_header
<1>2. CASE kind = "rsv"
  BY <1>2, GoErrorWorld DEF data_state_update_header
<1>3. CASE kind # "body" /\ kind # "rsv"
  BY <1>3, GoErrorWorld DEF data_state_update_header
<1> QED
  BY <1>1, <1>2, <1>3

\* data_state_update_crc keeps the handler's world typed.
LEMMA UpdateCrcWorld ==
  ASSUME NEW w \in Worlds, ParserInv(w), w.cd.parse_state = "CRC", NEW kind
  PROVE  Step(w, data_state_update_crc(w, kind))
<1> DEFINE r == report_note_crc_success(w)
<1>1. Step(w, r)
  BY CrcSuccessWorld
<1>2. Step(r, GoNext(r, "ACK"))
  BY <1>1, GoOnWorld DEF Step
<1> QED
  BY <1>1, <1>2, StepTransitive, GoErrorWorld DEF data_state_update_crc

\* data_state_update_ack keeps the handler's world typed.
LEMMA UpdateAckWorld ==
  ASSUME NEW w \in Worlds, ParserInv(w), w.cd.parse_state = "ACK", NEW kind
  PROVE  Step(w, data_state_update_ack(w, kind))
<1> DEFINE r == report_note_ack_success(w)
<1>1. Step(w, r)
  BY AckSuccessWorld
<1>2. Step(r, GoNext(r, "EOF0"))
  BY <1>1, GoOnWorld DEF Step
<1> QED
  BY <1>1, <1>2, StepTransitive, GoErrorWorld DEF data_state_update_ack

\* data_state_update_eof0 keeps the handler's world typed.
LEMMA UpdateEof0World ==
  ASSUME NEW w \in Worlds, ParserInv(w), w.cd.parse_state = "EOF0", NEW kind
  PROVE  Step(w, data_state_update_eof0(w, kind))
<1>1. Step(w, GoNext(w, "EOF1"))
  BY GoOnWorld
<1> QED
  BY <1>1, GoErrorWorld DEF data_state_update_eof0

\* data_state_update_eof1 keeps the handler's world typed.
LEMMA UpdateEof1World ==
  ASSUME NEW w \in Worlds, ParserInv(w), w.cd.parse_state = "EOF1", NEW kind
  PROVE  Step(w, data_state_update_eof1(w, kind))
<1> DEFINE r == report_note_eof_success(w)
<1>1. Step(w, r) /\ r.cd.report_state = "IDLE"
  BY EofSuccessWorld
<1>2. Step(r, GoNext(r, "START"))
  BY <1>1, GoOnWorld DEF Step
<1>3. Step(r, data_state_go_discard(r))
  BY <1>1, GoErrorWorld DEF Step
<1>4. Step(w, data_state_go_error(w))
  BY GoErrorWorld
<1> HIDE DEF r
<1>5. data_state_update_eof1(w, kind) \in
        {GoNext(r, "START"), data_state_go_discard(r), data_state_go_error(w)}
  BY DEF data_state_update_eof1, r
<1> QED
  BY <1>1, <1>2, <1>3, <1>4, <1>5, StepTransitive

\* One word of the rx fifo, in whatever state the parser is, keeps the handler's world typed.
LEMMA ProcessRxWorld ==
  ASSUME NEW w \in Worlds, ParserInv(w), NEW t \in Tokens, NEW again \in BOOLEAN
  PROVE  Step(w, process_rx(w, t, again))
<1> DEFINE s == w.cd.parse_state
<1>1. t.n \in Nat /\ s \in {"START", "HEADER", "CRC", "ACK", "EOF0", "EOF1", "DISCARD"}
  BY DEF Tokens, Worlds, CdStates
<1>2. CASE t.k = "err"
  BY <1>2, GoErrorWorld DEF process_rx
<1>3. CASE t.k = "pas"
  BY <1>3, LinePassiveWorld DEF process_rx
<1>4. CASE t.k = "idle"
  BY <1>4, LinePassiveWorld, TenPassiveWorld DEF process_rx
<1>6. CASE t.k = "long"
  BY <1>6, LinePassiveWorld DEF process_rx
<1>5. CASE t.k \notin {"err", "pas", "long", "idle"}
  <2>1. CASE s = "START"
    BY <1>1, <1>5, <2>1, UpdateStartWorld DEF process_rx
  <2>2. CASE s = "HEADER"
    BY <1>5, <2>2, UpdateHeaderWorld DEF process_rx
  <2>3. CASE s = "CRC"
    BY <1>5, <2>3, UpdateCrcWorld DEF process_rx
  <2>4. CASE s = "ACK"
    BY <1>5, <2>4, UpdateAckWorld DEF process_rx
  <2>5. CASE s = "EOF0"
    BY <1>5, <2>5, UpdateEof0World DEF process_rx
  <2>6. CASE s = "EOF1"
    BY <1>5, <2>6, UpdateEof1World DEF process_rx
  <2>7. CASE s = "DISCARD" /\ t.k = "eof1"
    BY <1>5, <2>7, TenPassiveWorld DEF process_rx
  <2>8. CASE s = "DISCARD" /\ t.k # "eof1" /\ again
    BY <1>5, <2>8, GoErrorWorld DEF process_rx
  <2>9. CASE s = "DISCARD" /\ t.k # "eof1" /\ ~again
    <3>1. process_rx(w, t, again) = w
      BY <1>5, <2>9 DEF process_rx
    <3> QED
      BY <3>1 DEF Step, Kept
  <2> QED
    BY <1>1, <2>1, <2>2, <2>3, <2>4, <2>5, <2>6, <2>7, <2>8, <2>9
<1> QED
  BY <1>2, <1>3, <1>4, <1>5, <1>6
-----------------------------------------------------------------------------
(* The handler and the main loop.                                          *)

(* No wakeup is lost: WakeupPending, over the positions themselves.        *)
Awake ==
  /\ cd.tx_state = "IDLE" /\ cd.tx_push_pos # cd.tx_pull_pos
  /\ app.pc # "wake" /\ irq.pc \notin {"clear", "reread"}
  => "TXPENDING" \in pio.irqs

HandlerInv ==
  /\ ParserInv(World)
  /\ irq.pc = "loop" =>
       /\ irq.ints \subseteq pio.inte
       /\ "RX_DATA" \in irq.ints => pio.fifo # <<>>
  /\ irq.pc \in {"sched", "clear", "reread"} =>
       /\ ~InTx(cd.report_state)
       /\ "TXPENDING" \notin irq.mask
       /\ cd.parse_state = "HEADER" => irq.mask \subseteq {"MAYTX", "RX_DATA"}
  /\ irq.pc \in {"clear", "reread"} => cd.tx_state = "IDLE"
  /\ Awake

DriverInv == TypeOK /\ FrameThere /\ HandlerInv

\* The variables of a typed state make a typed world for the parser to start from.
LEMMA WorldType == TypeOK => World \in Worlds
BY DEF TypeOK, World, Worlds

(* The wire neither changes the mask nor drops TXPENDING, and it only adds *)
(* to the rx fifo.                                                         *)
LEMMA WireKeeps ==
  ASSUME WireTyped, WireNext
  PROVE  /\ pio'.inte = pio.inte
         /\ "TXPENDING" \in pio.irqs => "TXPENDING" \in pio'.irqs
         /\ pio.fifo # <<>> => pio'.fifo # <<>>
<1> DEFINE Keeps == /\ pio'.inte = pio.inte
                    /\ "TXPENDING" \in pio.irqs => "TXPENDING" \in pio'.irqs
                    /\ pio.fifo # <<>> => pio'.fifo # <<>>
<1> USE DEF WireTyped
<1>1. ASSUME NEW txsm, NEW left, StartOfFrame(txsm, left) PROVE Keeps
  BY <1>1 DEF StartOfFrame, PioStates
<1>2. ASSUME NEW kind PROVE "TXPENDING" \in pio.irqs => "TXPENDING" \in MatchIrqs(kind)
  BY DEF MatchIrqs
<1>3. ASSUME NEW k \in {"body", "rsv"}, SendBody(k) PROVE Keeps
  BY <1>3 DEF SendBody, PioStates
<1>4. ASSUME NEW k \in {"crc", "badcrc"}, SendCrc(k) PROVE Keeps
  <2>1. "TXPENDING" \in pio.irqs => "TXPENDING" \in MatchIrqs("inject")
    BY <1>2
  <2>2. CASE k = "crc"
    BY <1>4, <2>1, <2>2 DEF SendCrc, PioStates
  <2>3. CASE k # "crc"
    BY <1>4, <2>3 DEF SendCrc, PioStates
  <2> QED
    BY <2>2, <2>3
<1>5. ASSUME NEW others \in BOOLEAN, NEW txend \in {"conflict", "drained"}, AckSlot(others, txend)
      PROVE  Keeps
  BY <1>5 DEF AckSlot, PioStates
<1>6. CASE EofBit4 \/ EofBit6 \/ EofBit7 \/ Intermission \/ Overload
  <2>1. CASE EofBit4
    BY <2>1 DEF EofBit4, PioStates
  <2>2. CASE EofBit6
    BY <1>2, <2>2 DEF EofBit6, PioStates
  <2>3. CASE EofBit7
    <3>1. "TXPENDING" \in pio.irqs => "TXPENDING" \in MatchIrqs("txend")
      BY <1>2
    <3>2. CASE Frame.ack # "none"
      BY <2>3, <3>1, <3>2 DEF EofBit7, PioStates
    <3>3. CASE Frame.ack = "none"
      BY <2>3, <3>3 DEF EofBit7
    <3> QED
      BY <3>2, <3>3
  <2>4. CASE Intermission
    BY <2>4 DEF Intermission, PioStates
  <2>5. CASE Overload
    BY <2>5 DEF Overload, PioStates
  <2> QED
    BY <1>6, <2>1, <2>2, <2>3, <2>4, <2>5
<1>7. ASSUME NEW k \in {"err", "pas"}, Disturb(k) PROVE Keeps
  BY <1>7 DEF Disturb, PioStates
<1>8. CASE RecoverLine \/ SignalMayTx \/ Overrun
  <2>1. CASE RecoverLine
    BY <2>1 DEF RecoverLine, PioStates
  <2>2. CASE SignalMayTx
    BY <2>2 DEF SignalMayTx, PioStates
  <2>3. CASE Overrun
    BY <2>3 DEF Overrun, PioStates
  <2> QED
    BY <1>8, <2>1, <2>2, <2>3
<1>9. CASE IdleBits \/ Push \/ CounterWraps \/ LongIdle
  <2>1. /\ Sampled("idle", Last) \in Seq(Tokens) /\ Sampled("long", Last) \in Seq(Tokens)
        /\ pio.fifo \in Seq(Tokens) /\ pio.isr \in Seq(Tokens)
    BY SampledType DEF Kinds, PioStates
  <2>2. pio.fifo # <<>> => /\ pio.fifo \o pio.isr # <<>>
                           /\ pio.fifo \o Sampled("idle", Last) # <<>>
                           /\ pio.fifo \o Sampled("long", Last) # <<>>
    BY <2>1
  <2> QED
    BY <1>9, <2>2 DEF IdleBits, Push, CounterWraps, LongIdle, PioStates
<1>10. CASE StartOwn \/ \E m \in PeerMsgs : StartPeer(m) \/ LoseArbitration(m)
  BY <1>1, <1>10 DEF StartOwn, StartPeer, LoseArbitration
<1>11. FrameStep => Keeps
  BY <1>3, <1>4, <1>5, <1>6, <1>7, <1>8 DEF FrameStep
<1>12. Keeps
  BY <1>8, <1>9, <1>10, <1>11 DEF WireNext
<1> QED
  BY <1>12

\* A step of the wire keeps DriverInv: it moves nothing of queue and handshake.
LEMMA WireStep == DriverInv /\ Wire => DriverInv'
<1> SUFFICES ASSUME DriverInv, Wire PROVE DriverInv'
  OBVIOUS
<1>1. WireTyped /\ WireNext
  BY DEF DriverInv, TypeOK, WireTyped, Wire
<1>2. line' \in LineStates /\ pio' \in PioStates /\ FrameThere'
  BY <1>1, WireType DEF WireTyped
<1>3. /\ irq' \in IrqStates /\ irq'.pc = irq.pc /\ irq'.ints = irq.ints /\ irq'.mask = irq.mask
      /\ UNCHANGED <<cd, app, log>>
  <2>1. irq \in IrqStates
    BY DEF DriverInv, TypeOK
  <2>2. CASE Serving
    <3>1. irq.slack - 1 \in 0..Slack
      BY <2>1, <2>2, Can2040Assumption DEF Wire, IrqStates
    <3> QED
      BY <2>1, <2>2, <3>1 DEF Wire, IrqStates
  <2>3. CASE ~Serving
    BY <2>1, <2>3 DEF Wire
  <2> QED
    BY <2>2, <2>3
<1>4. TypeOK'
  BY <1>2, <1>3 DEF DriverInv, TypeOK
<1>5. ParserInv(World)'
  BY <1>1, <1>3, WireKeeps DEF DriverInv, HandlerInv, ParserInv, World
<1>6. HandlerInv'
  BY <1>1, <1>3, <1>5, WireKeeps DEF DriverInv, HandlerInv, Awake
<1> QED
  BY <1>2, <1>4, <1>6 DEF DriverInv
\* What can2040_transmit writes into a slot keeps the queue typed.
LEMMA SlotType ==
  ASSUME cd \in CdStates, NEW pos \in Nat
  PROVE  cd.tx_queue[tx_qpos(pos)] \in Msg \cup {NoMsg}
<1>1. tx_qpos(pos) \in 0..(QueueLen - 1)
  BY Can2040Assumption, ModRange DEF tx_qpos
<1> QED
  BY <1>1 DEF CdStates

\* The head of the queue is a message or an empty slot.
LEMMA HeadType == cd \in CdStates => SlotMsg(cd) \in Msg \cup {NoMsg}
BY SlotType, Can2040Assumption DEF SlotMsg, CdStates

\* The handler's state outside an interrupt is typed.
LEMMA IdleType == Idle \in IrqStates
BY Can2040Assumption DEF Idle, IrqStates

\* Entering the handler keeps DriverInv: the flags it saw are the flags there were.
LEMMA IrqEnterStep == DriverInv /\ IrqEnter => DriverInv'
<1> SUFFICES ASSUME DriverInv, IrqEnter PROVE DriverInv'
  OBVIOUS
<1>1. UNCHANGED <<line, pio, cd, app, log>> /\ irq'.pc = "loop" /\ irq'.ints = Ints(pio)
  BY DEF IrqEnter
<1>2. Ints(pio) \in SUBSET AllIrqs /\ Ints(pio) \subseteq pio.inte
  BY DEF DriverInv, TypeOK, PioStates, Ints
<1>3. "RX_DATA" \in Ints(pio) => pio.fifo # <<>>
  BY DEF DriverInv, TypeOK, PioStates, Ints, Intr, SmIrqs
<1>4. irq' \in IrqStates
  BY <1>2, Can2040Assumption DEF IrqEnter, IrqStates
<1>5. TypeOK' /\ FrameThere'
  BY <1>1, <1>4 DEF DriverInv, TypeOK, FrameThere
<1>6. ParserInv(World)'
  BY <1>1 DEF DriverInv, HandlerInv, ParserInv, World
<1>7. Awake'
  BY <1>1 DEF IrqEnter, DriverInv, HandlerInv, Awake
<1> QED
  BY <1>1, <1>2, <1>3, <1>5, <1>6, <1>7 DEF DriverInv, HandlerInv

\* The handler's loop over the rx fifo keeps DriverInv.
LEMMA ProcessRxStep == DriverInv /\ (\E again \in BOOLEAN : ProcessRx(again)) => DriverInv'
<1> SUFFICES ASSUME DriverInv, NEW again \in BOOLEAN, ProcessRx(again) PROVE DriverInv'
  OBVIOUS
<1> DEFINE u == [World EXCEPT !.pio.fifo = Tail(pio.fifo)]
           w == process_rx(u, Head(pio.fifo), again)
<1>1. pio.fifo # <<>> /\ pio.fifo \in Seq(Tokens)
  BY DEF DriverInv, HandlerInv, TypeOK, PioStates, ProcessRx
<1>2. Head(pio.fifo) \in Tokens /\ Tail(pio.fifo) \in Seq(Tokens)
  BY <1>1
<1>3. u \in Worlds /\ u.cd = cd /\ u.pio.irqs = pio.irqs /\ u.pio.inte = pio.inte
  BY <1>2 DEF DriverInv, TypeOK, World, Worlds, PioStates
<1>4. ParserInv(u)
  BY <1>3 DEF DriverInv, HandlerInv, ParserInv, World
<1>5. w \in Worlds /\ ParserInv(w) /\ Kept(u, w)
  BY <1>2, <1>3, <1>4, ProcessRxWorld DEF Step
<1>6. /\ cd' = w.cd /\ pio' = w.pio /\ log' = w.log /\ UNCHANGED <<line, app>>
      /\ irq' = IF Ints(w.pio) = {} THEN Idle ELSE [irq EXCEPT !.ints = Ints(w.pio)]
      /\ irq.pc = "loop"
  BY DEF ProcessRx, Becomes, World
<1> HIDE DEF u, w
<1>7. w.cd \in CdStates /\ w.pio \in PioStates /\ w.log \in LogStates
  BY <1>5 DEF Worlds
<1>8. Ints(w.pio) \in SUBSET AllIrqs /\ Ints(w.pio) \subseteq w.pio.inte
  BY <1>7 DEF PioStates, Ints
<1>9. "RX_DATA" \in Ints(w.pio) => w.pio.fifo # <<>>
  BY <1>7 DEF PioStates, Ints, Intr, SmIrqs
<1>10. irq \in IrqStates
  BY DEF DriverInv, TypeOK
<1>11. irq' \in IrqStates /\ irq'.pc \in {"out", "loop"} /\ (irq'.pc = "loop" => irq'.ints = Ints(w.pio))
  <2>1. CASE Ints(w.pio) = {}
    BY <1>6, <2>1, IdleType DEF Idle
  <2>2. CASE Ints(w.pio) # {}
    BY <1>6, <1>8, <1>10, <2>2 DEF IrqStates
  <2> QED
    BY <2>1, <2>2
<1>12. TypeOK' /\ FrameThere'
  BY <1>6, <1>7, <1>11 DEF DriverInv, TypeOK, FrameThere
<1>13. ParserInv(World)'
  BY <1>5, <1>6 DEF World, ParserInv
<1>14. Awake'
  BY <1>3, <1>5, <1>6, <1>11 DEF DriverInv, HandlerInv, Awake, Kept
<1> QED
  BY <1>6, <1>8, <1>9, <1>11, <1>12, <1>13, <1>14 DEF DriverInv, HandlerInv

(* A flag that the handler serves was enabled.                             *)
LEMMA ServesEnabled ==
  ASSUME DriverInv, NEW flag, Serves(flag)
  PROVE  flag \in pio.inte
BY DEF DriverInv, HandlerInv, Serves

(* Reaching tx_schedule_transmit with a report that is over, or without    *)
(* one of an own frame.                                                    *)
LEMMA ToSchedule ==
  ASSUME DriverInv, NEW mask \in SUBSET AllIrqs, Schedule(mask), UNCHANGED <<line, app>>,
         cd' \in CdStates, pio' \in PioStates, log' \in LogStates, ParserInv(World)',
         Kept(World, World'), irq.pc = "loop",
         ~InTx(cd'.report_state), "TXPENDING" \notin mask,
         cd'.parse_state = "HEADER" => mask \subseteq {"MAYTX", "RX_DATA"}
  PROVE  DriverInv'
<1>1. irq' \in IrqStates /\ irq'.pc = "sched" /\ irq'.mask = mask
  BY DEF Schedule, DriverInv, TypeOK, IrqStates
<1>2. TypeOK' /\ FrameThere'
  BY <1>1 DEF DriverInv, TypeOK, FrameThere
<1>3. Awake'
  BY <1>1 DEF DriverInv, HandlerInv, Awake, Kept, World
<1> QED
  BY <1>1, <1>2, <1>3 DEF DriverInv, HandlerInv

\* report_line_ackdone keeps DriverInv.
LEMMA AckDoneStep == DriverInv /\ report_line_ackdone => DriverInv'
<1> SUFFICES ASSUME DriverInv, report_line_ackdone PROVE DriverInv'
  OBVIOUS
<1>1. "ACKDONE" \in pio.inte /\ irq.pc = "loop"
  BY ServesEnabled DEF report_line_ackdone, Serves
<1>2. ~InTx(cd.report_state) /\ cd.parse_state # "HEADER"
  BY <1>1 DEF DriverInv, HandlerInv, ParserInv, World
<1>3. pio' \in PioStates /\ pio'.inte = pio.inte /\ pio'.irqs = pio.irqs
  BY DEF report_line_ackdone, pio_match_check, DriverInv, TypeOK, PioStates, CdStates, MatchKinds
<1>4. UNCHANGED <<line, cd, app, log>> /\ Schedule({"MAYTX", "MATCHED"})
  BY DEF report_line_ackdone
<1>5. ParserInv(World)' /\ Kept(World, World')
  BY <1>3, <1>4 DEF DriverInv, HandlerInv, ParserInv, Kept, World
<1>6. cd' \in CdStates /\ log' \in LogStates
  BY <1>4 DEF DriverInv, TypeOK
<1> QED
  BY <1>1, <1>2, <1>3, <1>4, <1>5, <1>6, ToSchedule DEF AllIrqs, SmIrqs
(* The end of a report by an interrupt other than RX_DATA.                 *)
LEMMA ReportEnds ==
  ASSUME DriverInv, NEW w \in Worlds, Confirming(w), Kept(World, w),
         w.cd.parse_state = cd.parse_state, w.cd.tx_state = cd.tx_state, w.pio.inte = pio.inte,
         Becomes(report_handle_eof(w))
  PROVE  /\ cd' \in CdStates /\ pio' \in PioStates /\ log' \in LogStates
         /\ ParserInv(World)' /\ Kept(World, World')
         /\ ~InTx(cd'.report_state)
<1> DEFINE v == report_handle_eof(w)
<1>1. /\ v \in Worlds /\ v.cd.report_state = "IDLE"
      /\ v.cd.parse_state = cd.parse_state /\ v.cd.tx_state = cd.tx_state
      /\ v.pio.inte = pio.inte /\ Kept(World, v)
  BY ReportHandleEofWorld, KeptTransitive
<1>2. cd' = v.cd /\ pio' = v.pio /\ log' = v.log
  BY DEF Becomes
<1> HIDE DEF v
<1>3. ParserInv(World)'
  BY <1>1, <1>2 DEF DriverInv, HandlerInv, ParserInv, World, InTx
<1>4. Kept(World, World')
  BY <1>1, <1>2 DEF Kept, World
<1> QED
  BY <1>1, <1>2, <1>3, <1>4 DEF Worlds, InTx

(* Without a report MATCHED and MAYTX change nothing before the schedule.  *)
LEMMA NoReport ==
  ASSUME DriverInv, UNCHANGED <<cd, pio, log>>, cd.report_state = "IDLE"
  PROVE  /\ cd' \in CdStates /\ pio' \in PioStates /\ log' \in LogStates
         /\ ParserInv(World)' /\ Kept(World, World')
         /\ ~InTx(cd'.report_state)
BY DEF DriverInv, TypeOK, HandlerInv, ParserInv, World, Kept, InTx

\* report_line_matched keeps DriverInv.
LEMMA MatchedStep == DriverInv /\ report_line_matched => DriverInv'
<1> SUFFICES ASSUME DriverInv, report_line_matched PROVE DriverInv'
  OBVIOUS
<1>1. World \in Worlds /\ irq.pc = "loop" /\ Schedule({}) /\ UNCHANGED <<line, app>>
  BY WorldType DEF report_line_matched, Serves, DriverInv
<1>2. /\ cd' \in CdStates /\ pio' \in PioStates /\ log' \in LogStates
      /\ ParserInv(World)' /\ Kept(World, World') /\ ~InTx(cd'.report_state)
  <2>1. CASE cd.report_state = "IDLE"
    BY <2>1, NoReport DEF report_line_matched
  <2>2. CASE cd.report_state # "IDLE"
    <3> DEFINE w == SetReport(World, WithEof(cd.report_state))
    <3>1. /\ WithEof(cd.report_state) \in {"RX_EOF", "TX_EOF"}
          /\ InTx(WithEof(cd.report_state)) <=> InTx(cd.report_state)
      BY DEF WithEof, InTx
    <3>2. w \in Worlds /\ w.cd = [cd EXCEPT !.report_state = WithEof(cd.report_state)] /\ w.pio = pio
      BY <1>1, <3>1, SetReportWorld DEF World
    <3>3. Becomes(report_handle_eof(w))
      BY <2>2 DEF report_line_matched
    <3> HIDE DEF w
    <3>4. /\ w.cd.parse_state = cd.parse_state /\ w.cd.tx_state = cd.tx_state
          /\ w.cd.tx_push_pos = cd.tx_push_pos /\ w.cd.tx_pull_pos = cd.tx_pull_pos
          /\ w.cd.report_state = WithEof(cd.report_state)
      BY <3>2 DEF DriverInv, TypeOK, CdStates
    <3>5. Confirming(w) /\ Kept(World, w)
      BY <3>1, <3>2, <3>4 DEF Confirming, Kept, World, DriverInv, HandlerInv, ParserInv
    <3> QED
      BY <3>2, <3>3, <3>4, <3>5, ReportEnds
  <2> QED
    BY <2>1, <2>2
<1> QED
  BY <1>1, <1>2, ToSchedule

\* report_line_maytx keeps DriverInv.
LEMMA MayTxStep == DriverInv /\ report_line_maytx => DriverInv'
<1> SUFFICES ASSUME DriverInv, report_line_maytx PROVE DriverInv'
  OBVIOUS
<1>1. World \in Worlds /\ irq.pc = "loop" /\ Schedule({}) /\ UNCHANGED <<line, app>>
  BY WorldType DEF report_line_maytx, Serves, DriverInv
<1>2. Confirming(World) /\ Kept(World, World) /\ World.cd = cd /\ World.pio = pio
  BY DEF Confirming, Kept, World, DriverInv, HandlerInv, ParserInv
<1>3. /\ cd' \in CdStates /\ pio' \in PioStates /\ log' \in LogStates
      /\ ParserInv(World)' /\ Kept(World, World') /\ ~InTx(cd'.report_state)
  <2>1. CASE cd.report_state = "IDLE"
    BY <2>1, NoReport DEF report_line_maytx
  <2>2. CASE cd.report_state # "IDLE"
    BY <1>1, <1>2, <2>2, ReportEnds DEF report_line_maytx
  <2> QED
    BY <2>1, <2>2
<1> QED
  BY <1>1, <1>3, ToSchedule

\* tx_inject_ack keeps DriverInv.
LEMMA InjectAckStep == DriverInv /\ tx_inject_ack => DriverInv'
<1> SUFFICES ASSUME DriverInv, tx_inject_ack PROVE DriverInv'
  OBVIOUS
<1> DEFINE q == pio_tx_inject_ack(pio, cd.parse_msg)
           p == pio_irq_set(q, {"MAYTX", "ACKDONE"})
<1>1. /\ cd' = [cd EXCEPT !.tx_state = "ACKING_RX"] /\ pio' = p /\ irq' = Idle
      /\ UNCHANGED <<line, app, log>> /\ cd.report_state = "RX_ACK"
  BY DEF tx_inject_ack, Return, AckRequested
<1>2. cd \in CdStates /\ pio \in PioStates
  BY DEF DriverInv, TypeOK
<1>3. q \in PioStates
  BY <1>2 DEF PioStates, CdStates, pio_tx_inject_ack, pio_match_check, pio_tx_reset, TxSmStates,
              MatchKinds
<1> HIDE DEF q
<1>4. p \in PioStates
  BY <1>3 DEF pio_irq_set, PioStates, AllIrqs, SmIrqs
<1>5. /\ cd' \in CdStates /\ cd'.tx_state = "ACKING_RX" /\ cd'.report_state = "RX_ACK"
      /\ cd'.parse_state = cd.parse_state
  BY <1>1, <1>2 DEF CdStates
<1>6. cd.parse_state \notin {"DISCARD", "START", "HEADER"}
  BY <1>1 DEF DriverInv, HandlerInv, ParserInv, World
<1>7. ParserInv(World)'
  BY <1>5, <1>6 DEF ParserInv, World, InTx
<1>8. TypeOK' /\ FrameThere'
  BY <1>1, <1>4, <1>5, IdleType DEF DriverInv, TypeOK, FrameThere
<1> QED
  BY <1>1, <1>5, <1>7, <1>8 DEF DriverInv, HandlerInv, Awake, Idle

\* report_line_txpending keeps DriverInv.
LEMMA TxPendingStep == DriverInv /\ report_line_txpending => DriverInv'
<1> SUFFICES ASSUME DriverInv, report_line_txpending PROVE DriverInv'
  OBVIOUS
<1>1. /\ "TXPENDING" \in pio.inte /\ irq.pc = "loop" /\ Schedule(pio.inte \ {"TXPENDING"})
      /\ UNCHANGED <<line, pio, cd, app, log>>
  BY ServesEnabled DEF report_line_txpending, Serves
<1>2. /\ cd \in CdStates /\ pio \in PioStates /\ log \in LogStates
      /\ pio.inte \ {"TXPENDING"} \in SUBSET AllIrqs
  BY DEF DriverInv, TypeOK, PioStates
<1>3. /\ ~InTx(cd.report_state)
      /\ cd.parse_state = "HEADER" => pio.inte \ {"TXPENDING"} \subseteq {"MAYTX", "RX_DATA"}
      /\ ParserInv(World)
  BY <1>1 DEF DriverInv, HandlerInv, ParserInv, World
<1>4. ParserInv(World)' /\ Kept(World, World')
  BY <1>1, <1>3 DEF ParserInv, Kept, World
<1> QED
  BY <1>1, <1>2, <1>3, <1>4, ToSchedule

(* The head of the queue goes to the "tx" machine and the handler returns. *)
LEMMA SendHeadStep ==
  ASSUME DriverInv, irq.pc \in {"sched", "reread"}, NEW p \in PioStates, SendHead(p),
         UNCHANGED <<line, app, log>>
  PROVE  DriverInv'
<1>1. cd \in CdStates /\ irq \in IrqStates /\ SlotMsg(cd) \in Msg \cup {NoMsg}
  BY HeadType DEF DriverInv, TypeOK
<1>2. cd' = [cd EXCEPT !.tx_state = "QUEUED"] /\ irq' = Idle
  BY DEF SendHead, Return
<1>3. cd' \in CdStates /\ cd'.tx_state = "QUEUED" /\ cd'.parse_state = cd.parse_state
      /\ cd'.report_state = cd.report_state
  BY <1>1, <1>2 DEF CdStates
<1>4. pio_tx_send(p, SlotMsg(cd)) \in PioStates
  BY <1>1 DEF pio_tx_send, pio_tx_reset, PioStates, TxSmStates
<1>5. pio' \in PioStates /\ pio'.inte = irq.mask \cup {"RX_DATA"}
  BY <1>1, <1>4 DEF SendHead, pio_irq_set, PioStates, IrqStates, AllIrqs
<1>6. /\ ~InTx(cd.report_state) /\ "TXPENDING" \notin irq.mask
      /\ cd.parse_state = "HEADER" => irq.mask \subseteq {"MAYTX", "RX_DATA"}
      /\ cd.parse_state \in {"DISCARD", "START", "HEADER"} => cd.report_state = "IDLE"
  BY DEF DriverInv, HandlerInv, ParserInv, World
<1>7. ParserInv(World)'
  BY <1>3, <1>5, <1>6 DEF ParserInv, World
<1>8. TypeOK' /\ FrameThere'
  BY <1>2, <1>3, <1>5, IdleType DEF DriverInv, TypeOK, FrameThere
<1> QED
  BY <1>2, <1>3, <1>7, <1>8 DEF DriverInv, HandlerInv, Awake, Idle

\* tx_schedule_transmit with a message to send keeps DriverInv: the slot it reads is complete.
LEMMA ScheduleSendStep == DriverInv /\ ScheduleSend => DriverInv'
BY SendHeadStep DEF ScheduleSend, DriverInv, TypeOK

\* The second look of tx_schedule_transmit that finds a new message keeps DriverInv.
LEMMA RereadRacedStep == DriverInv /\ RereadRaced => DriverInv'
<1> SUFFICES ASSUME DriverInv, RereadRaced PROVE DriverInv'
  OBVIOUS
<1>1. pio_signal_set_txpending(pio) \in PioStates
  BY DEF DriverInv, TypeOK, PioStates, pio_signal_set_txpending, SmIrqs
<1> QED
  BY <1>1, SendHeadStep DEF RereadRaced

(* A new mask, and the handler returns.                                    *)
LEMMA ReturnStep ==
  ASSUME DriverInv, irq.pc \in {"sched", "reread"}, NEW mask \in SUBSET AllIrqs,
         pio' = pio_irq_set(pio, mask), Return, UNCHANGED <<line, cd, app, log>>,
         cd.parse_state = "HEADER" =>
           /\ mask \subseteq {"MAYTX", "TXPENDING", "RX_DATA"}
           /\ cd.tx_state = "QUEUED" => "TXPENDING" \notin mask,
         cd.tx_state = "IDLE" => cd.tx_push_pos = cd.tx_pull_pos
  PROVE  DriverInv'
<1>1. pio' \in PioStates /\ pio'.inte = mask \cup {"RX_DATA"} /\ pio'.irqs = pio.irqs
  BY DEF DriverInv, TypeOK, pio_irq_set, PioStates, AllIrqs
<1>2. irq' = Idle /\ UNCHANGED <<line, cd, app, log>>
  BY DEF Return
<1>3. /\ ~InTx(cd.report_state)
      /\ cd.parse_state \in {"DISCARD", "START", "HEADER"} => cd.report_state = "IDLE"
  BY DEF DriverInv, HandlerInv, ParserInv, World
<1>4. ParserInv(World)'
  BY <1>1, <1>2, <1>3 DEF ParserInv, World
<1>5. TypeOK' /\ FrameThere'
  BY <1>1, <1>2, IdleType DEF DriverInv, TypeOK, FrameThere
<1> QED
  BY <1>2, <1>4, <1>5 DEF DriverInv, HandlerInv, Awake, Idle

\* tx_schedule_transmit during a transmission keeps DriverInv.
LEMMA ScheduleBusyStep == DriverInv /\ ScheduleBusy => DriverInv'
<1> SUFFICES ASSUME DriverInv, ScheduleBusy PROVE DriverInv'
  OBVIOUS
<1>1. /\ irq.mask \in SUBSET AllIrqs /\ "TXPENDING" \notin irq.mask
      /\ cd.parse_state = "HEADER" => irq.mask \subseteq {"MAYTX", "RX_DATA"}
  BY DEF ScheduleBusy, DriverInv, HandlerInv, TypeOK, IrqStates
<1> QED
  BY <1>1, ReturnStep DEF ScheduleBusy, Busy

\* The second look of tx_schedule_transmit that finds nothing keeps DriverInv.
LEMMA RereadEmptyStep == DriverInv /\ RereadEmpty => DriverInv'
<1> SUFFICES ASSUME DriverInv, RereadEmpty PROVE DriverInv'
  OBVIOUS
<1>1. /\ irq.mask \in SUBSET AllIrqs /\ cd.tx_state = "IDLE"
      /\ cd.parse_state = "HEADER" => irq.mask \subseteq {"MAYTX", "RX_DATA"}
  BY DEF RereadEmpty, DriverInv, HandlerInv, TypeOK, IrqStates
<1>2. irq.mask \cup {"TXPENDING"} \in SUBSET AllIrqs
  BY <1>1 DEF AllIrqs, SmIrqs
<1> QED
  BY <1>1, <1>2, ReturnStep DEF RereadEmpty

\* tx_schedule_transmit on an empty queue, up to TS_IDLE, keeps DriverInv.
LEMMA ScheduleEmptyStep == DriverInv /\ ScheduleEmpty => DriverInv'
<1> SUFFICES ASSUME DriverInv, ScheduleEmpty PROVE DriverInv'
  OBVIOUS
<1>1. /\ cd' = [cd EXCEPT !.tx_state = "IDLE"] /\ irq' = [irq EXCEPT !.pc = "clear"]
      /\ irq.pc = "sched" /\ UNCHANGED <<line, pio, app, log>>
  BY DEF ScheduleEmpty
<1>2. cd \in CdStates /\ irq \in IrqStates
  BY DEF DriverInv, TypeOK
<1>3. /\ cd' \in CdStates /\ cd'.tx_state = "IDLE" /\ cd'.parse_state = cd.parse_state
      /\ cd'.report_state = cd.report_state
      /\ irq' \in IrqStates /\ irq'.pc = "clear" /\ irq'.mask = irq.mask
  BY <1>1, <1>2 DEF CdStates, IrqStates
<1>4. TypeOK' /\ FrameThere'
  BY <1>1, <1>3 DEF DriverInv, TypeOK, FrameThere
<1>5. ParserInv(World)'
  BY <1>1, <1>3 DEF DriverInv, HandlerInv, ParserInv, World
<1> QED
  BY <1>1, <1>3, <1>4, <1>5 DEF DriverInv, HandlerInv, Awake

\* Clearing TXPENDING keeps DriverInv: the second look is still to come.
LEMMA ScheduleClearStep == DriverInv /\ ScheduleClear => DriverInv'
<1> SUFFICES ASSUME DriverInv, ScheduleClear PROVE DriverInv'
  OBVIOUS
<1>1. /\ pio' \in PioStates /\ pio'.inte = pio.inte
      /\ irq' \in IrqStates /\ irq'.pc = "reread" /\ irq'.mask = irq.mask
      /\ irq.pc = "clear" /\ UNCHANGED <<line, cd, app, log>>
  BY DEF ScheduleClear, pio_signal_clear_txpending, DriverInv, TypeOK, PioStates, IrqStates
<1>2. TypeOK' /\ FrameThere'
  BY <1>1 DEF DriverInv, TypeOK, FrameThere
<1>3. ParserInv(World)'
  BY <1>1 DEF DriverInv, HandlerInv, ParserInv, World
<1> QED
  BY <1>1, <1>2, <1>3 DEF DriverInv, HandlerInv, Awake

\* Every step of the interrupt handler keeps DriverInv.
LEMMA HandlerStep == DriverInv /\ Handler => DriverInv'
BY IrqEnterStep, ProcessRxStep, AckDoneStep, MatchedStep, MayTxStep, InjectAckStep,
   TxPendingStep, ScheduleBusyStep, ScheduleSendStep, ScheduleEmptyStep, ScheduleClearStep,
   RereadEmptyStep, RereadRacedStep DEF Handler

(* The main loop changes neither what the handler decided nor the mask.    *)
LEMMA MainKeeps ==
  ASSUME DriverInv, UNCHANGED <<line, irq, log>>, cd' \in CdStates, pio' \in PioStates,
         app' \in AppStates, pio'.inte = pio.inte, pio'.fifo = pio.fifo,
         cd'.parse_state = cd.parse_state, cd'.report_state = cd.report_state,
         cd'.tx_state = cd.tx_state, Awake'
  PROVE  DriverInv'
<1>1. TypeOK' /\ FrameThere'
  BY DEF DriverInv, TypeOK, FrameThere
<1>2. ParserInv(World)'
  BY DEF DriverInv, HandlerInv, ParserInv, World
<1> QED
  BY <1>1, <1>2 DEF DriverInv, HandlerInv

(* A write to a slot of the queue.                                         *)
LEMMA SlotWrite ==
  ASSUME cd \in CdStates, NEW pos \in Nat, NEW m \in Msg \cup {NoMsg},
         cd' = [cd EXCEPT !.tx_queue[tx_qpos(pos)] = m]
  PROVE  /\ cd' \in CdStates
         /\ cd'.parse_state = cd.parse_state /\ cd'.report_state = cd.report_state
         /\ cd'.tx_state = cd.tx_state
         /\ cd'.tx_push_pos = cd.tx_push_pos /\ cd'.tx_pull_pos = cd.tx_pull_pos
BY DEF CdStates

\* Every step of can2040_transmit keeps DriverInv: TXPENDING is raised after tx_push_pos.
LEMMA MainStep == DriverInv /\ Main => DriverInv'
<1> SUFFICES ASSUME DriverInv, Main PROVE DriverInv'
  OBVIOUS
<1>1. /\ cd \in CdStates /\ pio \in PioStates /\ app \in AppStates /\ Awake
      /\ cd.tx_push_pos \in Nat
  BY DEF DriverInv, TypeOK, HandlerInv, CdStates
<1>2. ASSUME NEW m \in AppMsgs, TransmitBegin(m) PROVE DriverInv'
  <2>1. app' \in AppStates /\ app'.pc = "copy"
    BY <1>1, <1>2, Can2040Assumption DEF TransmitBegin, AppStates
  <2>2. cd' = [cd EXCEPT !.tx_queue[tx_qpos(cd.tx_push_pos)] = NoMsg]
    BY <1>2 DEF TransmitBegin
  <2>3. UNCHANGED <<line, pio, irq, log>> /\ app.pc = "ready"
    BY <1>2 DEF TransmitBegin
  <2>4. Awake'
    BY <1>1, <2>2, <2>3, SlotWrite DEF Awake
  <2> QED
    BY <1>1, <2>1, <2>2, <2>3, <2>4, SlotWrite, MainKeeps
<1>3. ASSUME NEW m \in AppMsgs, TransmitFull(m) PROVE DriverInv'
  <2>1. app' \in AppStates /\ app'.pc = app.pc
    BY <1>1, <1>3 DEF TransmitFull, AppStates
  <2>2. UNCHANGED <<line, pio, cd, irq, log>>
    BY <1>3 DEF TransmitFull
  <2>3. Awake'
    BY <1>1, <2>1, <2>2 DEF Awake
  <2> QED
    BY <1>1, <2>1, <2>2, <2>3, MainKeeps
<1>4. CASE TransmitCopy
  <2>1. app' \in AppStates /\ app'.pc = "submit" /\ app.msg \in Msg \cup {NoMsg}
    BY <1>1, <1>4 DEF TransmitCopy, AppStates
  <2>2. cd' = [cd EXCEPT !.tx_queue[tx_qpos(cd.tx_push_pos)] = app.msg]
    BY <1>4 DEF TransmitCopy
  <2>3. UNCHANGED <<line, pio, irq, log>> /\ app.pc = "copy"
    BY <1>4 DEF TransmitCopy
  <2>4. Awake'
    BY <1>1, <2>1, <2>2, <2>3, SlotWrite DEF Awake
  <2> QED
    BY <1>1, <2>1, <2>2, <2>3, <2>4, SlotWrite, MainKeeps
<1>5. CASE TransmitSubmit
  <2>1. (cd.tx_push_pos + 1) % PosMod \in 0..(PosMod - 1)
    <3>1. PosMod \in Nat \ {0} /\ cd.tx_push_pos + 1 \in Int
      BY <1>1, Can2040Assumption
    <3> QED
      BY <3>1, ModRange
  <2>2. cd' = [cd EXCEPT !.tx_push_pos = (cd.tx_push_pos + 1) % PosMod]
    BY <1>5 DEF TransmitSubmit
  <2>3. /\ cd' \in CdStates /\ cd'.parse_state = cd.parse_state
        /\ cd'.report_state = cd.report_state /\ cd'.tx_state = cd.tx_state
    BY <1>1, <2>1, <2>2 DEF CdStates
  <2>4. app' \in AppStates /\ app'.pc = "wake" /\ UNCHANGED <<line, pio, irq, log>>
    BY <1>1, <1>5 DEF TransmitSubmit, AppStates
  <2>5. Awake'
    BY <2>4 DEF Awake
  <2> QED
    BY <1>1, <2>3, <2>4, <2>5, MainKeeps
<1>6. CASE TransmitWake
  <2>1. /\ pio' \in PioStates /\ pio'.inte = pio.inte /\ pio'.fifo = pio.fifo
        /\ "TXPENDING" \in pio'.irqs
    BY <1>1, <1>6 DEF TransmitWake, pio_signal_set_txpending, PioStates, SmIrqs
  <2>2. app' \in AppStates /\ UNCHANGED <<line, cd, irq, log>>
    BY <1>1, <1>6 DEF TransmitWake, AppStates
  <2> QED
    BY <1>1, <2>1, <2>2, MainKeeps DEF Awake
<1> QED
  BY <1>2, <1>3, <1>4, <1>5, <1>6 DEF Main

\* DriverInv holds when the driver has started.
LEMMA InitHolds == Init => DriverInv
<1> SUFFICES ASSUME Init PROVE DriverInv
  OBVIOUS
<1>1. line \in LineStates /\ FrameThere
  BY PioAssumption DEF Init, PioInit, LineStates, Phases, FrameThere
<1>2. pio \in PioStates
  BY EmptyType DEF Init, PioInit, PioStates, SmIrqs, AllIrqs, MatchKinds, TxSmStates, NoKey
<1>3. cd \in CdStates
  <2>1. 0 \in 0..(PosMod - 1)
    BY Can2040Assumption
  <2> QED
    BY <2>1 DEF Init, CdStates
<1>4. irq \in IrqStates /\ irq = Idle
  BY IdleType DEF Init
<1>5. app \in AppStates
  BY Can2040Assumption DEF Init, AppStates
<1>6. log \in LogStates
  BY DEF Init, LogStates
<1>7. HandlerInv
  BY <1>4 DEF Init, PioInit, HandlerInv, ParserInv, World, InTx, Idle, Awake
<1> QED
  BY <1>1, <1>2, <1>3, <1>4, <1>5, <1>6, <1>7 DEF DriverInv, TypeOK

\* A stuttering step keeps DriverInv.
LEMMA StutterStep == DriverInv /\ UNCHANGED vars => DriverInv'
<1> SUFFICES ASSUME DriverInv, UNCHANGED vars PROVE DriverInv'
  OBVIOUS
<1>1. TypeOK' /\ FrameThere'
  BY DEF vars, DriverInv, TypeOK, FrameThere
<1>2. HandlerInv'
  BY DEF vars, DriverInv, HandlerInv, ParserInv, World, Awake
<1> QED
  BY <1>1, <1>2 DEF DriverInv

\* DriverInv holds in every reachable state.
LEMMA DriverInvariant == Spec => []DriverInv
<1>1. DriverInv /\ [Next]_vars => DriverInv'
  BY WireStep, HandlerStep, MainStep, StutterStep DEF Next
<1> QED
  BY <1>1, InitHolds, PTL DEF Spec

(* Every variable of driver, PIO block and wire keeps its C type: no queue *)
(* position leaves its width, no state machine its states, in any order of *)
(* wire, handler and main loop.                                            *)
THEOREM TypeCorrect == Spec => []TypeOK
<1>1. DriverInv => TypeOK
  BY DEF DriverInv
<1> QED
  BY <1>1, DriverInvariant, PTL

(* tx_schedule_transmit and can2040_transmit never lose a wakeup, on one   *)
(* core or two: a message that waits while the driver is in TS_IDLE keeps  *)
(* TXPENDING raised, whatever the parser and a restart of the PIO block do *)
(* in between.                                                             *)
THEOREM WakeupKept == Spec => []WakeupPending
<1>1. DriverInv => WakeupPending
  <2> SUFFICES ASSUME DriverInv, cd.tx_push_pos = cd.tx_pull_pos PROVE Pending = 0
    BY DEF DriverInv, HandlerInv, Awake, WakeupPending
  <2>1. cd.tx_push_pos - cd.tx_pull_pos = 0
    BY DEF DriverInv, TypeOK, CdStates
  <2>2. 0 % PosMod = 0
    BY Can2040Assumption
  <2> QED
    BY <2>1, <2>2 DEF Pending
<1> QED
  BY <1>1, DriverInvariant, PTL
=============================================================================
