------------------------------ MODULE Can2040 ------------------------------
(***************************************************************************)
(* The CAN driver of src/port/board/can/can.c (can2040): the irq handler   *)
(* with the frame parser (the data_state functions), the reporting state   *)
(* (report) and the transmit state (tx), and can2040_transmit, which the   *)
(* main loop calls.  CanPio is the hardware under it.                      *)
(*                                                                         *)
(* The parts of struct can2040 are the record cd; parse_msg is the number  *)
(* of the frame on the wire it was read from.  A driver function is an     *)
(* operator on a world w = [cd, pio, log]: it returns the world after it.  *)
(* log records the calls of the receive callback.                          *)
(***************************************************************************)
EXTENDS CanPio

CONSTANTS
  QueueLen,     (* ARRAY_SIZE(cd->tx_queue), 4 in can.h                    *)
  PosMod,       (* size of the counters tx_push_pos, tx_pull_pos: 2^32     *)
  AppMsgs,      (* the messages the main loop may send, a subset of Msg    *)
  AppSends,     (* bound: how many messages the main loop sends            *)
  SameCore,     (* TRUE: the handler preempts the main loop on its core    *)
  Slack         (* bound: wire steps during the service of one flag        *)

ASSUME Can2040Assumption ==
  /\ QueueLen \in Nat \ {0}
  /\ PosMod \in Nat /\ PosMod >= 2 * QueueLen /\ PosMod % QueueLen = 0
  /\ AppMsgs \subseteq Msg
  /\ AppSends \in Nat
  /\ SameCore \in BOOLEAN
  /\ Slack \in Nat

VARIABLES
  cd,     (* struct can2040                                                *)
  irq,    (* the handler: where it is, the flags it read, the mask to set, *)
          (* the wire steps left during the service of a flag              *)
  app,    (* the main loop in can2040_transmit: where it is, its message   *)
  log     (* callbacks so far: frames reported received, transmitted, error*)

vars == <<line, pio, cd, irq, app, log>>

World == [cd |-> cd, pio |-> pio, log |-> log]
Becomes(w) == cd' = w.cd /\ pio' = w.pio /\ log' = w.log

tx_qpos(pos) == pos % QueueLen
(* Mutant: the distance of the positions is not taken modulo their width.  *)
Pending_signed == cd.tx_push_pos - cd.tx_pull_pos

Pending == (cd.tx_push_pos - cd.tx_pull_pos) % PosMod
SlotMsg(c) == c.tx_queue[tx_qpos(c.tx_pull_pos)]

-----------------------------------------------------------------------------
(* Notification callbacks and the reporting state.                         *)

InTx(r) == r \in {"TX_ACK", "TX_EOF"}
WithEof(r) == IF InTx(r) THEN "TX_EOF" ELSE "RX_EOF"

SetReport(w, r) == [w EXCEPT !.cd.report_state = r]
SetMask(w, mask) == [w EXCEPT !.pio = pio_irq_set(@, mask)]

report_callback_rx_msg(w) == [w EXCEPT !.log.rx = Append(@, w.cd.parse_msg)]
report_callback_tx_msg(w) ==
  [w EXCEPT !.cd.tx_pull_pos = (@ + 1) % PosMod, !.log.tx = Append(@, w.cd.parse_msg)]

(* Mutant: the report stays pending after its callback.                    *)
report_handle_eof_again(w) ==
  LET reported == CASE w.cd.report_state = "TX_EOF" -> report_callback_tx_msg(w)
                    [] w.cd.report_state = "RX_EOF" -> report_callback_rx_msg(w)
                    [] OTHER -> w
  IN [reported EXCEPT !.pio = pio_match_clear(@)]

report_handle_eof(w) ==
  LET reported == CASE w.cd.report_state = "TX_EOF" -> report_callback_tx_msg(w)
                    [] w.cd.report_state = "RX_EOF" -> report_callback_rx_msg(w)
                    [] OTHER -> w
  IN [SetReport(reported, "IDLE") EXCEPT !.pio = pio_match_clear(@)]

(* 1: feedback of the message being transmitted, -1: its id with other     *)
(* content, 0: somebody else's message.                                    *)
tx_check_local_message(w) ==
  LET seen == line.frames[w.cd.parse_msg].msg
      mine == SlotMsg(w.cd)
  IN IF w.cd.tx_state # "QUEUED" \/ mine.id # seen.id THEN 0
     ELSE IF mine = seen THEN 1 ELSE -1

report_note_crc_start(w, own) ==
  IF own
  THEN [SetReport(w, "TX_ACK") EXCEPT
          !.cd.tx_state = "CONFIRM_TX",
          !.pio = pio_match_check(@, "txend", w.cd.parse_msg)]
  ELSE [SetReport(w, "RX_ACK") EXCEPT
          !.pio = pio_irq_set(pio_signal_set_txpending(@), {"MAYTX", "TXPENDING"})]

report_note_crc_success(w) ==
  IF w.cd.report_state = "TX_ACK" THEN SetMask(w, {"MAYTX", "MATCHED"}) ELSE w

report_note_ack_success(w) ==
  IF w.cd.report_state = "IDLE" THEN w ELSE SetReport(w, WithEof(w.cd.report_state))

report_note_eof_success(w) ==
  IF w.cd.report_state = "IDLE" THEN w ELSE SetMask(report_handle_eof(w), {"TXPENDING"})

report_note_discarding(w) ==
  SetMask(IF w.cd.report_state = "IDLE" THEN w
          ELSE [SetReport(w, "IDLE") EXCEPT !.pio = pio_match_clear(@)],
          {"MAYTX", "TXPENDING"})

-----------------------------------------------------------------------------
(* The parser.  MS_HEADER, MS_EXT_HEADER, MS_DATA0 and MS_DATA1 differ     *)
(* only in the number of bits they wait for and are one state, HEADER.     *)

GoNext(w, state) == [w EXCEPT !.cd.parse_state = state]

data_state_go_discard(w) ==
  LET r == IF pio_rx_check_stall(w.pio)
           THEN [w EXCEPT !.pio = pio_sm_setup(@), !.log.err = TRUE]
           ELSE w
  IN report_note_discarding(GoNext(r, "DISCARD"))

data_state_go_error(w) == data_state_go_discard(w)

data_state_line_error(w) == data_state_go_error(w)

(* Six passive bits.  If the last "ten" were passive, the parser looks for *)
(* a new frame; if "all" 32 were, the counter of "sync" has overflowed.    *)
data_state_line_passive(w, run) ==
  IF w.cd.parse_state \notin {"DISCARD", "START"} THEN data_state_go_error(w)
  ELSE CASE run = "all" -> data_state_go_discard([w EXCEPT !.pio = pio_sm_setup(@)])
         [] run = "ten" -> GoNext(w, "START")
         [] OTHER -> data_state_go_discard(w)

(* Ten passive bits, one by one, unless the sixth restarts the PIO block.  *)
TenPassive(w) ==
  LET six == data_state_line_passive(w, "six")
  IN IF pio_rx_check_stall(w.pio) THEN six ELSE data_state_line_passive(six, "ten")

data_state_update_start(w, n) ==
  SetMask([GoNext(w, "HEADER") EXCEPT !.cd.parse_msg = n], {"MAYTX"})

data_state_go_crc(w) ==
  LET local == tx_check_local_message(w)
  IN IF local = -1 THEN data_state_go_error(w)
     ELSE GoNext(report_note_crc_start(w, local = 1), "CRC")

data_state_update_header(w, kind) ==
  CASE kind = "body" -> data_state_go_crc(w)
    [] kind = "rsv" -> data_state_go_discard(w)
    [] OTHER -> data_state_go_error(w)

data_state_update_crc(w, kind) ==
  IF kind = "crc" THEN GoNext(report_note_crc_success(w), "ACK")
  ELSE data_state_go_error(w)

data_state_update_ack(w, kind) ==
  IF kind = "ack" THEN GoNext(report_note_ack_success(w), "EOF0")
  ELSE data_state_go_error(w)

data_state_update_eof0(w, kind) ==
  IF kind = "eof0" /\ ~pio_rx_check_stall(w.pio) THEN GoNext(w, "EOF1")
  ELSE data_state_go_error(w)

(* Mutant: an overload in bit 7 is an error to a receiver as well.         *)
data_state_update_eof1_strict(w, kind) ==
  CASE kind = "eof1" -> GoNext(report_note_eof_success(w), "START")
    [] kind = "over" -> data_state_go_discard(report_note_eof_success(w))
    [] OTHER -> data_state_go_error(w)

data_state_update_eof1(w, kind) ==
  CASE kind = "eof1" -> GoNext(report_note_eof_success(w), "START")
    [] kind = "over" \/ (kind = "rxover" /\ ~InTx(w.cd.report_state))
         -> data_state_go_discard(report_note_eof_success(w))
    [] OTHER -> data_state_go_error(w)

(* Bits of a frame other than the one being parsed (after an overrun) are  *)
(* noise to the parser: Field turns them into a kind no state accepts.     *)
Field(w, t) == IF t.n = w.cd.parse_msg THEN t.k ELSE "noise"

(* process_rx: unstuff the word and hand each complete field to the state. *)
(* In MS_DISCARD every 32 bits of noise discard again (again); in MS_START *)
(* the bits before decide whether there were six passive bits before ten.  *)
process_rx(w, t, again) ==
  CASE t.k = "err" -> data_state_line_error(w)
    [] t.k = "pas" -> data_state_line_passive(w, "six")
    [] t.k = "long" -> data_state_line_passive(w, "all")
    [] t.k = "idle" -> IF w.cd.parse_state = "START" /\ ~again
                       THEN data_state_line_passive(w, "ten") ELSE TenPassive(w)
    [] OTHER ->
       CASE w.cd.parse_state = "START"  -> data_state_update_start(w, t.n)
         [] w.cd.parse_state = "HEADER" -> data_state_update_header(w, Field(w, t))
         [] w.cd.parse_state = "CRC"    -> data_state_update_crc(w, Field(w, t))
         [] w.cd.parse_state = "ACK"    -> data_state_update_ack(w, Field(w, t))
         [] w.cd.parse_state = "EOF0"   -> data_state_update_eof0(w, Field(w, t))
         [] w.cd.parse_state = "EOF1"   -> data_state_update_eof1(w, Field(w, t))
         [] OTHER -> IF t.k = "eof1" THEN TenPassive(w)
                     ELSE IF again THEN data_state_go_discard(w) ELSE w

-----------------------------------------------------------------------------
(* can2040_pio_irq_handler.                                                *)

Idle == [pc |-> "out", ints |-> {}, mask |-> {}, slack |-> 0]

IrqEnter ==
  /\ irq.pc = "out" /\ Ints(pio) # {}
  /\ irq' = [pc |-> "loop", ints |-> Ints(pio), mask |-> {}, slack |-> Slack]
  /\ UNCHANGED <<line, pio, cd, app, log>>

(* One word from the rx fifo, then the flags are read again.               *)
ProcessRx(again) ==
  /\ irq.pc = "loop" /\ "RX_DATA" \in irq.ints
  /\ LET w == process_rx([World EXCEPT !.pio.fifo = Tail(@)], Head(pio.fifo), again)
     IN /\ Becomes(w)
        /\ irq' = IF Ints(w.pio) = {} THEN Idle
                  ELSE [irq EXCEPT !.ints = Ints(w.pio)]
  /\ UNCHANGED <<line, app>>

(* The remaining flags in the order of the handler's else-if chain.        *)
Serves(flag) ==
  /\ irq.pc = "loop" /\ "RX_DATA" \notin irq.ints /\ flag \in irq.ints
  /\ flag # "ACKDONE" => "ACKDONE" \notin irq.ints
  /\ flag \in {"MAYTX", "TXPENDING"} => "MATCHED" \notin irq.ints
  /\ flag = "TXPENDING" => "MAYTX" \notin irq.ints

(* Go on in tx_schedule_transmit, after which the irq mask becomes mask.   *)
Schedule(mask) == irq' = [irq EXCEPT !.pc = "sched", !.ints = {}, !.mask = mask]
Return == irq' = Idle

report_line_ackdone ==
  /\ Serves("ACKDONE")
  /\ pio' = pio_match_check(pio, "rxend", cd.parse_msg)
  /\ Schedule({"MAYTX", "MATCHED"})
  /\ UNCHANGED <<line, cd, app, log>>

(* Mutant: a match that comes before the parser saw the ack is no end.     *)
report_line_matched_early ==
  /\ Serves("MATCHED")
  /\ IF cd.report_state = "IDLE" THEN UNCHANGED <<cd, pio, log>>
     ELSE Becomes(report_handle_eof(World))
  /\ Schedule({})
  /\ UNCHANGED <<line, app>>

report_line_matched ==
  /\ Serves("MATCHED")
  /\ IF cd.report_state = "IDLE" THEN UNCHANGED <<cd, pio, log>>
     ELSE Becomes(report_handle_eof(SetReport(World, WithEof(cd.report_state))))
  /\ Schedule({})
  /\ UNCHANGED <<line, app>>

report_line_maytx ==
  /\ Serves("MAYTX")
  /\ IF cd.report_state = "IDLE" THEN UNCHANGED <<cd, pio, log>>
     ELSE Becomes(report_handle_eof(World))
  /\ Schedule({})
  /\ UNCHANGED <<line, app>>

AckRequested ==
  /\ pio.inte = {"MAYTX", "TXPENDING", "RX_DATA"}
  /\ cd.report_state = "RX_ACK"

(* report_line_txpending: inject an ack ...                                *)
tx_inject_ack ==
  /\ Serves("TXPENDING") /\ AckRequested
  /\ cd' = [cd EXCEPT !.tx_state = "ACKING_RX"]
  /\ pio' = pio_irq_set(pio_tx_inject_ack(pio, cd.parse_msg), {"MAYTX", "ACKDONE"})
  /\ Return
  /\ UNCHANGED <<line, app, log>>

(* ... or schedule a transmit.                                             *)
report_line_txpending ==
  /\ Serves("TXPENDING") /\ ~AckRequested
  /\ Schedule(pio.inte \ {"TXPENDING"})
  /\ UNCHANGED <<line, pio, cd, app, log>>

-----------------------------------------------------------------------------
(* tx_schedule_transmit, as the steps at which can2040_transmit of another *)
(* core can come between, each followed by the caller's pio_irq_set.       *)

(* Mutant: a transmission that failed is not tried again.                  *)
Busy_forever == cd.tx_state = "QUEUED"

Busy == cd.tx_state = "QUEUED" /\ ~pio_tx_did_fail(pio)

ScheduleBusy ==
  /\ irq.pc = "sched" /\ Busy
  /\ pio' = pio_irq_set(pio, irq.mask)
  /\ Return
  /\ UNCHANGED <<line, cd, app, log>>

(* Mutant: the state does not say that the "tx" machine has a message.     *)
SendHead_unnoted(p) ==
  /\ cd' = cd
  /\ pio' = pio_irq_set(pio_tx_send(p, SlotMsg(cd)), irq.mask)
  /\ Return

SendHead(p) ==
  /\ cd' = [cd EXCEPT !.tx_state = "QUEUED"]
  /\ pio' = pio_irq_set(pio_tx_send(p, SlotMsg(cd)), irq.mask)
  /\ Return

ScheduleSend ==
  /\ irq.pc = "sched" /\ ~Busy
  /\ cd.tx_push_pos # cd.tx_pull_pos
  /\ SendHead(pio)
  /\ UNCHANGED <<line, app, log>>

ScheduleEmpty ==
  /\ irq.pc = "sched" /\ ~Busy
  /\ cd.tx_push_pos = cd.tx_pull_pos
  /\ cd' = [cd EXCEPT !.tx_state = "IDLE"]
  /\ irq' = [irq EXCEPT !.pc = "clear"]
  /\ UNCHANGED <<line, pio, app, log>>

ScheduleClear ==
  /\ irq.pc = "clear"
  /\ pio' = pio_signal_clear_txpending(pio)
  /\ irq' = [irq EXCEPT !.pc = "reread"]
  /\ UNCHANGED <<line, cd, app, log>>

(* Mutant: the push position is not read again.                            *)
RereadEmpty_blind ==
  /\ irq.pc = "reread"
  /\ pio' = pio_irq_set(pio, irq.mask \cup {"TXPENDING"})
  /\ Return
  /\ UNCHANGED <<line, cd, app, log>>

RereadEmpty ==
  /\ irq.pc = "reread"
  /\ cd.tx_push_pos = cd.tx_pull_pos
  /\ pio' = pio_irq_set(pio, irq.mask \cup {"TXPENDING"})
  /\ Return
  /\ UNCHANGED <<line, cd, app, log>>

(* Raced with can2040_transmit: the message is available now.              *)
RereadRaced ==
  /\ irq.pc = "reread"
  /\ cd.tx_push_pos # cd.tx_pull_pos
  /\ SendHead(pio_signal_set_txpending(pio))
  /\ UNCHANGED <<line, app, log>>

-----------------------------------------------------------------------------
(* can2040_transmit, called by the main loop.                              *)

MainRuns == SameCore => irq.pc = "out"

(* Mutant: the slot is submitted before it is filled.                      *)
TransmitBegin_submitted(m) ==
  /\ MainRuns /\ app.pc = "ready" /\ app.left > 0
  /\ Pending < QueueLen
  /\ app' = [pc |-> "copy", msg |-> m, left |-> app.left - 1]
  /\ cd' = [cd EXCEPT !.tx_queue[tx_qpos(cd.tx_push_pos)] = NoMsg,
                      !.tx_push_pos = (@ + 1) % PosMod]
  /\ UNCHANGED <<line, pio, irq, log>>

(* Positions are read, there is room, and the slot is being rebuilt.       *)
TransmitBegin(m) ==
  /\ MainRuns /\ app.pc = "ready" /\ app.left > 0
  /\ Pending < QueueLen
  /\ app' = [pc |-> "copy", msg |-> m, left |-> app.left - 1]
  /\ cd' = [cd EXCEPT !.tx_queue[tx_qpos(cd.tx_push_pos)] = NoMsg]
  /\ UNCHANGED <<line, pio, irq, log>>

(* The queue is full: -1, and the message is the caller's to keep.         *)
TransmitFull(m) ==
  /\ MainRuns /\ app.pc = "ready" /\ app.left > 0
  /\ Pending >= QueueLen
  /\ app' = [app EXCEPT !.left = @ - 1]
  /\ UNCHANGED <<line, pio, cd, irq, log>>

TransmitCopy ==
  /\ MainRuns /\ app.pc = "copy"
  /\ cd' = [cd EXCEPT !.tx_queue[tx_qpos(cd.tx_push_pos)] = app.msg]
  /\ app' = [app EXCEPT !.pc = "submit"]
  /\ UNCHANGED <<line, pio, irq, log>>

(* Mutant: the push position does not wrap around as the pull position.    *)
TransmitSubmit_wider ==
  /\ MainRuns /\ app.pc = "submit"
  /\ cd' = [cd EXCEPT !.tx_push_pos = @ + 1]
  /\ app' = [app EXCEPT !.pc = "wake"]
  /\ UNCHANGED <<line, pio, irq, log>>

TransmitSubmit ==
  /\ MainRuns /\ app.pc = "submit"
  /\ cd' = [cd EXCEPT !.tx_push_pos = (@ + 1) % PosMod]
  /\ app' = [app EXCEPT !.pc = "wake"]
  /\ UNCHANGED <<line, pio, irq, log>>

TransmitWake ==
  /\ MainRuns /\ app.pc = "wake"
  /\ pio' = pio_signal_set_txpending(pio)
  /\ app' = [app EXCEPT !.pc = "ready"]
  /\ UNCHANGED <<line, cd, irq, log>>

-----------------------------------------------------------------------------
CdStates ==
  [parse_state : {"START", "HEADER", "CRC", "ACK", "EOF0", "EOF1", "DISCARD"},
   parse_msg : Nat,
   report_state : {"IDLE", "RX_ACK", "RX_EOF", "TX_ACK", "TX_EOF"},
   tx_state : {"IDLE", "QUEUED", "ACKING_RX", "CONFIRM_TX"},
   tx_push_pos : 0..(PosMod - 1), tx_pull_pos : 0..(PosMod - 1),
   tx_queue : [0..(QueueLen - 1) -> Msg \cup {NoMsg}]]
IrqStates == [pc : {"out", "loop", "sched", "clear", "reread"}, ints : SUBSET AllIrqs,
              mask : SUBSET AllIrqs, slack : 0..Slack]
AppStates == [pc : {"ready", "copy", "submit", "wake"}, msg : Msg \cup {NoMsg}, left : Nat]
LogStates == [rx : Seq(Nat), tx : Seq(Nat), err : BOOLEAN]

(* can2040_start has run: data_state_go_discard set the mask of PioInit.   *)
Init ==
  /\ PioInit
  /\ cd = [parse_state |-> "DISCARD", parse_msg |-> 0, report_state |-> "IDLE",
           tx_state |-> "IDLE", tx_push_pos |-> 0, tx_pull_pos |-> 0,
           tx_queue |-> [i \in 0..(QueueLen - 1) |-> NoMsg]]
  /\ irq = Idle
  /\ app = [pc |-> "ready", msg |-> NoMsg, left |-> AppSends]
  /\ log = [rx |-> <<>>, tx |-> <<>>, err |-> FALSE]

(* Once the rx fifo is drained, the handler serves one flag in less than a *)
(* bit time: it has the default priority, so no interrupt preempts it.     *)
Serving == irq.pc # "out" /\ "RX_DATA" \notin irq.ints

Wire ==
  /\ WireNext
  /\ Serving => irq.slack > 0
  /\ irq' = IF Serving THEN [irq EXCEPT !.slack = @ - 1] ELSE irq
  /\ UNCHANGED <<cd, app, log>>

Handler ==
  \/ IrqEnter
  \/ \E again \in BOOLEAN : ProcessRx(again)
  \/ report_line_ackdone \/ report_line_matched \/ report_line_maytx
  \/ tx_inject_ack \/ report_line_txpending
  \/ ScheduleBusy \/ ScheduleSend \/ ScheduleEmpty \/ ScheduleClear
  \/ RereadEmpty \/ RereadRaced

Main ==
  \/ \E m \in AppMsgs : TransmitBegin(m) \/ TransmitFull(m)
  \/ TransmitCopy \/ TransmitSubmit \/ TransmitWake

Next == Wire \/ Handler \/ Main

Spec == Init /\ [][Next]_vars

(* A frame that was started goes on, an idle line is sensed, the waiting   *)
(* "tx" machine starts, sampled bits are pushed as the frame goes on, the  *)
(* handler runs when a flag is up, a call of can2040_transmit returns.     *)
(* Nothing is assumed of the other nodes' messages or of the main loop's.  *)
Fairness ==
  /\ WF_vars(Wire /\ FrameStep)
  /\ WF_vars(Wire /\ (StartOwn \/ IdleBits \/ SignalMayTx \/ LongIdle))
  /\ WF_vars(Wire /\ Push /\ line.phase # "idle")
  /\ WF_vars(Handler)
  /\ WF_vars(TransmitCopy \/ TransmitSubmit \/ TransmitWake)

FairSpec == Spec /\ Fairness
=============================================================================
