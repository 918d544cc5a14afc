---------------------------- MODULE Can2040Props ----------------------------
(***************************************************************************)
(* What the CAN driver has to guarantee, over the state of Can2040.        *)
(***************************************************************************)
EXTENDS Can2040

(* Every variable has the type of the C object or register it stands for.  *)
TypeOK ==
  /\ line \in LineStates
  /\ pio \in PioStates
  /\ cd \in CdStates
  /\ irq \in IrqStates
  /\ app \in AppStates
  /\ log \in LogStates

QueuedMsg(i) == cd.tx_queue[tx_qpos(cd.tx_pull_pos + i)]

(* The transmit queue never holds more than its slots, and whatever the    *)
(* handler may read (the slots from pull to push) is complete: the copy of *)
(* can2040_transmit is never under the handler's eyes.  What the "tx"      *)
(* machine was given is the head of the queue until it is confirmed.       *)
QueueSound ==
  /\ Pending <= QueueLen
  /\ \A i \in 0..(QueueLen - 1) : i < Pending => QueuedMsg(i) \in Msg
  /\ cd.tx_state = "QUEUED" => Pending > 0 /\ pio.txmsg = QueuedMsg(0)
  /\ InTx(cd.report_state) => /\ Pending > 0
                              /\ cd.tx_state = "CONFIRM_TX"
                              /\ line.frames[cd.parse_msg].msg = QueuedMsg(0)

Increasing(s) == \A i, j \in DOMAIN s : i < j => s[i] < s[j]
Elements(s) == {s[i] : i \in DOMAIN s}

(* A frame is reported received at most once, whichever of the parser, the *)
(* MATCHED and the MAYTX interrupt comes first, in wire order, and only    *)
(* once its ack and six end-of-frame bits were seen.                       *)
RxOnceAndValid ==
  /\ Increasing(log.rx)
  /\ \A n \in Elements(log.rx) : line.frames[n].ok # "no"

(* The echo of this node's own frame is never delivered as a received one, *)
(* and this node never acknowledges its own frame.                         *)
OwnFrameNotReceived ==
  \A n \in DOMAIN line.frames :
     line.frames[n].src = "own" => n \notin Elements(log.rx) /\ line.frames[n].ack # "us"

(* Nothing is going on: wire idle and signalled, handler out, no enabled   *)
(* flag, no call of can2040_transmit under way.                            *)
Quiet ==
  /\ line.phase = "idle" /\ pio.sync = "signalled"
  /\ irq.pc = "out" /\ Ints(pio) = {}
  /\ app.pc = "ready"

(* What this node acknowledged on the wire it also delivers: no order of   *)
(* ack, match, idle line and late rx words loses a received frame silently.*)
AckedIsDelivered ==
  Quiet /\ ~log.err /\ ~pio.stall =>
    \A n \in DOMAIN line.frames :
       line.frames[n].ack = "us" /\ line.frames[n].ok # "no" => n \in Elements(log.rx)

(* The PIO block may have been restarted: the rx fifo was overrun, or the  *)
(* idle counter of "sync" overflowed.                                      *)
Restarted == line.overruns < Overruns \/ line.wraps < Wraps

(* Such a restart has halted "tx", and pio_tx_did_fail has not told it yet *)
(* from a transmission that is under way.                                  *)
Stranded == Restarted /\ cd.tx_state = "QUEUED" /\ pio.txsm = "off"

(* No lost wakeup: a message in the queue is in the hands of the "tx"      *)
(* machine, waiting for the line, or it was stranded by a restart.  In no  *)
(* other way a quiet node sits on a message.                               *)
NoLostWakeup ==
  Quiet /\ Pending > 0 => Stranded \/ (pio.txsm = "armed" /\ pio.txmsg = QueuedMsg(0))

(* While a message waits with the driver in TS_IDLE, TXPENDING is up: the  *)
(* two-step handshake of tx_schedule_transmit and can2040_transmit.        *)
WakeupPending ==
  cd.tx_state = "IDLE" /\ Pending > 0 /\ app.pc # "wake"
    /\ irq.pc \notin {"clear", "reread"}
    => "TXPENDING" \in pio.irqs

(* The driver implements the abstract first-in first-out queue.            *)
Queued == [i \in 1..Pending |-> QueuedMsg(i - 1)]
Fifo == INSTANCE TxFifo WITH
  Capacity <- QueueLen, None <- NoMsg,
  offer <- IF app.pc \in {"copy", "submit"} THEN app.msg ELSE NoMsg,
  queue <- Queued,
  confirmed <- [i \in DOMAIN log.tx |-> line.frames[log.tx[i]].msg]
FifoSpec == Fifo!Spec

(* Every accepted message is eventually transmitted and confirmed, through *)
(* lost arbitrations, missing acknowledges and disturbed frames (each as   *)
(* often as the bounds allow): tx_schedule_transmit tries again.  Only one *)
(* that a restart of the PIO block has stranded may stay in the queue.     *)
Accepted == Pending + Len(log.tx)
EveryMessageConfirmed ==
  \A k \in 1..AppSends : Accepted >= k ~> (Len(log.tx) >= k \/ []Stranded)

(* Every frame confirmed to the caller was acknowledged and ended: the     *)
(* comment of report_line_matched, "A match event indicates an ack and eof *)
(* are present".                                                           *)
TxConfirmedIsAcked == \A n \in Elements(log.tx) : line.frames[n].ok = "tx"

(* TS_QUEUED means that the "tx" machine has the message: the comment of   *)
(* tx_schedule_transmit, "Already queued or actively transmitting".        *)
QueuedIsArmed == Quiet /\ cd.tx_state = "QUEUED" => pio.txsm = "armed"
=============================================================================
