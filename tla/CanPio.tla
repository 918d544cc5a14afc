------------------------------- MODULE CanPio -------------------------------
(***************************************************************************)
(* The PIO block and the CAN wire as src/port/board/can/can.c uses them:   *)
(* the pio_ register helpers and the four PIO state machines "sync",    *)
(* "rx", "match" and "tx", whose program is the table                      *)
(* can2040_program_instructions.                                           *)
(*                                                                         *)
(* Bits are abstracted to TOKENS: one token per field that the parser of   *)
(* can.c consumes in one call (data_state_update, data_state_line_error,   *)
(* data_state_line_passive).  The "rx" state machine pushes a word every   *)
(* 10 sampled bits (PIO_RX_WAKE_BITS), so the end of a field may wait in   *)
(* the shift register for up to 9 more bits: tokens are sampled into isr   *)
(* and flushed to fifo later, and the guards of the wire's steps bound the *)
(* lag by the distance in bits between the fields.                         *)
(*                                                                         *)
(* The wire is the environment: other nodes start frames, acknowledge,     *)
(* disturb them, and send overload frames, within the budgets PeerFrames   *)
(* and Faults; Overruns bounds how often this node loses sampled bits, and *)
(* Wraps how often the line is idle until the counter of "sync" overflows. *)
(***************************************************************************)
EXTENDS Integers, Sequences

CONSTANTS
  Msg,          (* messages (id, dlc, data) as records with a field id     *)
  PeerMsgs,     (* the messages other nodes may send, a subset of Msg      *)
  PeerFrames,   (* bound: how many frames other nodes start                *)
  Faults,       (* bound: disturbed, overloaded or unacknowledged frames,  *)
                (* and overflows of the idle counter of "sync"             *)
  Overruns,     (* bound: overruns of the rx fifo                          *)
  Wraps,        (* bound: overflows of the idle counter, among Faults      *)
  FifoCap,      (* room of the joined 8-word rx fifo, in tokens            *)
  NoMsg         (* what a slot holds before and while it is written        *)

ASSUME PioAssumption ==
  /\ \A m \in Msg : m.id \in Nat
  /\ PeerMsgs \subseteq Msg
  /\ PeerFrames \in Nat
  /\ Faults \in Nat
  /\ Overruns \in Nat
  /\ Wraps \in Nat
  /\ FifoCap \in Nat \ {0}
  /\ NoMsg \notin Msg

VARIABLES
  line,   (* phase of the frame on the wire, the frames so far, the budgets *)
  pio     (* registers, fifos and state machines of the PIO block          *)

SmIrqs == {"MAYTX", "TXPENDING", "MATCHED", "ACKDONE"}
AllIrqs == SmIrqs \cup {"RX_DATA"}

Kinds == {"sof", "body", "rsv", "crc", "badcrc", "ack", "noack", "eof0",
          "eof1", "over", "rxover", "err", "pas", "idle", "long"}
Tokens == [k : Kinds, n : Nat]

TxSmStates == {"off", "armed", "sending", "conflict", "drained",
               "ackarmed", "acking", "ackhold"}
MatchKinds == {"none", "inject", "rxend", "txend"}
Phases == {"idle", "sof", "body", "crc", "ack", "eof4", "eof6", "eof7", "flag"}

(* What the wire saw of frame n: who sent it, whether its ack slot was     *)
(* driven (by this node: "us"), and how much of the end of frame was       *)
(* recessive: "rx" after bit 6 (valid for receivers), "tx" after bit 7     *)
(* (valid for the transmitter).                                            *)
Frames == [src : {"own", "peer"}, msg : Msg \cup {NoMsg},
           ack : {"none", "us", "other"}, ok : {"no", "rx", "tx"}]

NoKey == [kind |-> "none", n |-> 0]

-----------------------------------------------------------------------------
(* Register helpers.  Each takes the registers p and returns them changed. *)

Intr(p) == p.irqs \cup (IF p.fifo = <<>> THEN {} ELSE {"RX_DATA"})
Ints(p) == Intr(p) \cap p.inte

pio_rx_check_stall(p) == p.stall

pio_irq_set(p, sm_irqs) == [p EXCEPT !.inte = sm_irqs \cup {"RX_DATA"}]

pio_signal_set_txpending(p) == [p EXCEPT !.irqs = @ \cup {"TXPENDING"}]
pio_signal_clear_txpending(p) == [p EXCEPT !.irqs = @ \ {"TXPENDING"}]

(* A match key names the frame (its raw bit position) and what to look for. *)
pio_match_check(p, kind, n) == [p EXCEPT !.match = [kind |-> kind, n |-> n]]
pio_match_clear(p) == [p EXCEPT !.match = NoKey]

(* Halts "tx", flushes its fifo and drops the MATCHED and ACKDONE flags.   *)
pio_tx_reset(p) ==
  [p EXCEPT !.txsm = "off", !.flevel = FALSE, !.irqs = @ \ {"MATCHED", "ACKDONE"}]

(* "tx" waits for the MAYTX flag (wait 1 irq, 0) with message m loaded:    *)
(* the first of its words has left the fifo, there are at least two.       *)
pio_tx_send(p, m) ==
  [pio_tx_reset(p) EXCEPT !.txsm = "armed", !.flevel = TRUE, !.txmsg = m]

(* "tx" waits for the MATCHED flag (wait 1 irq, 2) to drive the ack bit.   *)
pio_tx_inject_ack(p, n) ==
  pio_match_check([pio_tx_reset(p) EXCEPT !.txsm = "ackarmed"], "inject", n)

pio_tx_did_fail(p) ==
  IF p.txsm = "conflict"
  THEN p.fifo = <<>>
  ELSE /\ ~p.flevel
       /\ "MAYTX" \in p.irqs
       /\ p.fifo = <<>>

(* Restarts all four state machines, "tx" halted: every flag is dropped,   *)
(* TXPENDING is raised, rx fifo and shift register are flushed.  The words *)
(* in the tx fifo stay, and so does the address "tx" has stopped at.       *)
pio_sm_setup(p) ==
  [p EXCEPT !.irqs = {"TXPENDING"}, !.fifo = <<>>, !.isr = <<>>,
            !.match = NoKey, !.txsm = IF @ = "conflict" THEN @ ELSE "off",
            !.stall = FALSE, !.sync = "sampling"]

-----------------------------------------------------------------------------
(* The wire and the state machines.                                        *)

Last == Len(line.frames)
Frame == line.frames[Last]

Sampled(kind, n) == Append(pio.isr, [k |-> kind, n |-> n])
Waiting(kinds) == \E i \in DOMAIN pio.isr : pio.isr[i].k \in kinds

(* The match state machine sees key kind of the current frame go by.  It   *)
(* raises MATCHED; a "tx" machine waiting for it consumes the flag.  After *)
(* an rx overrun positions no longer agree and nothing matches.            *)
Matches(kind) == pio.match = [kind |-> kind, n |-> Last] /\ ~pio.stall
MatchIrqs(kind) ==
  IF Matches(kind) /\ pio.txsm # "ackarmed" THEN pio.irqs \cup {"MATCHED"} ELSE pio.irqs
MatchTxSm(kind) ==
  IF Matches(kind) /\ pio.txsm = "ackarmed" THEN "acking" ELSE pio.txsm
MatchLeft(kind) == IF Matches(kind) THEN NoKey ELSE pio.match

NewFrame(src, m) ==
  line' = [line EXCEPT
             !.phase = "sof",
             !.frames = Append(@, [src |-> src, msg |-> m, ack |-> "none", ok |-> "no"]),
             !.peers = IF src = "peer" THEN @ - 1 ELSE @]

(* A start of frame: "sync" drops the MAYTX flag (irq clear 0).            *)
StartOfFrame(txsm, left) ==
  pio' = [pio EXCEPT !.isr = Sampled("sof", Last + 1), !.irqs = @ \ {"MAYTX"},
                     !.sync = "count", !.txsm = txsm, !.flevel = left]

(* Before the crc has been sent, words may be left in the tx fifo or not.  *)
StartOwn ==
  /\ line.phase = "idle" /\ pio.txsm = "armed" /\ "MAYTX" \in pio.irqs
  /\ NewFrame("own", pio.txmsg)
  /\ \E left \in BOOLEAN : StartOfFrame("sending", left)

StartPeer(m) ==
  /\ line.phase = "idle" /\ line.peers > 0
  /\ NewFrame("peer", m)
  /\ StartOfFrame(pio.txsm, pio.flevel)

(* Both start; the other node's message wins the arbitration.              *)
LoseArbitration(m) ==
  /\ line.phase = "idle" /\ line.peers > 0
  /\ pio.txsm = "armed" /\ "MAYTX" \in pio.irqs
  /\ m # pio.txmsg /\ m.id <= pio.txmsg.id
  /\ NewFrame("peer", m)
  /\ StartOfFrame("conflict", pio.flevel)

(* The header and data; kind "rsv" has a reserved header bit set.          *)
SendBody(kind) ==
  /\ line.phase = "sof" /\ pio.isr = <<>>
  /\ Frame.src = "own" => (pio.txsm = "sending" /\ kind = "body")
  /\ kind = "rsv" => line.faults > 0
  /\ line' = [line EXCEPT !.phase = "body", !.faults = IF kind = "rsv" THEN @ - 1 ELSE @]
  /\ pio' = [pio EXCEPT !.isr = Sampled(kind, Last), !.sync = "count"]

(* The crc and its delimiter; "badcrc" is a disturbance only this node saw *)
SendCrc(kind) ==
  /\ line.phase = "body" /\ pio.isr = <<>>
  /\ Frame.src = "own" => pio.txsm = "sending"
  /\ kind = "badcrc" => line.faults > 0
  /\ line' = [line EXCEPT !.phase = "crc", !.faults = IF kind = "badcrc" THEN @ - 1 ELSE @]
  /\ IF kind = "crc"
     THEN pio' = [pio EXCEPT !.isr = Sampled(kind, Last), !.irqs = MatchIrqs("inject"),
                             !.txsm = MatchTxSm("inject"), !.match = MatchLeft("inject"),
                             !.sync = "count", !.flevel = @ /\ Frame.src = "peer"]
     ELSE pio' = [pio EXCEPT !.isr = Sampled(kind, Last), !.sync = "count",
                             !.flevel = @ /\ Frame.src = "peer"]

(* The ack bit and its delimiter.  The padding after an own frame is       *)
(* recessive: reading a dominant ack there is a conflict, unless the       *)
(* message ended on a word boundary and the fifo is drained.               *)
AckSlot(others, txend) ==
  LET us == pio.txsm = "acking"
      acked == us \/ others
  IN /\ line.phase = "crc"
     /\ (Frame.src = "own" /\ ~acked) => line.faults > 0
     /\ line' = [line EXCEPT
                   !.phase = "ack",
                   !.frames[Last].ack = IF us THEN "us" ELSE IF others THEN "other" ELSE "none",
                   !.faults = IF Frame.src = "own" /\ ~acked THEN @ - 1 ELSE @]
     /\ pio' = [pio EXCEPT
                  !.isr = Sampled(IF acked THEN "ack" ELSE "noack", Last),
                  !.irqs = IF us THEN @ \cup {"ACKDONE"} ELSE @,
                  !.sync = IF acked THEN "count" ELSE @,
                  !.txsm = CASE us -> "ackhold"
                             [] pio.txsm = "sending" -> txend
                             [] OTHER -> @]

(* A transmitter without an acknowledge sends an error flag (Disturb); a   *)
(* can2040 transmitter does not, its frame ends recessive.                 *)
EofBit4 ==
  /\ line.phase = "ack"
  /\ Frame.ack # "none" \/ Frame.src = "own"
  /\ line' = [line EXCEPT !.phase = "eof4"]
  /\ pio' = [pio EXCEPT !.isr = Sampled("eof0", Last)]

EofBit6 ==
  /\ line.phase = "eof4"
  /\ line' = [line EXCEPT !.phase = "eof6",
                          !.frames[Last].ok = IF Frame.ack = "none" THEN @ ELSE "rx"]
  /\ pio' = [pio EXCEPT !.irqs = MatchIrqs("rxend"), !.match = MatchLeft("rxend")]

EofBit7 ==
  /\ line.phase = "eof6" /\ ~Waiting({"crc", "badcrc"})
  /\ line' = [line EXCEPT !.phase = "eof7",
                          !.frames[Last].ok = IF Frame.ack = "none" THEN @ ELSE "tx"]
  /\ IF Frame.ack # "none"
     THEN pio' = [pio EXCEPT !.irqs = MatchIrqs("txend"), !.match = MatchLeft("txend")]
     ELSE UNCHANGED pio

(* "sync" was restarted and has not seen a dominant bit or ten recessive   *)
(* bits since: a line that falls idle tells it nothing yet.                *)
Unsynced == pio.sync = "sampling"

(* Two recessive bits later "sync" has seen 10 of them and stops sampling. *)
Intermission ==
  /\ line.phase = "eof7" /\ ~Waiting({"crc", "badcrc", "ack", "noack"})
  /\ line' = [line EXCEPT !.phase = "idle"]
  /\ pio' = [pio EXCEPT !.isr = IF Unsynced THEN @ ELSE Sampled("eof1", Last)]

(* A dominant bit right after end-of-frame bit 6 ("rxover") or 7 ("over"). *)
Overload ==
  /\ line.phase \in {"eof6", "eof7"} /\ line.faults > 0
  /\ Frame.ack # "none" /\ ~Waiting({"crc", "badcrc"})
  /\ line' = [line EXCEPT !.phase = "flag", !.faults = @ - 1]
  /\ pio' = [pio EXCEPT !.isr = Sampled(IF line.phase = "eof6" THEN "rxover" ELSE "over", Last),
                        !.sync = "count"]

(* An error flag ("err", six dominant bits), or a transmitter that falls   *)
(* silent ("pas", six recessive bits).  An own frame whose "tx" machine    *)
(* was reset before the crc falls silent.                                  *)
Disturb(kind) ==
  LET silent == Frame.src = "own" /\ pio.txsm # "sending" /\ line.phase \in {"sof", "body"}
      unacked == Frame.src = "peer" /\ Frame.ack = "none" /\ line.phase = "ack"
      free == (silent /\ kind = "pas") \/ (unacked /\ kind = "err")
  IN /\ line.phase \in {"sof", "body", "crc", "ack", "eof4"}
     /\ kind = "pas" => line.phase \in {"sof", "body"}
     /\ free \/ line.faults > 0
     /\ line' = [line EXCEPT !.phase = "flag", !.faults = IF free THEN @ ELSE @ - 1]
     /\ pio' = [pio EXCEPT !.isr = Sampled(kind, Last), !.sync = "count",
                           !.txsm = IF @ \in {"sending", "acking"} THEN "conflict" ELSE @]

(* Ten recessive bits after an error or overload flag.                     *)
RecoverLine ==
  /\ line.phase = "flag" /\ pio.isr = <<>>
  /\ line' = [line EXCEPT !.phase = "idle"]
  /\ pio' = [pio EXCEPT !.isr = IF Unsynced THEN @ ELSE Sampled("idle", Last)]

(* Ten recessive bits on an idle wire after a restart of "sync": exactly   *)
(* one word, pushed with its last bit.                                     *)
IdleBits ==
  /\ line.phase = "idle" /\ Unsynced
  /\ pio' = [pio EXCEPT !.fifo = @ \o Sampled("idle", Last), !.isr = <<>>, !.sync = "count"]
  /\ UNCHANGED line

(* "sync" raises "may transmit" (sm irq 0) after 11 or 17 idle bits.       *)
SignalMayTx ==
  /\ line.phase = "idle" /\ pio.sync = "count"
  /\ pio' = [pio EXCEPT !.irqs = @ \cup {"MAYTX"}, !.sync = "signalled"]
  /\ UNCHANGED line

(* The line stays idle for so long (2^28 bits) that the counter of "sync"  *)
(* overflows and it samples again, what waited in the shift register and   *)
(* passive bits.  By then a loaded "tx" has started and all was served.    *)
CounterWraps ==
  /\ line.phase = "idle" /\ pio.sync = "signalled" /\ pio.txsm # "armed" /\ Ints(pio) = {}
  /\ line.wraps > 0 /\ line.faults > 0
  /\ line' = [line EXCEPT !.wraps = @ - 1, !.faults = @ - 1]
  /\ pio' = [pio EXCEPT !.fifo = @ \o Sampled("idle", Last), !.isr = <<>>, !.sync = "wrapped"]

(* The word with the 32nd passive bit.  It makes the driver restart "sync" *)
(* and drop the words behind it, which are left out.                       *)
LongIdle ==
  /\ line.phase = "idle" /\ pio.sync = "wrapped"
  /\ pio' = [pio EXCEPT !.fifo = @ \o Sampled("long", Last), !.isr = <<>>, !.sync = "signalled"]
  /\ UNCHANGED line

(* "sync" samples no bit between ten recessive bits and the next start of  *)
(* frame, unless its counter overflows, so nothing is pushed once it has   *)
(* signalled an idle line.                                                 *)
Sampling == pio.isr # <<>> /\ (line.phase = "idle" => pio.sync # "signalled")

(* The shift register reaches 10 bits and is pushed ...                    *)
Push ==
  /\ Sampling
  /\ Len(pio.fifo) + Len(pio.isr) <= FifoCap
  /\ pio' = [pio EXCEPT !.fifo = @ \o pio.isr, !.isr = <<>>]
  /\ UNCHANGED line

(* ... or the fifo is full, "rx" stalls and bits are lost: the handler was *)
(* kept out for 80 bits, which header and data of one frame may have.      *)
Overrun ==
  /\ Sampling /\ line.overruns > 0
  /\ Waiting({"body"}) \/ Len(pio.fifo) + Len(pio.isr) > FifoCap
  /\ line' = [line EXCEPT !.overruns = @ - 1]
  /\ pio' = [pio EXCEPT !.isr = <<>>, !.stall = TRUE]

(* can2040_start has run pio_setup: the wire is idle, "sync" is sampling.  *)
PioInit ==
  /\ line = [phase |-> "idle", frames |-> <<>>, peers |-> PeerFrames, faults |-> Faults,
             overruns |-> Overruns, wraps |-> Wraps]
  /\ pio = [irqs |-> {"TXPENDING"}, inte |-> {"MAYTX", "TXPENDING", "RX_DATA"},
            fifo |-> <<>>, isr |-> <<>>, stall |-> FALSE, match |-> NoKey,
            txsm |-> "off", flevel |-> FALSE, txmsg |-> NoMsg, sync |-> "sampling"]

FrameStep ==
  \/ \E k \in {"body", "rsv"} : SendBody(k)
  \/ \E k \in {"crc", "badcrc"} : SendCrc(k)
  \/ \E others \in BOOLEAN, txend \in {"conflict", "drained"} : AckSlot(others, txend)
  \/ EofBit4 \/ EofBit6 \/ EofBit7 \/ Intermission \/ Overload
  \/ \E k \in {"err", "pas"} : Disturb(k)
  \/ RecoverLine

WireNext ==
  \/ StartOwn
  \/ \E m \in PeerMsgs : StartPeer(m) \/ LoseArbitration(m)
  \/ FrameStep
  \/ IdleBits \/ SignalMayTx \/ CounterWraps \/ LongIdle \/ Push \/ Overrun

LineStates == [phase : Phases, frames : Seq(Frames), peers : Nat, faults : Nat,
               overruns : Nat, wraps : Nat]
PioStates == [irqs : SUBSET SmIrqs, inte : SUBSET AllIrqs, fifo : Seq(Tokens),
              isr : Seq(Tokens), stall : BOOLEAN, match : [kind : MatchKinds, n : Nat],
              txsm : TxSmStates, flevel : BOOLEAN, txmsg : Msg \cup {NoMsg},
              sync : {"sampling", "count", "signalled", "wrapped"}]
=============================================================================
