------------------------- MODULE Can2040WakeProofs --------------------------
(***************************************************************************)
(* The parser of the CAN driver keeps step with the wire, and a message    *)
(* that is accepted never waits for an interrupt that does not come, as    *)
(* long as the PIO block is not restarted; what this node acknowledged it  *)
(* reports received, unless it notes an overrun; and what it sent itself   *)
(* it never reports received, if the wire goes at most five steps while    *)
(* the handler serves one flag.                                            *)
(*                                                                         *)
(* The invariants build on each other: FlowInv (the words of the rx fifo   *)
(* name frames of the wire in order), LockInv (the parser is where the     *)
(* words read so far lead), PendInv (TXPENDING), HandInv (who hands the    *)
(* message to the "tx" machine), WakeInv (the masks), DeliverInv (what was *)
(* acknowledged), EchoInv (what is recognised as an own frame in time).    *)
(***************************************************************************)
EXTENDS Can2040FrameProofs

(* The PIO block has not been restarted: no overrun, no overflow of the    *)
(* idle counter so far.                                                    *)
Unbroken(l) == l.overruns = Overruns /\ l.wraps = Wraps

-----------------------------------------------------------------------------
(* A step of the frame on the wire, field by field.                        *)

(* A frame goes on from phase to phase: the field k that this node samples *)
(* meanwhile, or "none".                                                   *)
Onto(from, k, to) ==
  \/ from = "sof" /\ k \in {"body", "rsv"} /\ to = "body"
  \/ from = "body" /\ k \in {"crc", "badcrc"} /\ to = "crc"
  \/ from = "crc" /\ k \in {"ack", "noack"} /\ to = "ack"
  \/ from = "ack" /\ k = "eof0" /\ to = "eof4"
  \/ from = "eof4" /\ k = "none" /\ to = "eof6"
  \/ from = "eof6" /\ k = "none" /\ to = "eof7"
  \/ from = "eof7" /\ k = "eof1" /\ to = "idle"
  \/ from = "eof6" /\ k = "rxover" /\ to = "flag"
  \/ from = "eof7" /\ k = "over" /\ to = "flag"
  \/ from \in {"sof", "body", "crc", "ack", "eof4"} /\ k = "err" /\ to = "flag"
  \/ from \in {"sof", "body"} /\ k = "pas" /\ to = "flag"
  \/ from = "flag" /\ k = "idle" /\ to = "idle"
  \/ from \in {"eof7", "flag"} /\ k = "none" /\ to = "idle" /\ Unsynced

(* What the "tx" machine does meanwhile.                                   *)
TxGoes ==
  \/ pio'.txsm = pio.txsm
  \/ /\ pio.txsm = "ackarmed" /\ pio'.txsm = "acking" /\ pio.match.kind = "inject"
     /\ line.phase = "body" /\ line'.phase = "crc"
  \/ pio.txsm = "acking" /\ pio'.txsm = "ackhold" /\ line.phase = "crc" /\ line'.phase = "ack"
  \/ pio.txsm = "sending" /\ pio'.txsm \in {"conflict", "drained"} /\ line'.phase = "ack"
  \/ pio.txsm \in {"sending", "acking"} /\ pio'.txsm = "conflict" /\ line'.phase = "flag"

(* What becomes of the frames: only the one on the wire can gain an ack,   *)
(* in its ack slot, or an end.                                             *)
FramesGo(k) ==
  /\ DOMAIN line'.frames = DOMAIN line.frames
  /\ \A n \in DOMAIN line.frames :
       /\ n # Last => line'.frames[n] = line.frames[n]
       /\ line'.frames[n].msg = line.frames[n].msg /\ line'.frames[n].src = line.frames[n].src
  /\ line'.frames[Last].ack # line.frames[Last].ack => line'.phase = "ack"
  /\ line'.phase = "ack" => /\ line'.frames[Last].ack = "us" => pio.txsm = "acking"
                            /\ k = "noack" => line'.frames[Last].ack = "none"
  /\ line'.frames[Last].ok # line.frames[Last].ok => line'.phase \in {"eof6", "eof7"}

(* The frame on the wire goes on, and this node samples its field k.       *)
Advances(k) ==
  /\ Onto(line.phase, k, line'.phase)
  /\ pio'.isr = IF k = "none" THEN pio.isr ELSE Sampled(k, Last)
  /\ pio'.fifo = pio.fifo /\ pio'.stall = pio.stall /\ pio'.inte = pio.inte
  /\ pio'.txmsg = pio.txmsg /\ line'.overruns = line.overruns /\ line'.wraps = line.wraps
  /\ pio'.sync \in {pio.sync, "count"} /\ (k \in Closing \ ({"eof1"} \cup Passive) => pio'.sync = "count")
  /\ \A f \in {"MAYTX", "TXPENDING"} : f \in pio'.irqs <=> f \in pio.irqs
  /\ TxGoes /\ FramesGo(k)
  /\ k \in {"body", "rsv", "crc", "badcrc"} \/ line.phase = "flag" => pio.isr = <<>>
  /\ line.phase = "eof7" /\ line'.phase = "idle" => ~Waiting({"crc", "badcrc", "ack", "noack"})
  /\ k \in {"rxover", "over"} => ~Waiting({"crc", "badcrc"})
  /\ line.phase = "sof" /\ Frame.src = "own" /\ k \notin Flags => pio.txsm = "sending" /\ k = "body"
  /\ k \in {"crc", "badcrc"} /\ pio'.txsm = "acking" /\ pio.txsm # "acking" => k = "crc"
  /\ k \in Flags => pio'.txsm \notin {"sending", "acking"}
  /\ line'.phase = "ack" => pio'.txsm # "sending"
  /\ pio'.flevel => pio.flevel /\ (line'.phase = "crc" => Frame.src # "own")
  /\ pio'.flevel = pio.flevel \/ pio.txsm = "sending"

\* Every step of a frame is one of those.
LEMMA FrameAdvances ==
  ASSUME WireTyped, FrameStep
  PROVE  \E k \in Kinds \cup {"none"} : Advances(k)
<1> DEFINE Goal == \E k \in Kinds \cup {"none"} : Advances(k)
<1> SUFFICES Goal
  OBVIOUS
<1>0. /\ pio \in PioStates /\ line \in LineStates /\ Frame = line.frames[Last]
      /\ line.frames \in Seq(Frames)
      /\ line.phase # "idle" => Last \in DOMAIN line.frames /\ Frame \in Frames
  BY WireParts DEF Frame
<1>i. pio'.inte = pio.inte
  BY WireKeeps DEF WireNext
<1>m. ASSUME NEW kind, NEW f \in {"MAYTX", "TXPENDING"} PROVE f \in MatchIrqs(kind) <=> f \in pio.irqs
  BY <1>m DEF MatchIrqs
<1>f. ASSUME line'.frames = line.frames, NEW k, line'.phase # "ack" PROVE FramesGo(k)
  BY <1>f DEF FramesGo
<1>1. ASSUME NEW k \in {"body", "rsv"}, SendBody(k) PROVE Goal
  <2>1. /\ line.phase = "sof" /\ line'.phase = "body" /\ line'.frames = line.frames
        /\ line'.overruns = line.overruns /\ line'.wraps = line.wraps
        /\ pio.isr = <<>> /\ (Frame.src = "own" => pio.txsm = "sending" /\ k = "body")
    BY <1>0, <1>1 DEF SendBody, LineStates
  <2>2. /\ pio'.isr = Sampled(k, Last) /\ pio'.fifo = pio.fifo /\ pio'.stall = pio.stall /\ pio'.flevel = pio.flevel
        /\ pio'.txmsg = pio.txmsg /\ pio'.txsm = pio.txsm /\ pio'.irqs = pio.irqs
        /\ pio'.sync = "count"
    BY <1>0, <1>1 DEF SendBody, PioStates
  <2>3. FramesGo(k)
    BY <1>f, <2>1
  <2>4. Advances(k)
    BY <1>1, <1>i, <2>1, <2>2, <2>3 DEF Advances, Onto, TxGoes, Closing, Passive, Flags
  <2> QED
    BY <1>1, <2>4 DEF Kinds
<1>2. ASSUME NEW k \in {"crc", "badcrc"}, SendCrc(k) PROVE Goal
  <2>1. /\ line.phase = "body" /\ line'.phase = "crc" /\ line'.frames = line.frames
        /\ line'.overruns = line.overruns /\ line'.wraps = line.wraps /\ pio.isr = <<>>
        /\ Frame.src = "own" => pio.txsm = "sending"
    BY <1>0, <1>2 DEF SendCrc, LineStates
  <2>0. PICK left \in BOOLEAN :
           /\ left = (pio.flevel /\ Frame.src = "peer")
           /\ k = "crc" =>
                pio' = [pio EXCEPT !.isr = Sampled("crc", Last), !.irqs = MatchIrqs("inject"),
                                   !.txsm = MatchTxSm("inject"), !.match = MatchLeft("inject"),
                                   !.sync = "count", !.flevel = left]
           /\ k # "crc" =>
                pio' = [pio EXCEPT !.isr = Sampled(k, Last), !.sync = "count", !.flevel = left]
    BY <1>0, <1>2, SendCrcIs
  <2>a. Frame.src = "peer" \/ pio.txsm = "sending"
    BY <1>0, <2>1 DEF Frames
  <2>2. /\ pio'.isr = Sampled(k, Last) /\ pio'.fifo = pio.fifo /\ pio'.stall = pio.stall
        /\ (pio'.flevel => pio.flevel /\ Frame.src # "own")
        /\ pio'.flevel = pio.flevel \/ pio.txsm = "sending"
        /\ pio'.txmsg = pio.txmsg /\ pio'.sync = "count"
        /\ k = "crc" => pio'.irqs = MatchIrqs("inject") /\ pio'.txsm = MatchTxSm("inject")
        /\ k # "crc" => pio'.irqs = pio.irqs /\ pio'.txsm = pio.txsm
    <3>1. CASE k = "crc"
      BY <1>0, <2>0, <2>a, <3>1 DEF PioStates
    <3>2. CASE k # "crc"
      BY <1>0, <2>0, <2>a, <3>2 DEF PioStates
    <3> QED
      BY <3>1, <3>2
  <2>3. \/ pio'.txsm = pio.txsm
        \/ /\ k = "crc" /\ pio.txsm = "ackarmed" /\ pio'.txsm = "acking"
           /\ pio.match.kind = "inject"
    BY <2>2 DEF MatchTxSm, Matches
  <2>4. \A f \in {"MAYTX", "TXPENDING"} : f \in pio'.irqs <=> f \in pio.irqs
    BY <1>m, <2>2
  <2>5. FramesGo(k)
    BY <1>f, <2>1
  <2>6. Advances(k)
    BY <1>2, <1>i, <2>1, <2>2, <2>3, <2>4, <2>5 DEF Advances, Onto, TxGoes, Closing, Passive, Flags
  <2> QED
    BY <1>2, <2>6 DEF Kinds
<1>3. ASSUME NEW others \in BOOLEAN, NEW txend \in {"conflict", "drained"}, AckSlot(others, txend)
      PROVE  Goal
  <2> DEFINE us == pio.txsm = "acking"
             a == IF us THEN "us" ELSE IF others THEN "other" ELSE "none"
             k == IF us \/ others THEN "ack" ELSE "noack"
  <2>1. /\ line.phase = "crc" /\ line'.phase = "ack" /\ line'.overruns = line.overruns /\ line'.wraps = line.wraps
        /\ line'.frames = [line.frames EXCEPT ![Last].ack = a]
    BY <1>0, <1>3 DEF AckSlot, LineStates
  <2>2. /\ pio'.isr = Sampled(k, Last) /\ pio'.fifo = pio.fifo /\ pio'.stall = pio.stall /\ pio'.flevel = pio.flevel
        /\ pio'.txmsg = pio.txmsg /\ pio'.sync \in {pio.sync, "count"}
        /\ pio'.irqs = IF us THEN pio.irqs \cup {"ACKDONE"} ELSE pio.irqs
        /\ us => pio'.txsm = "ackhold"
        /\ ~us => pio'.txsm = IF pio.txsm = "sending" THEN txend ELSE pio.txsm
        /\ pio'.txsm # "sending"
    BY <1>0, <1>3 DEF AckSlot, PioStates
  <2>3. k \in {"ack", "noack"} /\ (a = "us" => us) /\ (k = "noack" => a = "none")
    OBVIOUS
  <2>4. TxGoes
    BY <1>3, <2>1, <2>2 DEF TxGoes
  <2> HIDE DEF k, a
  <2>5. line'.frames[Last] = [Frame EXCEPT !.ack = a] /\ line'.frames[Last].ack = a
    BY <1>0, <2>1 DEF Frames
  <2>6. FramesGo(k)
    BY <1>0, <2>1, <2>3, <2>5 DEF FramesGo, Frames
  <2>7. Advances(k)
    BY <1>i, <2>1, <2>2, <2>3, <2>4, <2>6 DEF Advances, Onto, Closing, Passive, Flags
  <2> QED
    BY <2>3, <2>7 DEF Kinds
<1>4. CASE EofBit4
  <2>1. /\ line.phase = "ack" /\ line'.phase = "eof4" /\ line'.frames = line.frames
        /\ line'.overruns = line.overruns /\ line'.wraps = line.wraps
    BY <1>0, <1>4 DEF EofBit4, LineStates
  <2>2. /\ pio'.isr = Sampled("eof0", Last) /\ pio'.fifo = pio.fifo /\ pio'.stall = pio.stall /\ pio'.flevel = pio.flevel
        /\ pio'.txmsg = pio.txmsg /\ pio'.txsm = pio.txsm /\ pio'.irqs = pio.irqs
        /\ pio'.sync = pio.sync
    BY <1>0, <1>4 DEF EofBit4, PioStates
  <2>3. FramesGo("eof0")
    BY <1>f, <2>1
  <2>4. Advances("eof0")
    BY <1>i, <2>1, <2>2, <2>3 DEF Advances, Onto, TxGoes, Closing, Passive, Flags
  <2> QED
    BY <2>4 DEF Kinds
<1>5. ASSUME NEW o, line.phase \in {"eof4", "eof6"}, line'.phase \in {"eof6", "eof7"},
             line'.frames = [line.frames EXCEPT ![Last].ok = o]
      PROVE  FramesGo("none")
  <2>1. line'.frames[Last] = [Frame EXCEPT !.ok = o]
    BY <1>0, <1>5
  <2> QED
    BY <1>0, <1>5, <2>1 DEF FramesGo, Frames
<1>6. CASE EofBit6
  <2> DEFINE o == IF Frame.ack = "none" THEN Frame.ok ELSE "rx"
  <2>0. /\ line.phase = "eof4" /\ line'.phase = "eof6" /\ line'.overruns = line.overruns /\ line'.wraps = line.wraps
        /\ line'.frames = [line.frames EXCEPT ![Last].ok = o]
    BY <1>0, <1>6 DEF EofBit6, LineStates
  <2> HIDE DEF o
  <2>1. FramesGo("none") /\ line'.overruns = line.overruns /\ line'.wraps = line.wraps /\ line'.phase = "eof6" /\ line.phase = "eof4"
    BY <1>5, <2>0
  <2>2. /\ pio'.isr = pio.isr /\ pio'.fifo = pio.fifo /\ pio'.stall = pio.stall /\ pio'.flevel = pio.flevel
        /\ pio'.txmsg = pio.txmsg /\ pio'.txsm = pio.txsm /\ pio'.irqs = MatchIrqs("rxend")
        /\ pio'.sync = pio.sync
    BY <1>0, <1>6 DEF EofBit6, PioStates
  <2>3. Advances("none")
    BY <1>i, <1>m, <2>1, <2>2 DEF Advances, Onto, TxGoes, Closing, Passive, Flags, Kinds
  <2> QED
    BY <2>3
<1>7. CASE EofBit7
  <2> DEFINE o == IF Frame.ack = "none" THEN Frame.ok ELSE "tx"
  <2>0. /\ line.phase = "eof6" /\ line'.phase = "eof7" /\ line'.overruns = line.overruns /\ line'.wraps = line.wraps
        /\ line'.frames = [line.frames EXCEPT ![Last].ok = o]
    BY <1>0, <1>7 DEF EofBit7, LineStates
  <2> HIDE DEF o
  <2>1. FramesGo("none") /\ line'.overruns = line.overruns /\ line'.wraps = line.wraps /\ line'.phase = "eof7" /\ line.phase = "eof6"
    BY <1>5, <2>0
  <2>2. /\ pio'.isr = pio.isr /\ pio'.fifo = pio.fifo /\ pio'.stall = pio.stall /\ pio'.flevel = pio.flevel
        /\ pio'.txmsg = pio.txmsg /\ pio'.txsm = pio.txsm
        /\ pio'.irqs \in {MatchIrqs("txend"), pio.irqs} /\ pio'.sync = pio.sync
    <3>1. CASE Frame.ack # "none"
      BY <1>0, <1>7, <3>1 DEF EofBit7, PioStates
    <3>2. CASE Frame.ack = "none"
      BY <1>7, <3>2 DEF EofBit7
    <3> QED
      BY <3>1, <3>2
  <2>3. Advances("none")
    BY <1>i, <1>m, <2>1, <2>2 DEF Advances, Onto, TxGoes, Closing, Passive, Flags, Kinds
  <2> QED
    BY <2>3
<1>8. CASE Intermission
  <2> DEFINE k == IF Unsynced THEN "none" ELSE "eof1"
  <2>1. /\ line.phase = "eof7" /\ line'.phase = "idle" /\ line'.frames = line.frames
        /\ line'.overruns = line.overruns /\ line'.wraps = line.wraps /\ ~Waiting({"crc", "badcrc", "ack", "noack"})
    BY <1>0, <1>8 DEF Intermission, LineStates
  <2>2. /\ pio'.isr = IF k = "none" THEN pio.isr ELSE Sampled(k, Last)
        /\ pio'.fifo = pio.fifo /\ pio'.stall = pio.stall /\ pio'.flevel = pio.flevel
        /\ pio'.txmsg = pio.txmsg /\ pio'.txsm = pio.txsm /\ pio'.irqs = pio.irqs
        /\ pio'.sync = pio.sync
    BY <1>0, <1>8 DEF Intermission, PioStates
  <2>3. k \in {"none", "eof1"} /\ (k = "none" => Unsynced)
    OBVIOUS
  <2> HIDE DEF k
  <2>4. FramesGo(k)
    BY <1>f, <2>1
  <2>5. Advances(k)
    BY <1>i, <2>1, <2>2, <2>3, <2>4 DEF Advances, Onto, TxGoes, Closing, Passive, Flags
  <2> QED
    BY <2>3, <2>5 DEF Kinds
<1>9. CASE Overload
  <2> DEFINE k == IF line.phase = "eof6" THEN "rxover" ELSE "over"
  <2>1. /\ line.phase \in {"eof6", "eof7"} /\ line'.phase = "flag" /\ line'.frames = line.frames
        /\ line'.overruns = line.overruns /\ line'.wraps = line.wraps /\ ~Waiting({"crc", "badcrc"})
    BY <1>0, <1>9 DEF Overload, LineStates
  <2>2. /\ pio'.isr = Sampled(k, Last)
        /\ pio'.fifo = pio.fifo /\ pio'.stall = pio.stall /\ pio'.flevel = pio.flevel
        /\ pio'.txmsg = pio.txmsg /\ pio'.txsm = pio.txsm /\ pio'.irqs = pio.irqs
        /\ pio'.sync = "count"
    BY <1>0, <1>9 DEF Overload, PioStates
  <2>3. k \in {"rxover", "over"} /\ Onto(line.phase, k, line'.phase)
    BY <2>1 DEF Onto
  <2> HIDE DEF k
  <2>4. FramesGo(k)
    BY <1>f, <2>1
  <2>5. Advances(k)
    BY <1>i, <2>1, <2>2, <2>3, <2>4 DEF Advances, TxGoes, Closing, Passive, Flags
  <2> QED
    BY <2>3, <2>5 DEF Kinds
<1>10. ASSUME NEW k \in {"err", "pas"}, Disturb(k) PROVE Goal
  <2>1. /\ line.phase \in {"sof", "body", "crc", "ack", "eof4"} /\ line'.phase = "flag"
        /\ k = "pas" => line.phase \in {"sof", "body"}
        /\ line'.frames = line.frames /\ line'.overruns = line.overruns /\ line'.wraps = line.wraps
    BY <1>0, <1>10 DEF Disturb, LineStates
  <2>2. /\ pio'.isr = Sampled(k, Last)
        /\ pio'.fifo = pio.fifo /\ pio'.stall = pio.stall /\ pio'.flevel = pio.flevel
        /\ pio'.txmsg = pio.txmsg /\ pio'.irqs = pio.irqs
        /\ pio'.txsm = IF pio.txsm \in {"sending", "acking"} THEN "conflict" ELSE pio.txsm
        /\ pio'.sync = "count"
    BY <1>0, <1>10 DEF Disturb, PioStates
  <2>3. Onto(line.phase, k, line'.phase) /\ TxGoes
    BY <1>10, <2>1, <2>2 DEF Onto, TxGoes
  <2>4. FramesGo(k)
    BY <1>f, <2>1
  <2>5. Advances(k)
    BY <1>10, <1>i, <2>1, <2>2, <2>3, <2>4 DEF Advances, Closing, Passive, Flags
  <2> QED
    BY <1>10, <2>5 DEF Kinds
<1>11. CASE RecoverLine
  <2> DEFINE k == IF Unsynced THEN "none" ELSE "idle"
  <2>1. /\ line.phase = "flag" /\ line'.phase = "idle" /\ line'.frames = line.frames
        /\ line'.overruns = line.overruns /\ line'.wraps = line.wraps /\ pio.isr = <<>>
    BY <1>0, <1>11 DEF RecoverLine, LineStates
  <2>2. /\ pio'.isr = IF k = "none" THEN pio.isr ELSE Sampled(k, Last)
        /\ pio'.fifo = pio.fifo /\ pio'.stall = pio.stall /\ pio'.flevel = pio.flevel
        /\ pio'.txmsg = pio.txmsg /\ pio'.txsm = pio.txsm /\ pio'.irqs = pio.irqs
        /\ pio'.sync = pio.sync
    BY <1>0, <1>11 DEF RecoverLine, PioStates
  <2>3. k \in {"none", "idle"} /\ (k = "none" => Unsynced)
    OBVIOUS
  <2> HIDE DEF k
  <2>4. FramesGo(k)
    BY <1>f, <2>1
  <2>5. Advances(k)
    BY <1>i, <2>1, <2>2, <2>3, <2>4 DEF Advances, Onto, TxGoes, Closing, Passive, Flags
  <2> QED
    BY <2>3, <2>5 DEF Kinds
<1> HIDE DEF Goal
<1> QED
  BY <1>1, <1>2, <1>3, <1>4, <1>6, <1>7, <1>8, <1>9, <1>10, <1>11 DEF FrameStep

-----------------------------------------------------------------------------
(* The other steps of the wire, field by field.                            *)

(* What this node has sampled and not parsed.                              *)
Unread == pio.fifo \o pio.isr

(* A frame starts, of this node or of another one.                         *)
Starts(src) ==
  /\ line.phase = "idle" /\ line'.phase = "sof"
  /\ line'.overruns = line.overruns /\ line'.wraps = line.wraps
  /\ DOMAIN line'.frames = 1..(Last + 1)
  /\ \A n \in DOMAIN line.frames : line'.frames[n] = line.frames[n]
  /\ line'.frames[Last + 1].src = src /\ line'.frames[Last + 1].ack = "none"
  /\ line'.frames[Last + 1].ok = "no"
  /\ pio'.fifo = pio.fifo /\ pio'.isr = Sampled("sof", Last + 1)
  /\ pio'.stall = pio.stall /\ pio'.inte = pio.inte /\ pio'.txmsg = pio.txmsg
  /\ pio'.irqs = pio.irqs \ {"MAYTX"} /\ pio'.sync = "count"
  /\ src = "own" => /\ pio.txsm = "armed" /\ pio'.txsm = "sending" /\ "MAYTX" \in pio.irqs
                    /\ line'.frames[Last + 1].msg = pio.txmsg
  /\ src = "peer" => /\ pio'.flevel = pio.flevel
                     /\ \/ pio'.txsm = pio.txsm
                        \/ pio.txsm = "armed" /\ pio'.txsm = "conflict" /\ "MAYTX" \in pio.irqs

(* The wire is silent: "sync" senses ten bits of it after a restart, ...   *)
Senses ==
  /\ line' = line /\ line.phase = "idle" /\ pio.sync = "sampling" /\ pio'.sync = "count"
  /\ pio'.fifo = pio.fifo \o Sampled("idle", Last) /\ pio'.isr = <<>>
  /\ pio'.stall = pio.stall /\ pio'.inte = pio.inte /\ pio'.txmsg = pio.txmsg /\ pio'.flevel = pio.flevel
  /\ pio'.irqs = pio.irqs /\ pio'.txsm = pio.txsm

(* ... or signals it.                                                      *)
Signals ==
  /\ line' = line /\ line.phase = "idle" /\ pio.sync = "count" /\ pio'.sync = "signalled"
  /\ pio'.fifo = pio.fifo /\ pio'.isr = pio.isr
  /\ pio'.stall = pio.stall /\ pio'.inte = pio.inte /\ pio'.txmsg = pio.txmsg /\ pio'.flevel = pio.flevel
  /\ pio'.irqs = pio.irqs \cup {"MAYTX"} /\ pio'.txsm = pio.txsm

(* What was sampled goes to the rx fifo.                                   *)
Pushes ==
  /\ line' = line
  /\ line.phase = "idle" => pio.sync # "signalled"
  /\ pio'.sync = pio.sync /\ pio.isr # <<>>
  /\ pio'.fifo = pio.fifo \o pio.isr /\ pio'.isr = <<>>
  /\ pio'.stall = pio.stall /\ pio'.inte = pio.inte /\ pio'.txmsg = pio.txmsg /\ pio'.flevel = pio.flevel
  /\ pio'.irqs = pio.irqs /\ pio'.txsm = pio.txsm

(* What was sampled is lost.                                               *)
Loses ==
  /\ line.overruns > 0 /\ line'.overruns = line.overruns - 1 /\ line'.wraps = line.wraps
  /\ line'.phase = line.phase /\ line'.frames = line.frames
  /\ pio'.sync = pio.sync /\ pio'.fifo = pio.fifo /\ pio'.isr = <<>>
  /\ pio'.stall = TRUE /\ pio'.inte = pio.inte /\ pio'.txmsg = pio.txmsg /\ pio'.flevel = pio.flevel
  /\ pio'.irqs = pio.irqs /\ pio'.txsm = pio.txsm

(* The line is idle for so long that "sync" samples passive bits.          *)
Overflows ==
  /\ line'.phase = "idle" /\ line.phase = "idle" /\ line'.frames = line.frames
  /\ line'.overruns = line.overruns
  /\ \/ line.wraps > 0 /\ line'.wraps = line.wraps - 1
        /\ pio.sync = "signalled" /\ pio'.sync = "wrapped"
     \/ line' = line /\ pio.sync = "wrapped" /\ pio'.sync = "signalled"
  /\ \E k \in Passive : pio'.fifo = pio.fifo \o Sampled(k, Last)
  /\ pio'.isr = <<>>
  /\ pio'.stall = pio.stall /\ pio'.inte = pio.inte /\ pio'.txmsg = pio.txmsg /\ pio'.flevel = pio.flevel
  /\ pio'.irqs = pio.irqs /\ pio'.txsm = pio.txsm

\* A start of frame is one of those.
LEMMA StartsFrame ==
  ASSUME WireTyped, NEW src \in {"own", "peer"}, NEW m, NEW txsm, NEW left,
         line.phase = "idle", NewFrame(src, m), StartOfFrame(txsm, left),
         src = "own" => pio.txsm = "armed" /\ txsm = "sending" /\ "MAYTX" \in pio.irqs /\ m = pio.txmsg,
         src = "peer" => /\ left = pio.flevel
                         /\ \/ txsm = pio.txsm
                            \/ pio.txsm = "armed" /\ txsm = "conflict" /\ "MAYTX" \in pio.irqs
  PROVE  Starts(src)
<1> DEFINE f == [src |-> src, msg |-> m, ack |-> "none", ok |-> "no"]
<1>1. /\ pio \in PioStates /\ line \in LineStates /\ line.frames \in Seq(Frames)
      /\ Last \in Nat /\ DOMAIN line.frames = 1..Last /\ Last = Len(line.frames)
  BY WireParts DEF Last
<1>2. /\ line'.phase = "sof" /\ line'.overruns = line.overruns /\ line'.wraps = line.wraps
      /\ line'.frames = Append(line.frames, f)
  BY <1>1 DEF NewFrame, LineStates
<1> HIDE DEF f
<1>3. /\ DOMAIN line'.frames = 1..(Last + 1) /\ line'.frames[Last + 1] = f
      /\ \A n \in DOMAIN line.frames : line'.frames[n] = line.frames[n]
  BY <1>1, <1>2
<1>4. /\ pio'.fifo = pio.fifo /\ pio'.isr = Sampled("sof", Last + 1)
      /\ pio'.stall = pio.stall /\ pio'.inte = pio.inte /\ pio'.txmsg = pio.txmsg
      /\ pio'.irqs = pio.irqs \ {"MAYTX"} /\ pio'.sync = "count" /\ pio'.txsm = txsm
      /\ pio'.flevel = left
  BY <1>1 DEF StartOfFrame, PioStates
<1>5. f.src = src /\ f.ack = "none" /\ f.ok = "no" /\ f.msg = m
  BY DEF f
<1> QED
  BY <1>2, <1>3, <1>4, <1>5 DEF Starts

\* Every step of the wire, frames included.
LEMMA WireGoes ==
  ASSUME WireTyped, WireNext
  PROVE  \/ FrameStep /\ \E k \in Kinds \cup {"none"} : Advances(k)
         \/ \E src \in {"own", "peer"} : Starts(src)
         \/ Senses \/ Signals \/ Pushes \/ Loses \/ Overflows
<1>0. pio \in PioStates /\ line \in LineStates
  BY WireParts
<1>1. CASE StartOwn
  BY <1>1, StartsFrame DEF StartOwn
<1>2. ASSUME NEW m, StartPeer(m) PROVE Starts("peer")
  BY <1>2, StartsFrame DEF StartPeer
<1>3. ASSUME NEW m, LoseArbitration(m) PROVE Starts("peer")
  BY <1>3, StartsFrame DEF LoseArbitration
<1>4. CASE FrameStep
  BY <1>4, FrameAdvances
<1>5. CASE IdleBits
  BY <1>0, <1>5 DEF IdleBits, Unsynced, Senses, PioStates
<1>6. CASE SignalMayTx
  BY <1>0, <1>6 DEF SignalMayTx, Signals, PioStates
<1>7. CASE Push
  BY <1>0, <1>7 DEF Push, Sampling, Pushes, PioStates
<1>8. CASE Overrun
  BY <1>0, <1>8 DEF Overrun, Loses, PioStates, LineStates
<1>9. CASE CounterWraps
  BY <1>0, <1>9 DEF CounterWraps, Overflows, PioStates, LineStates, Passive
<1>10. CASE LongIdle
  BY <1>0, <1>10 DEF LongIdle, Overflows, PioStates, Passive
<1> QED
  BY <1>1, <1>2, <1>3, <1>4, <1>5, <1>6, <1>7, <1>8, <1>9, <1>10 DEF WireNext

\* What becomes of the words on their way to the parser.
LEMMA UnreadGoes ==
  ASSUME WireTyped
  PROVE  /\ Unread \in Seq(Tokens)
         /\ \A k \in Kinds, n \in Nat :
              pio'.fifo = pio.fifo /\ pio'.isr = Sampled(k, n) => Unread' = Append(Unread, [k |-> k, n |-> n])
         /\ pio'.fifo = pio.fifo /\ pio'.isr = pio.isr => Unread' = Unread
         /\ Pushes => Unread' = Unread
         /\ Senses => Unread' = Append(Unread, [k |-> "idle", n |-> Last])
<1>1. pio.fifo \in Seq(Tokens) /\ pio.isr \in Seq(Tokens) /\ Last \in Nat
  BY WireParts
<1>2. ASSUME NEW k \in Kinds, NEW n \in Nat
      PROVE  /\ [k |-> k, n |-> n] \in Tokens
             /\ pio.fifo \o Append(pio.isr, [k |-> k, n |-> n]) = Append(Unread, [k |-> k, n |-> n])
             /\ pio.fifo \o Sampled(k, n) = Append(Unread, [k |-> k, n |-> n])
  <2> DEFINE t == [k |-> k, n |-> n]
  <2>1. t \in Tokens
    BY DEF Tokens
  <2> HIDE DEF t
  <2>2. pio.fifo \o Append(pio.isr, t) = Append(pio.fifo \o pio.isr, t)
    BY <1>1, <2>1, JoinAppend
  <2> QED
    BY <2>1, <2>2 DEF t, Unread, Sampled
<1>3. Unread \in Seq(Tokens)
  BY <1>1 DEF Unread
<1>4. Pushes => Unread' = Unread
  <2>1. (pio.fifo \o pio.isr) \o <<>> = pio.fifo \o pio.isr
    BY <1>3, JoinEmpty DEF Unread
  <2> QED
    BY <2>1 DEF Pushes, Unread
<1>5. Senses => Unread' = Append(Unread, [k |-> "idle", n |-> Last])
  <2> SUFFICES ASSUME Senses PROVE Unread' = Append(Unread, [k |-> "idle", n |-> Last])
    OBVIOUS
  <2> DEFINE t == [k |-> "idle", n |-> Last]
             a == Append(Unread, t)
  <2>1. "idle" \in Kinds /\ t \in Tokens
    BY <1>1 DEF Kinds, Tokens
  <2>2. pio'.fifo = a /\ pio'.isr = <<>>
    BY <1>1, <1>2, <2>1 DEF Senses
  <2> HIDE DEF t
  <2>3. a \in Seq(Tokens)
    BY <1>3, <2>1
  <2> HIDE DEF a
  <2>4. a \o <<>> = a
    BY <2>3, JoinEmpty
  <2>5. Unread' = a
    BY <2>2, <2>4 DEF Unread
  <2> QED
    BY <2>5 DEF a, t
<1> QED
  BY <1>2, <1>3, <1>4, <1>5 DEF Unread

-----------------------------------------------------------------------------
(* The other steps of the handler and those of the main loop.              *)

(* None but process_rx touches the parser, the words for it, the stall.    *)
Steady ==
  /\ line' = line /\ pio'.fifo = pio.fifo /\ pio'.isr = pio.isr
  /\ pio'.sync = pio.sync /\ pio'.stall = pio.stall
  /\ cd'.parse_state = cd.parse_state /\ cd'.parse_msg = cd.parse_msg /\ log'.err = log.err
  /\ "MAYTX" \in pio'.irqs <=> "MAYTX" \in pio.irqs

(* What tx_schedule_transmit works on; what the reports are about.         *)
SameTx == /\ pio'.txsm = pio.txsm /\ pio'.txmsg = pio.txmsg /\ pio'.flevel = pio.flevel
          /\ cd'.tx_state = cd.tx_state
SameRx == cd'.report_state = cd.report_state /\ log'.rx = log.rx

(* A flag is served, up to tx_schedule_transmit; MATCHED and MAYTX end the *)
(* report.                                                                 *)
Reports(flag) ==
  /\ Serves(flag) /\ irq'.pc = "sched" /\ SameTx /\ app' = app
  /\ pio'.inte = pio.inte /\ pio'.irqs = pio.irqs
  /\ flag = "ACKDONE" => SameRx /\ irq'.mask = {"MAYTX", "MATCHED"}
  /\ flag = "TXPENDING" => SameRx /\ irq'.mask = pio.inte \ {"TXPENDING"} /\ ~AckRequested
  /\ flag \in {"MATCHED", "MAYTX"} =>
       /\ irq'.mask = {} /\ cd'.report_state = "IDLE"
       /\ log'.rx = IF cd.report_state = "RX_EOF" \/ (flag = "MATCHED" /\ cd.report_state = "RX_ACK")
                    THEN Append(log.rx, cd.parse_msg) ELSE log.rx

(* tx_inject_ack.                                                          *)
Injects ==
  /\ Serves("TXPENDING") /\ AckRequested /\ irq'.pc = "out" /\ SameRx /\ app' = app
  /\ pio'.irqs = pio.irqs \ {"MATCHED", "ACKDONE"} /\ pio'.inte = {"MAYTX", "ACKDONE", "RX_DATA"}
  /\ pio'.txsm = "ackarmed" /\ pio'.txmsg = pio.txmsg /\ pio'.flevel = FALSE
  /\ cd'.tx_state = "ACKING_RX"

(* tx_schedule_transmit: the "tx" machine has the message, gets it, or     *)
(* there is none.                                                          *)
Waits ==
  /\ irq.pc = "sched" /\ Busy /\ irq'.pc = "out" /\ SameTx /\ SameRx /\ app' = app
  /\ pio'.irqs = pio.irqs /\ pio'.inte = irq.mask \cup {"RX_DATA"}

(* It gives the "tx" machine the message at the head of the queue.         *)
Sends ==
  /\ \/ irq.pc = "sched" /\ ~Busy
     \/ irq.pc = "reread"
  /\ cd.tx_push_pos # cd.tx_pull_pos
  /\ irq'.pc = "out" /\ SameRx /\ app' = app
  /\ pio'.inte = irq.mask \cup {"RX_DATA"}
  /\ pio'.txsm = "armed" /\ pio'.txmsg = SlotMsg(cd) /\ pio'.flevel = TRUE
  /\ cd'.tx_state = "QUEUED"
  /\ pio'.irqs \ {"TXPENDING"} \subseteq pio.irqs
  /\ "TXPENDING" \in pio'.irqs <=> "TXPENDING" \in pio.irqs \/ irq.pc = "reread"

(* It finds the queue empty.                                               *)
Empties ==
  /\ SameRx /\ app' = app /\ pio'.txsm = pio.txsm /\ pio'.txmsg = pio.txmsg
  /\ pio'.flevel = pio.flevel /\ cd'.tx_state = "IDLE"
  /\ \/ irq.pc = "sched" /\ ~Busy /\ irq'.pc = "clear" /\ irq'.mask = irq.mask
        /\ pio'.irqs = pio.irqs /\ pio'.inte = pio.inte
     \/ irq.pc = "clear" /\ irq'.pc = "reread" /\ irq'.mask = irq.mask
        /\ pio'.irqs = pio.irqs \ {"TXPENDING"} /\ pio'.inte = pio.inte
     \/ irq.pc = "reread" /\ irq'.pc = "out" /\ pio'.irqs = pio.irqs
        /\ pio'.inte = irq.mask \cup {"TXPENDING", "RX_DATA"}

(* can2040_transmit.                                                       *)
Submits ==
  /\ SameTx /\ SameRx /\ irq' = irq /\ pio'.inte = pio.inte
  /\ pio'.irqs \ {"TXPENDING"} = pio.irqs \ {"TXPENDING"}
  /\ "TXPENDING" \in pio.irqs => "TXPENDING" \in pio'.irqs
  /\ app.pc = "wake" /\ app'.pc # "wake" => "TXPENDING" \in pio'.irqs

\* Entering the handler.
Enters ==
  /\ irq.pc = "out" /\ irq'.pc = "loop" /\ irq'.ints = Ints(pio) /\ irq'.slack = Slack
  /\ SameTx /\ SameRx /\ app' = app /\ pio'.inte = pio.inte /\ pio'.irqs = pio.irqs

\* report_handle_eof, called for MATCHED or MAYTX.
LEMMA EndReports ==
  ASSUME FrameInv, NEW flag \in {"MATCHED", "MAYTX"}, Serves(flag), Schedule({}),
         UNCHANGED <<line, app>>,
         NEW r, r = IF flag = "MATCHED" THEN WithEof(cd.report_state) ELSE cd.report_state,
         IF cd.report_state = "IDLE" THEN UNCHANGED <<cd, pio, log>>
         ELSE Becomes(report_handle_eof(SetReport(World, r)))
  PROVE  Steady /\ Reports(flag)
<1>0. /\ irq \in IrqStates /\ cd \in CdStates /\ pio \in PioStates /\ log \in LogStates
      /\ World \in Worlds
  BY FrameParts, QueueTypes DEF FrameInv
<1>1. irq'.pc = "sched" /\ irq'.mask = {}
  BY <1>0 DEF Schedule, IrqStates
<1>2. CASE cd.report_state = "IDLE"
  BY <1>1, <1>2 DEF Steady, Reports, SameTx
<1>3. CASE cd.report_state # "IDLE"
  <2> DEFINE w == SetReport(World, r)
             v == report_handle_eof(w)
  <2>1. /\ r \in {"IDLE", "RX_ACK", "RX_EOF", "TX_ACK", "TX_EOF"}
        /\ r = "RX_EOF" <=> (cd.report_state = "RX_EOF" \/ (flag = "MATCHED" /\ cd.report_state = "RX_ACK"))
    BY <1>0, <1>3 DEF CdStates, WithEof, InTx
  <2>2. w \in Worlds /\ w.cd = [cd EXCEPT !.report_state = r] /\ w.pio = pio /\ w.log = log
    BY <1>0, <2>1, FrameParts, SetReportWorld DEF SetReport, World
  <2>3. w.cd.report_state = r /\ w.cd.parse_msg = cd.parse_msg /\ w.cd.tx_pull_pos = cd.tx_pull_pos
    BY <1>0, <2>2 DEF CdStates
  <2>4. /\ v.cd = [w.cd EXCEPT !.report_state = "IDLE",
                     !.tx_pull_pos = IF w.cd.report_state = "TX_EOF"
                                     THEN Next1(w.cd.tx_pull_pos) ELSE w.cd.tx_pull_pos]
        /\ v.pio = [w.pio EXCEPT !.match = NoKey]
        /\ v.log.rx = IF w.cd.report_state = "RX_EOF"
                      THEN Append(w.log.rx, w.cd.parse_msg) ELSE w.log.rx
        /\ v.log.err = w.log.err
    BY <2>2, HandleEofFields
  <2>5. cd' = v.cd /\ pio' = v.pio /\ log' = v.log
    BY <1>3 DEF Becomes
  <2> HIDE DEF v, w
  <2>6. /\ cd'.report_state = "IDLE" /\ cd'.parse_state = cd.parse_state
        /\ cd'.parse_msg = cd.parse_msg /\ cd'.tx_state = cd.tx_state
    BY <1>0, <2>2, <2>4, <2>5 DEF CdStates
  <2>7. /\ pio'.inte = pio.inte /\ pio'.irqs = pio.irqs /\ pio'.txsm = pio.txsm
        /\ pio'.flevel = pio.flevel
        /\ pio'.fifo = pio.fifo /\ pio'.isr = pio.isr /\ pio'.txmsg = pio.txmsg
        /\ pio'.sync = pio.sync /\ pio'.stall = pio.stall
    BY <1>0, <2>2, <2>4, <2>5 DEF PioStates
  <2>8. log'.rx = (IF r = "RX_EOF" THEN Append(log.rx, cd.parse_msg) ELSE log.rx) /\ log'.err = log.err
    BY <2>2, <2>3, <2>4, <2>5
  <2> QED
    BY <1>1, <2>1, <2>6, <2>7, <2>8 DEF Steady, Reports, SameTx
<1> QED
  BY <1>2, <1>3

\* A message goes to the "tx" machine.
LEMMA SendsHead ==
  ASSUME FrameInv, NEW p \in {pio, pio_signal_set_txpending(pio)}, SendHead(p),
         cd.tx_push_pos # cd.tx_pull_pos, UNCHANGED <<line, app, log>>,
         \/ irq.pc = "sched" /\ ~Busy /\ p = pio
         \/ irq.pc = "reread" /\ p = pio_signal_set_txpending(pio)
  PROVE  Steady /\ Sends
<1>a. \/ irq.pc # "reread" /\ p = pio
      \/ irq.pc = "reread" /\ p = [pio EXCEPT !.irqs = pio.irqs \cup {"TXPENDING"}]
  BY DEF pio_signal_set_txpending
<1>1. /\ p \in PioStates /\ p.fifo = pio.fifo /\ p.isr = pio.isr /\ p.sync = pio.sync
      /\ p.stall = pio.stall
      /\ p.irqs = IF irq.pc = "reread" THEN pio.irqs \cup {"TXPENDING"} ELSE pio.irqs
  <2>1. pio \in PioStates /\ "TXPENDING" \in SmIrqs
    BY FrameParts DEF SmIrqs
  <2>2. CASE irq.pc # "reread" /\ p = pio
    BY <2>1, <2>2
  <2>3. CASE irq.pc = "reread" /\ p = [pio EXCEPT !.irqs = pio.irqs \cup {"TXPENDING"}]
    BY <2>1, <2>3 DEF PioStates
  <2> QED
    BY <1>a, <2>2, <2>3
<1>2. /\ cd' = [cd EXCEPT !.tx_state = "QUEUED"] /\ irq'.pc = "out"
      /\ pio' = pio_irq_set(pio_tx_send(p, SlotMsg(cd)), irq.mask)
  BY DEF SendHead, Return, Idle
<1>3. /\ cd'.parse_state = cd.parse_state /\ cd'.parse_msg = cd.parse_msg
      /\ cd'.report_state = cd.report_state /\ cd'.tx_state = "QUEUED"
  BY <1>2, FrameParts DEF CdStates
<1>4. /\ pio'.fifo = p.fifo /\ pio'.isr = p.isr /\ pio'.sync = p.sync /\ pio'.stall = p.stall
      /\ pio'.txsm = "armed" /\ pio'.txmsg = SlotMsg(cd) /\ pio'.flevel = TRUE
      /\ pio'.irqs = p.irqs \ {"MATCHED", "ACKDONE"} /\ pio'.inte = irq.mask \cup {"RX_DATA"}
  BY <1>1, <1>2 DEF pio_irq_set, pio_tx_send, pio_tx_reset, PioStates
<1>5. Steady
  BY <1>1, <1>3, <1>4 DEF Steady
<1>6. Sends
  BY <1>1, <1>2, <1>3, <1>4 DEF Sends, SameRx
<1> QED
  BY <1>5, <1>6

\* The steps of the handler but process_rx.
LEMMA ServiceGoes ==
  ASSUME FrameInv, Handler, ~ \E again \in BOOLEAN : ProcessRx(again)
  PROVE  /\ Steady
         /\ Enters \/ (\E flag \in SmIrqs : Reports(flag)) \/ Injects \/ Waits \/ Sends \/ Empties
<1> DEFINE Ways == \/ Enters \/ (\E flag \in SmIrqs : Reports(flag))
                   \/ Injects \/ Waits \/ Sends \/ Empties
           Goal == Steady /\ Ways
<1> SUFFICES Goal
  OBVIOUS
<1>0. /\ irq \in IrqStates /\ cd \in CdStates /\ pio \in PioStates /\ log \in LogStates
      /\ World \in Worlds
  BY FrameParts, QueueTypes DEF FrameInv
<1>1. CASE IrqEnter
  <2>1. Steady
    BY <1>1 DEF IrqEnter, Steady
  <2>2. Enters
    BY <1>1 DEF IrqEnter, Enters, SameTx, SameRx
  <2> QED
    BY <2>1, <2>2
<1>2. CASE report_line_ackdone
  <2>1. /\ UNCHANGED <<line, cd, app, log>> /\ irq'.pc = "sched" /\ irq'.mask = {"MAYTX", "MATCHED"}
        /\ pio'.inte = pio.inte /\ pio'.sync = pio.sync /\ pio'.stall = pio.stall
        /\ pio'.txmsg = pio.txmsg /\ pio'.flevel = pio.flevel
        /\ pio'.irqs = pio.irqs /\ pio'.txsm = pio.txsm /\ pio'.fifo = pio.fifo /\ pio'.isr = pio.isr
    BY <1>0, <1>2 DEF report_line_ackdone, pio_match_check, Schedule, PioStates, IrqStates
  <2>2. Serves("ACKDONE")
    BY <1>2 DEF report_line_ackdone
  <2>3. Steady /\ Reports("ACKDONE")
    BY <2>1, <2>2 DEF Steady, Reports, SameTx, SameRx
  <2> QED
    BY <2>3 DEF SmIrqs
<1>3. CASE report_line_matched
  <2>1. Steady /\ Reports("MATCHED")
    BY <1>3, EndReports DEF report_line_matched
  <2> QED
    BY <2>1 DEF SmIrqs
<1>4. CASE report_line_maytx
  <2>1. SetReport(World, cd.report_state) = World
    BY <1>0, FrameParts DEF SetReport, Worlds, CdStates
  <2>2. Steady /\ Reports("MAYTX")
    <3> DEFINE r == cd.report_state
    <3>1. /\ Serves("MAYTX") /\ Schedule({}) /\ UNCHANGED <<line, app>>
          /\ IF cd.report_state = "IDLE" THEN UNCHANGED <<cd, pio, log>>
             ELSE Becomes(report_handle_eof(SetReport(World, r)))
      BY <1>4, <2>1 DEF report_line_maytx
    <3>2. r = (IF "MAYTX" = "MATCHED" THEN WithEof(cd.report_state) ELSE cd.report_state)
      OBVIOUS
    <3> HIDE DEF r
    <3> QED
      BY <3>1, <3>2, EndReports
  <2> QED
    BY <2>2 DEF SmIrqs
<1>5. CASE tx_inject_ack
  <2>1. /\ Serves("TXPENDING") /\ AckRequested /\ cd' = [cd EXCEPT !.tx_state = "ACKING_RX"]
        /\ pio' = pio_irq_set(pio_tx_inject_ack(pio, cd.parse_msg), {"MAYTX", "ACKDONE"})
        /\ irq'.pc = "out" /\ UNCHANGED <<line, app, log>>
    BY <1>5 DEF tx_inject_ack, Return, Idle
  <2>2. /\ cd'.parse_state = cd.parse_state /\ cd'.parse_msg = cd.parse_msg
        /\ cd'.report_state = cd.report_state /\ cd'.tx_state = "ACKING_RX"
    BY <1>0, <2>1 DEF CdStates
  <2>3. /\ pio'.fifo = pio.fifo /\ pio'.isr = pio.isr /\ pio'.txsm = "ackarmed"
        /\ pio'.irqs = pio.irqs \ {"MATCHED", "ACKDONE"} /\ pio'.txmsg = pio.txmsg /\ pio'.flevel = FALSE
        /\ pio'.inte = {"MAYTX", "ACKDONE", "RX_DATA"}
        /\ pio'.sync = pio.sync /\ pio'.stall = pio.stall
    BY <1>0, <2>1 DEF pio_irq_set, pio_tx_inject_ack, pio_match_check, pio_tx_reset, PioStates
  <2> QED
    BY <2>1, <2>2, <2>3 DEF Steady, Injects, SameRx
<1>6. CASE report_line_txpending
  <2>1. /\ UNCHANGED <<line, pio, cd, app, log>> /\ irq'.pc = "sched" /\ Serves("TXPENDING")
        /\ ~AckRequested /\ irq'.mask = pio.inte \ {"TXPENDING"}
    BY <1>0, <1>6 DEF report_line_txpending, Schedule, IrqStates
  <2>2. Steady /\ Reports("TXPENDING")
    BY <2>1 DEF Steady, Reports, SameTx, SameRx
  <2> QED
    BY <2>2 DEF SmIrqs
<1>7. CASE ScheduleBusy
  <2>1. /\ irq.pc = "sched" /\ Busy /\ irq'.pc = "out" /\ UNCHANGED <<line, cd, app, log>>
        /\ pio' = [pio EXCEPT !.inte = irq.mask \cup {"RX_DATA"}]
    BY <1>7 DEF ScheduleBusy, Return, Idle, pio_irq_set
  <2>2. /\ pio'.fifo = pio.fifo /\ pio'.isr = pio.isr /\ pio'.sync = pio.sync /\ pio'.stall = pio.stall
        /\ pio'.txmsg = pio.txmsg /\ pio'.flevel = pio.flevel
        /\ pio'.irqs = pio.irqs /\ pio'.txsm = pio.txsm /\ pio'.inte = irq.mask \cup {"RX_DATA"}
    BY <1>0, <2>1 DEF PioStates
  <2> QED
    BY <2>1, <2>2 DEF Steady, Waits, SameTx, SameRx
<1>8. CASE ScheduleSend
  BY <1>8, SendsHead DEF ScheduleSend
<1>9. CASE ScheduleEmpty
  <2>1. /\ irq.pc = "sched" /\ ~Busy /\ cd' = [cd EXCEPT !.tx_state = "IDLE"] /\ irq'.pc = "clear"
        /\ irq'.mask = irq.mask /\ UNCHANGED <<line, pio, app, log>>
    BY <1>0, <1>9 DEF ScheduleEmpty, IrqStates
  <2>2. /\ cd'.parse_state = cd.parse_state /\ cd'.parse_msg = cd.parse_msg
        /\ cd'.report_state = cd.report_state /\ cd'.tx_state = "IDLE"
    BY <1>0, <2>1 DEF CdStates
  <2> QED
    BY <2>1, <2>2 DEF Steady, Empties, SameRx
<1>10. CASE ScheduleClear
  <2>1. /\ irq.pc = "clear" /\ irq'.pc = "reread" /\ irq'.mask = irq.mask
        /\ UNCHANGED <<line, cd, app, log>> /\ pio' = pio_signal_clear_txpending(pio)
    BY <1>0, <1>10 DEF ScheduleClear, IrqStates
  <2>2. /\ pio'.fifo = pio.fifo /\ pio'.isr = pio.isr /\ pio'.sync = pio.sync /\ pio'.stall = pio.stall
        /\ pio'.txmsg = pio.txmsg /\ pio'.flevel = pio.flevel /\ pio'.inte = pio.inte
        /\ pio'.irqs = pio.irqs \ {"TXPENDING"} /\ pio'.txsm = pio.txsm
    BY <1>0, <2>1 DEF pio_signal_clear_txpending, PioStates
  <2>3. cd.tx_state = "IDLE"
    BY <2>1 DEF FrameInv, QueueInv, DriverInv, HandlerInv
  <2> QED
    BY <2>1, <2>2, <2>3 DEF Steady, Empties, SameRx
<1>11. CASE RereadEmpty
  <2>1. /\ irq.pc = "reread" /\ irq'.pc = "out" /\ UNCHANGED <<line, cd, app, log>>
        /\ pio' = [pio EXCEPT !.inte = irq.mask \cup {"TXPENDING"} \cup {"RX_DATA"}]
    BY <1>11 DEF RereadEmpty, Return, Idle, pio_irq_set
  <2>2. /\ pio'.fifo = pio.fifo /\ pio'.isr = pio.isr /\ pio'.sync = pio.sync /\ pio'.stall = pio.stall
        /\ pio'.txmsg = pio.txmsg /\ pio'.flevel = pio.flevel /\ pio'.irqs = pio.irqs /\ pio'.txsm = pio.txsm
        /\ pio'.inte = irq.mask \cup {"TXPENDING", "RX_DATA"}
    BY <1>0, <2>1 DEF PioStates
  <2>3. cd.tx_state = "IDLE"
    BY <2>1 DEF FrameInv, QueueInv, DriverInv, HandlerInv
  <2> QED
    BY <2>1, <2>2, <2>3 DEF Steady, Empties, SameRx
<1>12. CASE RereadRaced
  BY <1>12, SendsHead DEF RereadRaced
<1> HIDE DEF Goal
<1> QED
  BY <1>1, <1>2, <1>3, <1>4, <1>5, <1>6, <1>7, <1>8, <1>9, <1>10, <1>11, <1>12 DEF Handler

\* The steps of the main loop.
LEMMA MainGoes ==
  ASSUME FrameInv, Main
  PROVE  Steady /\ Submits
<1>1. /\ UNCHANGED <<line, irq, log>> /\ pio' \in {pio, pio_signal_set_txpending(pio)}
      /\ \/ cd' = cd
         \/ \E q : cd' = [cd EXCEPT !.tx_queue = q]
         \/ \E q : cd' = [cd EXCEPT !.tx_push_pos = q]
  BY DEF Main, TransmitBegin, TransmitFull, TransmitCopy, TransmitSubmit, TransmitWake
<1>2. /\ cd'.parse_state = cd.parse_state /\ cd'.parse_msg = cd.parse_msg
      /\ cd'.report_state = cd.report_state /\ cd'.tx_state = cd.tx_state
  BY <1>1, FrameParts DEF CdStates
<1>3. /\ pio'.fifo = pio.fifo /\ pio'.isr = pio.isr /\ pio'.sync = pio.sync /\ pio'.stall = pio.stall
      /\ pio'.txsm = pio.txsm /\ pio'.inte = pio.inte /\ pio'.txmsg = pio.txmsg /\ pio'.flevel = pio.flevel
      /\ pio'.irqs \in {pio.irqs, pio.irqs \cup {"TXPENDING"}}
  BY <1>1, FrameParts DEF pio_signal_set_txpending, PioStates
<1>4. app.pc = "wake" /\ app'.pc # "wake" => "TXPENDING" \in pio'.irqs
  <2>1. app \in AppStates
    BY DEF FrameInv, QueueInv, DriverInv, TypeOK
  <2>2. app.pc = "wake" /\ app'.pc # "wake" => TransmitWake
    BY <2>1 DEF Main, TransmitBegin, TransmitFull, TransmitCopy, TransmitSubmit, AppStates
  <2> QED
    BY <2>2, FrameParts DEF TransmitWake, pio_signal_set_txpending, PioStates
<1>5. Steady
  BY <1>1, <1>2, <1>3 DEF Steady
<1> QED
  BY <1>1, <1>2, <1>3, <1>4, <1>5 DEF Submits, SameTx, SameRx

-----------------------------------------------------------------------------
(* The parser in step with the wire.                                       *)

(* A field of the idle line: a frame may start behind it.                  *)
Ending == {"eof1", "idle"}

(* Before the first word the line is silent.                               *)
Before == [k |-> "pas", n |-> 0]

(* What comes next of the same frame.                                      *)
Continues(j, k) ==
  \/ j = "sof" /\ k \in {"body", "rsv", "err", "pas"}
  \/ j \in {"body", "rsv"} /\ k \in {"crc", "badcrc", "err", "pas"}
  \/ j \in {"crc", "badcrc"} /\ k \in {"ack", "noack", "err"}
  \/ j \in {"ack", "noack"} /\ k \in {"eof0", "err"}
  \/ j = "eof0" /\ k \in {"eof1", "over", "rxover", "err"}
  \/ j \in {"err", "pas", "over", "rxover"} /\ k = "idle"

(* Field b is sampled right after field a.                                 *)
Succeeds(l, a, b) ==
  \/ b.n = a.n /\ Continues(a.k, b.k)
  \/ /\ b.n = a.n + 1 /\ b.k = "sof"
     /\ a.k \in Ending \/ (a = Before /\ l.frames[b.n].src = "peer")

(* The fields r follow each other on the wire.                             *)
Linked(l, r) == \A i \in DOMAIN r : i + 1 \in DOMAIN r => Succeeds(l, r[i], r[i + 1])

(* The fields k after which the line is in a phase.                        *)
LastKind(phase, k) ==
  \/ phase = "sof" /\ k = "sof"
  \/ phase = "body" /\ k \in {"body", "rsv"}
  \/ phase = "crc" /\ k \in {"crc", "badcrc"}
  \/ phase = "ack" /\ k \in {"ack", "noack"}
  \/ phase \in {"eof4", "eof6", "eof7"} /\ k = "eof0"
  \/ phase = "flag" /\ k \in {"err", "pas", "over", "rxover"}
  \/ phase = "idle" /\ k \in Ending

(* Field e is the last one that was sampled, whichever phase it ended in.  *)
IsLast(l, p, e) ==
  /\ e.n = Latest(l)
  /\ IF p.sync = "sampling" THEN e = Before /\ l.phase = "idle" ELSE LastKind(l.phase, e.k)

(* Field t is the last one that was parsed.                                *)
IsRead(l, c, t) ==
  /\ c.parse_state = "START" => t.k \in Ending
  /\ c.parse_state = "HEADER" => t.k = "sof"
  /\ c.parse_state = "CRC" => t.k = "body"
  /\ c.parse_state = "ACK" => t.k = "crc"
  /\ c.parse_state = "EOF0" => t.k = "ack"
  /\ c.parse_state = "EOF1" => t.k = "eof0"
  /\ c.parse_state = "DISCARD" => t.k \notin Ending
  /\ c.parse_state = "DISCARD" /\ t.k = "sof" =>
       t.n \in DOMAIN l.frames /\ l.frames[t.n].src = "peer"
  /\ Mid(c.parse_state) => t.n = c.parse_msg

(* r is the last field parsed and those to come.                           *)
Thread(l, w, r) ==
  /\ r # <<>> /\ Tail(r) = Stream(w) /\ Linked(l, r)
  /\ IsLast(l, w.pio, r[Len(r)]) /\ IsRead(l, w.cd, r[1])

(* The parser is in step with the wire: what waits to be parsed goes on    *)
(* from where it stands, without a gap, to where the wire is.              *)
InStep(l, w) == \E r \in Seq(Tokens) : Thread(l, w, r)

-----------------------------------------------------------------------------
(* What the parser does with the field that comes next.                    *)

(* It takes another node's message for another one than its own.           *)
Echo(w) == w.cd.tx_state = "QUEUED" /\ line.frames[w.cd.parse_msg].msg = SlotMsg(w.cd)

(* The frame is given up: never for a field that the frame goes on with.   *)
Discards(w, t) ==
  /\ t.k \notin Ending
  /\ t.k = "sof" => w.cd.parse_state = "DISCARD"
  /\ w.cd.parse_state = "HEADER" => t.k # "body" \/ ~Echo(w)
  /\ Receiving(w.cd.report_state) => t.n = w.cd.parse_msg /\ t.k \in {"err", "pas", "badcrc", "noack"}

(* What process_rx does, by the state of the parser.                       *)
Turns(w, v, t) ==
  \/ Discards(w, t) /\ v = data_state_go_discard(w)
  \/ w.cd.parse_state = "DISCARD" /\ t.k \notin Ending /\ v = w
  \/ /\ w.cd.parse_state = "DISCARD" /\ t.k \in Ending
     /\ v = GoNext(data_state_go_discard(w), "START")
  \/ w.cd.parse_state = "START" /\ t.k = "sof" /\ v = data_state_update_start(w, t.n)
  \/ /\ w.cd.parse_state = "HEADER" /\ t.k = "body"
     /\ v = GoNext(report_note_crc_start(w, Echo(w)), "CRC")
  \/ w.cd.parse_state = "CRC" /\ t.k = "crc" /\ v = GoNext(report_note_crc_success(w), "ACK")
  \/ w.cd.parse_state = "ACK" /\ t.k = "ack" /\ v = GoNext(report_note_ack_success(w), "EOF0")
  \/ w.cd.parse_state = "EOF0" /\ t.k = "eof0" /\ v = GoNext(w, "EOF1")
  \/ w.cd.parse_state = "EOF1" /\ t.k = "eof1" /\ v = GoNext(report_note_eof_success(w), "START")
  \/ /\ w.cd.parse_state = "EOF1" /\ t.k \in {"over", "rxover"}
     /\ v = data_state_go_discard(report_note_eof_success(w))

(* The words to come, the wire and the "tx" machine are left alone.        *)
Parses(w, v) ==
  /\ v \in Worlds
  /\ v.pio.fifo = w.pio.fifo /\ v.pio.isr = w.pio.isr /\ v.pio.sync = w.pio.sync
  /\ v.pio.stall = w.pio.stall /\ v.pio.txsm = w.pio.txsm /\ v.pio.txmsg = w.pio.txmsg
  /\ v.pio.flevel = w.pio.flevel
  /\ v.log.err = w.log.err
  /\ v.pio.irqs \in {w.pio.irqs, w.pio.irqs \cup {"TXPENDING"}}

(* Parser, report, transmit state and mask afterwards.                     *)
After(v, parse, report, tx, inte) ==
  /\ v.cd.parse_state = parse /\ v.cd.report_state = report
  /\ v.cd.tx_state = tx /\ v.pio.inte = inte

(* The message under way and what was delivered stay.                      *)
SameFrame(w, v) == v.cd.parse_msg = w.cd.parse_msg /\ v.log.rx = w.log.rx

\* A discard, field by field.
LEMMA DiscardDoes ==
  ASSUME NEW w \in Worlds, ~w.pio.stall
  PROVE  LET v == data_state_go_discard(w) IN
         /\ Parses(w, v) /\ SameFrame(w, v)
         /\ After(v, "DISCARD", "IDLE", w.cd.tx_state, {"MAYTX", "TXPENDING", "RX_DATA"})
<1> DEFINE v == data_state_go_discard(w)
<1>1. /\ v \in Worlds
      /\ v.cd = [w.cd EXCEPT !.parse_state = "DISCARD", !.report_state = "IDLE"]
      /\ v.log.rx = w.log.rx
      /\ v.pio.inte = {"MAYTX", "TXPENDING", "RX_DATA"} /\ v.pio.txmsg = w.pio.txmsg
      /\ v.pio.fifo = w.pio.fifo /\ v.pio.isr = w.pio.isr
      /\ v.pio.irqs = w.pio.irqs /\ v.pio.txsm = w.pio.txsm
      /\ v.pio.sync = w.pio.sync /\ v.log = w.log
      /\ v.pio.stall = FALSE /\ v.pio.flevel = w.pio.flevel
  BY DiscardFields
<1> HIDE DEF v
<1>2. /\ v.cd.parse_state = "DISCARD" /\ v.cd.report_state = "IDLE"
      /\ v.cd.tx_state = w.cd.tx_state /\ v.cd.parse_msg = w.cd.parse_msg
  BY <1>1 DEF Worlds, CdStates
<1>3. v.pio.stall = w.pio.stall
  BY <1>1 DEF Worlds, PioStates
<1> QED
  BY <1>1, <1>2, <1>3 DEF Parses, After, SameFrame, v

\* The parser's turn.
LEMMA ProcessRxTurns ==
  ASSUME NEW w \in Worlds, NEW t0 \in Tokens, NEW t \in Tokens, NEW again \in BOOLEAN,
         ~w.pio.stall, ParserInv(w), Succeeds(line, t0, t), IsRead(line, w.cd, t0)
  PROVE  /\ Turns(w, process_rx(w, t, again), t)
         /\ Mid(w.cd.parse_state) => t.n = w.cd.parse_msg
<1> DEFINE s == w.cd.parse_state
           v == process_rx(w, t, again)
           Goal == Turns(w, v, t) /\ (Mid(s) => t.n = w.cd.parse_msg)
<1> SUFFICES Goal
  OBVIOUS
<1>0. /\ s \in {"START", "HEADER", "CRC", "ACK", "EOF0", "EOF1", "DISCARD"}
      /\ s \in {"DISCARD", "START", "HEADER"} => ~Receiving(w.cd.report_state)
  BY DEF Worlds, CdStates, ParserInv, Receiving
<1>1. CASE s = "DISCARD"
  <2>1. t0.k \notin Ending
    BY <1>1 DEF IsRead
  <2>2. CASE t.k \in Ending
    <3> DEFINE d == data_state_go_discard(w)
    <3>1. data_state_line_passive(w, "six") = d
      BY <1>1 DEF data_state_line_passive
    <3>2. v = TenPassive(w)
      BY <1>1, <2>2 DEF process_rx, Ending
    <3>3. d.cd.parse_state = "DISCARD"
      BY DiscardDoes DEF After
    <3> HIDE DEF d, v
    <3>4. v = data_state_line_passive(d, "ten")
      BY <3>1, <3>2 DEF TenPassive, pio_rx_check_stall
    <3>5. v = GoNext(d, "START")
      BY <3>3, <3>4 DEF data_state_line_passive
    <3> QED
      BY <1>1, <2>2, <3>5 DEF Turns, Mid, d
  <2>3. CASE t.k \notin Ending
    <3>1. v = data_state_go_discard(w) \/ v = w
      <4>1. CASE t.k = "err"
        BY <4>1 DEF process_rx, data_state_line_error, data_state_go_error
      <4>2. CASE t.k = "pas"
        BY <1>1, <4>2 DEF process_rx, data_state_line_passive
      <4>3. CASE t.k \notin {"err", "pas", "idle", "long", "eof1"}
        BY <1>1, <4>3 DEF process_rx
      <4>4. t.k # "long"
        BY DEF Succeeds, Continues
      <4> QED
        BY <2>3, <4>1, <4>2, <4>3, <4>4 DEF Ending
    <3>2. Discards(w, t)
      BY <1>0, <1>1, <2>3 DEF Discards
    <3> HIDE DEF v
    <3> QED
      BY <1>1, <2>3, <3>1, <3>2 DEF Turns, Mid
  <2> QED
    BY <2>2, <2>3
<1>2. CASE s = "START"
  <2>1. t.k = "sof"
    BY <1>2 DEF IsRead, Succeeds, Continues, Ending
  <2>2. v = data_state_update_start(w, t.n)
    BY <1>2, <2>1 DEF process_rx
  <2> QED
    BY <1>2, <2>1, <2>2 DEF Turns, Mid
<1>3. ASSUME Mid(s), t.n = w.cd.parse_msg, t.k \in {"err", "pas", "badcrc", "noack", "rsv"},
             s = "HEADER" \/ t.k # "rsv",
             s \in {"EOF0", "EOF1"} => t.k \in Flags,
             s = "ACK" => t.k # "badcrc"
      PROVE  Goal
  <2>0. s \notin {"START", "DISCARD"}
    BY <1>3 DEF Mid
  <2>1. v = data_state_go_discard(w)
    <3>1. CASE t.k = "err"
      BY <3>1 DEF process_rx, data_state_line_error, data_state_go_error
    <3>2. CASE t.k = "pas"
      BY <2>0, <3>2 DEF process_rx, data_state_line_passive, data_state_go_error
    <3>3. CASE t.k \in {"badcrc", "noack", "rsv"}
      BY <1>0, <1>3, <2>0, <3>3 DEF process_rx, Field, data_state_update_header, data_state_update_crc,
         data_state_update_ack, data_state_go_error, Flags
    <3> QED
      BY <1>3, <3>1, <3>2, <3>3
  <2>2. Discards(w, t)
    BY <1>0, <1>3 DEF Discards, Ending
  <2> HIDE DEF v
  <2> QED
    BY <1>3, <2>1, <2>2 DEF Turns
<1>4. CASE s = "HEADER"
  <2>1. t.n = w.cd.parse_msg /\ t.k \in {"body", "rsv", "err", "pas"} /\ Mid(s)
    BY <1>4 DEF IsRead, Succeeds, Continues, Mid, Ending, Before
  <2>2. CASE t.k = "body"
    <3>1. v = data_state_go_crc(w)
      BY <1>4, <2>1, <2>2 DEF process_rx, data_state_update_header, Field
    <3>2. /\ tx_check_local_message(w) \in {-1, 0, 1}
          /\ tx_check_local_message(w) = 1 <=> Echo(w)
      BY DEF tx_check_local_message, Echo
    <3>3. CASE tx_check_local_message(w) = -1
      <4>1. v = data_state_go_discard(w) /\ ~Echo(w)
        BY <3>1, <3>2, <3>3 DEF data_state_go_crc, data_state_go_error
      <4>2. Discards(w, t)
        BY <1>0, <1>4, <2>2, <4>1 DEF Discards, Ending
      <4> HIDE DEF v
      <4> QED
        BY <2>1, <4>1, <4>2 DEF Turns
    <3>4. CASE tx_check_local_message(w) # -1
      <4>1. v = GoNext(report_note_crc_start(w, tx_check_local_message(w) = 1), "CRC")
        BY <3>1, <3>4 DEF data_state_go_crc
      <4>2. (tx_check_local_message(w) = 1) = Echo(w)
        <5>1. Echo(w) \in BOOLEAN /\ (tx_check_local_message(w) = 1) \in BOOLEAN
          BY DEF Echo
        <5> QED
          BY <3>2, <5>1
      <4>3. v = GoNext(report_note_crc_start(w, Echo(w)), "CRC")
        BY <4>1, <4>2
      <4> HIDE DEF v
      <4> QED
        BY <1>4, <2>1, <2>2, <4>3 DEF Turns
    <3> QED
      BY <3>3, <3>4
  <2>3. CASE t.k # "body"
    BY <1>3, <1>4, <2>1, <2>3
  <2> QED
    BY <2>2, <2>3
<1>5. CASE s = "CRC"
  <2>1. t.n = w.cd.parse_msg /\ t.k \in {"crc", "badcrc", "err", "pas"} /\ Mid(s)
    BY <1>5 DEF IsRead, Succeeds, Continues, Mid, Ending, Before
  <2>2. CASE t.k = "crc"
    <3>1. v = GoNext(report_note_crc_success(w), "ACK")
      BY <1>5, <2>1, <2>2 DEF process_rx, data_state_update_crc, Field
    <3> HIDE DEF v
    <3> QED
      BY <1>5, <2>1, <2>2, <3>1 DEF Turns
  <2>3. CASE t.k # "crc"
    BY <1>3, <1>5, <2>1, <2>3
  <2> QED
    BY <2>2, <2>3
<1>6. CASE s = "ACK"
  <2>1. t.n = w.cd.parse_msg /\ t.k \in {"ack", "noack", "err"} /\ Mid(s)
    BY <1>6 DEF IsRead, Succeeds, Continues, Mid, Ending, Before
  <2>2. CASE t.k = "ack"
    <3>1. v = GoNext(report_note_ack_success(w), "EOF0")
      BY <1>6, <2>1, <2>2 DEF process_rx, data_state_update_ack, Field
    <3> HIDE DEF v
    <3> QED
      BY <1>6, <2>1, <2>2, <3>1 DEF Turns
  <2>3. CASE t.k # "ack"
    BY <1>3, <1>6, <2>1, <2>3
  <2> QED
    BY <2>2, <2>3
<1>7. CASE s = "EOF0"
  <2>1. t.n = w.cd.parse_msg /\ t.k \in {"eof0", "err"} /\ Mid(s)
    BY <1>7 DEF IsRead, Succeeds, Continues, Mid, Ending, Before
  <2>2. CASE t.k = "eof0"
    <3>1. v = GoNext(w, "EOF1")
      BY <1>7, <2>1, <2>2 DEF process_rx, data_state_update_eof0, Field, pio_rx_check_stall
    <3> HIDE DEF v
    <3> QED
      BY <1>7, <2>1, <2>2, <3>1 DEF Turns
  <2>3. CASE t.k # "eof0"
    BY <1>3, <1>7, <2>1, <2>3 DEF Flags
  <2> QED
    BY <2>2, <2>3
<1>8. CASE s = "EOF1"
  <2>1. t.n = w.cd.parse_msg /\ t.k \in {"eof1", "over", "rxover", "err"} /\ Mid(s)
    BY <1>8 DEF IsRead, Succeeds, Continues, Mid, Ending, Before
  <2>2. CASE t.k = "eof1"
    <3>1. v = GoNext(report_note_eof_success(w), "START")
      BY <1>8, <2>1, <2>2 DEF process_rx, data_state_update_eof1, Field
    <3> HIDE DEF v
    <3> QED
      BY <1>8, <2>1, <2>2, <3>1 DEF Turns
  <2>3. CASE t.k \in {"over", "rxover"}
    <3>1. v = data_state_update_eof1(w, t.k)
      BY <1>8, <2>1, <2>3 DEF process_rx, Field
    <3>2. CASE t.k = "over" \/ ~InTx(w.cd.report_state)
      <4>1. v = data_state_go_discard(report_note_eof_success(w))
        BY <2>3, <3>1, <3>2 DEF data_state_update_eof1
      <4> HIDE DEF v
      <4> QED
        BY <1>8, <2>1, <2>3, <4>1 DEF Turns
    <3>3. CASE t.k = "rxover" /\ InTx(w.cd.report_state)
      <4>1. v = data_state_go_discard(w)
        BY <3>1, <3>3 DEF data_state_update_eof1, data_state_go_error
      <4>2. Discards(w, t)
        BY <1>8, <3>3 DEF Discards, Ending, InTx, Receiving
      <4> HIDE DEF v
      <4> QED
        BY <2>1, <4>1, <4>2 DEF Turns
    <3> QED
      BY <2>3, <3>2, <3>3
  <2>4. CASE t.k = "err"
    BY <1>3, <1>8, <2>1, <2>4 DEF Flags
  <2> QED
    BY <2>1, <2>2, <2>3, <2>4
<1> HIDE DEF Goal
<1> QED
  BY <1>0, <1>1, <1>2, <1>4, <1>5, <1>6, <1>7, <1>8

-----------------------------------------------------------------------------
(* The same, field by field.                                               *)

(* All the parser does with field t, from world w to world v.              *)
Does(w, v, t) ==
  LET s == w.cd.parse_state
      r == w.cd.report_state
      x == w.cd.tx_state
      i == w.pio.inte
  IN
  \/ Discards(w, t) /\ SameFrame(w, v) /\ After(v, "DISCARD", "IDLE", x, {"MAYTX", "TXPENDING", "RX_DATA"})
  \/ s = "DISCARD" /\ t.k \notin Ending /\ SameFrame(w, v) /\ After(v, "DISCARD", r, x, i)
  \/ /\ s = "DISCARD" /\ t.k \in Ending /\ SameFrame(w, v)
     /\ After(v, "START", "IDLE", x, {"MAYTX", "TXPENDING", "RX_DATA"})
  \/ /\ s = "START" /\ t.k = "sof" /\ v.cd.parse_msg = t.n /\ v.log.rx = w.log.rx
     /\ After(v, "HEADER", r, x, {"MAYTX", "RX_DATA"})
  \/ /\ s = "HEADER" /\ t.k = "body" /\ Echo(w) /\ SameFrame(w, v)
     /\ After(v, "CRC", "TX_ACK", "CONFIRM_TX", i)
  \/ /\ s = "HEADER" /\ t.k = "body" /\ ~Echo(w) /\ SameFrame(w, v) /\ "TXPENDING" \in v.pio.irqs
     /\ After(v, "CRC", "RX_ACK", x, {"MAYTX", "TXPENDING", "RX_DATA"})
  \/ /\ s = "CRC" /\ t.k = "crc" /\ SameFrame(w, v)
     /\ After(v, "ACK", r, x, IF r = "TX_ACK" THEN {"MAYTX", "MATCHED", "RX_DATA"} ELSE i)
  \/ /\ s = "ACK" /\ t.k = "ack" /\ SameFrame(w, v)
     /\ After(v, "EOF0", IF r = "IDLE" THEN "IDLE" ELSE WithEof(r), x, i)
  \/ s = "EOF0" /\ t.k = "eof0" /\ SameFrame(w, v) /\ After(v, "EOF1", r, x, i)
  \/ /\ s = "EOF1" /\ t.k \in {"eof1", "over", "rxover"} /\ v.cd.parse_msg = w.cd.parse_msg
     /\ v.log.rx = IF r = "RX_EOF" THEN Append(w.log.rx, w.cd.parse_msg) ELSE w.log.rx
     /\ IF t.k = "eof1"
        THEN After(v, "START", "IDLE", x, IF r = "IDLE" THEN i ELSE {"TXPENDING", "RX_DATA"})
        ELSE After(v, "DISCARD", "IDLE", x, {"MAYTX", "TXPENDING", "RX_DATA"})

\* The parser's turn, field by field.
LEMMA TurnsDo ==
  ASSUME NEW w \in Worlds, NEW t \in Tokens, NEW v, ~w.pio.stall, ParserInv(w), Turns(w, v, t)
  PROVE  Parses(w, v) /\ Does(w, v, t)
<1> DEFINE s == w.cd.parse_state
<1>0. w.cd \in CdStates /\ w.pio \in PioStates
  BY DEF Worlds
<1>1. ASSUME v = data_state_go_discard(w), Discards(w, t) PROVE Parses(w, v) /\ Does(w, v, t)
  BY <1>1, DiscardDoes DEF Does
<1>2. ASSUME v = w, s = "DISCARD", t.k \notin Ending PROVE Parses(w, v) /\ Does(w, v, t)
  BY <1>0, <1>2 DEF Parses, Does, After, SameFrame
<1>3. ASSUME NEW p \in {"START", "EOF1"}, v = GoNext(w, p)
      PROVE  /\ Parses(w, v) /\ SameFrame(w, v)
             /\ After(v, p, w.cd.report_state, w.cd.tx_state, w.pio.inte)
  <2>0. p \in {"START", "HEADER", "CRC", "ACK", "EOF0", "EOF1", "DISCARD"}
    OBVIOUS
  <2>1. /\ v \in Worlds /\ v.cd = [w.cd EXCEPT !.parse_state = p]
        /\ v.pio = w.pio /\ v.log = w.log
    BY <1>3, <2>0, GoNextFields
  <2> QED
    BY <1>0, <2>1 DEF Parses, After, SameFrame, CdStates
<1>4. ASSUME v = data_state_update_start(w, t.n), s = "START", t.k = "sof"
      PROVE  Parses(w, v) /\ Does(w, v, t)
  <2>1. /\ v \in Worlds
        /\ v.cd = [w.cd EXCEPT !.parse_state = "HEADER", !.parse_msg = t.n]
        /\ v.pio = [w.pio EXCEPT !.inte = {"MAYTX"} \cup {"RX_DATA"}] /\ v.log = w.log
    BY <1>4, UpdateStartFields DEF Tokens
  <2>2. /\ v.cd.parse_state = "HEADER" /\ v.cd.report_state = w.cd.report_state
        /\ v.cd.tx_state = w.cd.tx_state /\ v.cd.parse_msg = t.n
    BY <1>0, <2>1 DEF CdStates
  <2>3. /\ Parses(w, v) /\ v.pio.inte = {"MAYTX", "RX_DATA"}
    BY <1>0, <2>1 DEF Parses, PioStates
  <2> QED
    BY <1>4, <2>1, <2>2, <2>3 DEF Does, After
<1>5. ASSUME v = GoNext(report_note_crc_start(w, Echo(w)), "CRC"), s = "HEADER", t.k = "body"
      PROVE  Parses(w, v) /\ Does(w, v, t)
  <2>1. Echo(w) \in BOOLEAN
    BY DEF Echo
  <2>2. /\ v \in Worlds /\ v.log = w.log
        /\ Echo(w) => /\ v.cd = [w.cd EXCEPT !.parse_state = "CRC", !.report_state = "TX_ACK",
                                             !.tx_state = "CONFIRM_TX"]
                      /\ v.pio = [w.pio EXCEPT !.match = [kind |-> "txend", n |-> w.cd.parse_msg]]
        /\ ~Echo(w) => /\ v.cd = [w.cd EXCEPT !.parse_state = "CRC", !.report_state = "RX_ACK"]
                       /\ v.pio = [w.pio EXCEPT !.irqs = w.pio.irqs \cup {"TXPENDING"},
                                                !.inte = {"MAYTX", "TXPENDING"} \cup {"RX_DATA"}]
    BY <1>5, <2>1, CrcStartFields
  <2>3. CASE Echo(w)
    <3>1. /\ v.cd.parse_state = "CRC" /\ v.cd.report_state = "TX_ACK"
          /\ v.cd.tx_state = "CONFIRM_TX" /\ v.cd.parse_msg = w.cd.parse_msg
      BY <1>0, <2>2, <2>3 DEF CdStates
    <3>2. Parses(w, v) /\ v.pio.inte = w.pio.inte
      BY <1>0, <2>2, <2>3 DEF Parses, PioStates
    <3> QED
      BY <1>5, <2>2, <2>3, <3>1, <3>2 DEF Does, After, SameFrame
  <2>4. CASE ~Echo(w)
    <3>1. /\ v.cd.parse_state = "CRC" /\ v.cd.report_state = "RX_ACK"
          /\ v.cd.tx_state = w.cd.tx_state /\ v.cd.parse_msg = w.cd.parse_msg
      BY <1>0, <2>2, <2>4 DEF CdStates
    <3>2. /\ Parses(w, v) /\ v.pio.inte = {"MAYTX", "TXPENDING", "RX_DATA"} /\ "TXPENDING" \in v.pio.irqs
      <4>1. {"MAYTX", "TXPENDING"} \cup {"RX_DATA"} = {"MAYTX", "TXPENDING", "RX_DATA"}
        OBVIOUS
      <4>2. /\ v.pio.irqs = w.pio.irqs \cup {"TXPENDING"} /\ v.pio.inte = {"MAYTX", "TXPENDING", "RX_DATA"}
            /\ v.pio.fifo = w.pio.fifo /\ v.pio.isr = w.pio.isr /\ v.pio.sync = w.pio.sync
            /\ v.pio.stall = w.pio.stall /\ v.pio.txsm = w.pio.txsm /\ v.pio.txmsg = w.pio.txmsg
            /\ v.pio.flevel = w.pio.flevel
        BY <1>0, <2>2, <2>4, <4>1 DEF PioStates
      <4> QED
        BY <2>2, <4>2 DEF Parses
    <3> QED
      BY <1>5, <2>2, <2>4, <3>1, <3>2 DEF Does, After, SameFrame
  <2> QED
    BY <2>3, <2>4
<1>6. ASSUME v = GoNext(report_note_crc_success(w), "ACK"), s = "CRC", t.k = "crc"
      PROVE  Parses(w, v) /\ Does(w, v, t)
  <2> DEFINE c == report_note_crc_success(w)
  <2>1. /\ c \in Worlds /\ c.cd = w.cd /\ c.log = w.log
        /\ c.pio = IF w.cd.report_state = "TX_ACK"
                   THEN [w.pio EXCEPT !.inte = {"MAYTX", "MATCHED"} \cup {"RX_DATA"}] ELSE w.pio
    BY CrcSuccessFields
  <2> HIDE DEF c
  <2>2. /\ v \in Worlds /\ v.cd = [c.cd EXCEPT !.parse_state = "ACK"] /\ v.pio = c.pio /\ v.log = c.log
    BY <1>6, <2>1, GoNextFields DEF c
  <2>3. /\ v.cd.parse_state = "ACK" /\ v.cd.report_state = w.cd.report_state
        /\ v.cd.tx_state = w.cd.tx_state /\ v.cd.parse_msg = w.cd.parse_msg
    BY <1>0, <2>1, <2>2 DEF CdStates
  <2>4. /\ Parses(w, v)
        /\ v.pio.inte = IF w.cd.report_state = "TX_ACK" THEN {"MAYTX", "MATCHED", "RX_DATA"} ELSE w.pio.inte
    <3>1. CASE w.cd.report_state = "TX_ACK"
      BY <1>0, <2>1, <2>2, <3>1 DEF Parses, PioStates
    <3>2. CASE w.cd.report_state # "TX_ACK"
      BY <1>0, <2>1, <2>2, <3>2 DEF Parses, PioStates
    <3> QED
      BY <3>1, <3>2
  <2> QED
    BY <1>6, <2>1, <2>2, <2>3, <2>4 DEF Does, After, SameFrame
<1>7. ASSUME v = GoNext(report_note_ack_success(w), "EOF0"), s = "ACK", t.k = "ack"
      PROVE  Parses(w, v) /\ Does(w, v, t)
  <2> DEFINE c == report_note_ack_success(w)
             r == IF w.cd.report_state = "IDLE" THEN "IDLE" ELSE WithEof(w.cd.report_state)
  <2>1. c \in Worlds /\ c.cd = [w.cd EXCEPT !.report_state = r] /\ c.pio = w.pio /\ c.log = w.log
    BY AckSuccessFields
  <2> HIDE DEF c
  <2>2. /\ v \in Worlds /\ v.cd = [c.cd EXCEPT !.parse_state = "EOF0"] /\ v.pio = c.pio /\ v.log = c.log
    BY <1>7, <2>1, GoNextFields DEF c
  <2>3. /\ v.cd.parse_state = "EOF0" /\ v.cd.report_state = r
        /\ v.cd.tx_state = w.cd.tx_state /\ v.cd.parse_msg = w.cd.parse_msg
    <3> HIDE DEF r
    <3> QED
      BY <1>0, <2>1, <2>2 DEF CdStates
  <2>4. Parses(w, v) /\ v.pio.inte = w.pio.inte
    BY <1>0, <2>1, <2>2 DEF Parses, PioStates
  <2> QED
    BY <1>7, <2>1, <2>2, <2>3, <2>4 DEF Does, After, SameFrame
<1>8. ASSUME s = "EOF1", t.k \in {"eof1", "over", "rxover"},
             \/ t.k = "eof1" /\ v = GoNext(report_note_eof_success(w), "START")
             \/ t.k # "eof1" /\ v = data_state_go_discard(report_note_eof_success(w))
      PROVE  Parses(w, v) /\ Does(w, v, t)
  <2> DEFINE e == report_note_eof_success(w)
  <2>1. /\ e \in Worlds
        /\ e.cd = [w.cd EXCEPT !.report_state = "IDLE",
                     !.tx_pull_pos = IF w.cd.report_state = "TX_EOF"
                                     THEN Next1(w.cd.tx_pull_pos) ELSE w.cd.tx_pull_pos]
        /\ e.pio = IF w.cd.report_state = "IDLE" THEN w.pio
                   ELSE [w.pio EXCEPT !.match = NoKey, !.inte = {"TXPENDING"} \cup {"RX_DATA"}]
        /\ e.log.rx = IF w.cd.report_state = "RX_EOF"
                      THEN Append(w.log.rx, w.cd.parse_msg) ELSE w.log.rx
        /\ e.log.err = w.log.err
    BY EofSuccessFields
  <2>2. CASE t.k = "eof1" /\ v = GoNext(e, "START")
    <3> HIDE DEF e
    <3>1. v \in Worlds /\ v.cd = [e.cd EXCEPT !.parse_state = "START"] /\ v.pio = e.pio /\ v.log = e.log
      BY <2>1, <2>2, GoNextFields
    <3>2. /\ v.cd.parse_state = "START" /\ v.cd.report_state = "IDLE"
          /\ v.cd.tx_state = w.cd.tx_state /\ v.cd.parse_msg = w.cd.parse_msg
      BY <1>0, <2>1, <3>1 DEF CdStates
    <3>3. /\ Parses(w, v)
          /\ v.pio.inte = IF w.cd.report_state = "IDLE" THEN w.pio.inte ELSE {"TXPENDING", "RX_DATA"}
      <4>1. CASE w.cd.report_state = "IDLE"
        BY <1>0, <2>1, <3>1, <4>1 DEF Parses, PioStates
      <4>2. CASE w.cd.report_state # "IDLE"
        BY <1>0, <2>1, <3>1, <4>2 DEF Parses, PioStates
      <4> QED
        BY <4>1, <4>2
    <3> QED
      BY <1>8, <2>1, <2>2, <3>1, <3>2, <3>3 DEF Does, After
  <2>3. CASE t.k # "eof1" /\ v = data_state_go_discard(e)
    <3> HIDE DEF e
    <3>1. /\ e.pio.fifo = w.pio.fifo /\ e.pio.isr = w.pio.isr /\ e.pio.sync = w.pio.sync
          /\ e.pio.stall = w.pio.stall /\ e.pio.txsm = w.pio.txsm /\ e.pio.txmsg = w.pio.txmsg
          /\ e.pio.irqs = w.pio.irqs /\ e.pio.flevel = w.pio.flevel
      BY <1>0, <2>1 DEF PioStates
    <3>2. e.cd.tx_state = w.cd.tx_state /\ e.cd.parse_msg = w.cd.parse_msg
      BY <1>0, <2>1 DEF CdStates
    <3>3. /\ Parses(e, v) /\ SameFrame(e, v)
          /\ After(v, "DISCARD", "IDLE", e.cd.tx_state, {"MAYTX", "TXPENDING", "RX_DATA"})
      BY <2>1, <2>3, <3>1, DiscardDoes
    <3>4. Parses(w, v)
      BY <2>1, <3>1, <3>3 DEF Parses
    <3> QED
      BY <1>8, <2>1, <2>3, <3>2, <3>3, <3>4 DEF Does, SameFrame
  <2> QED
    BY <1>8, <2>2, <2>3
<1>9. ASSUME v = GoNext(data_state_go_discard(w), "START"), s = "DISCARD", t.k \in Ending
      PROVE  Parses(w, v) /\ Does(w, v, t)
  <2> DEFINE d == data_state_go_discard(w)
  <2>1. /\ Parses(w, d) /\ SameFrame(w, d)
        /\ After(d, "DISCARD", "IDLE", w.cd.tx_state, {"MAYTX", "TXPENDING", "RX_DATA"})
    BY DiscardDoes
  <2>2. v = GoNext(d, "START") /\ d \in Worlds
    BY <1>9, <2>1 DEF Parses
  <2> HIDE DEF d
  <2>3. v \in Worlds /\ v.cd = [d.cd EXCEPT !.parse_state = "START"] /\ v.pio = d.pio /\ v.log = d.log
    BY <2>2, GoNextFields
  <2>4. /\ v.cd.parse_state = "START" /\ v.cd.report_state = d.cd.report_state
        /\ v.cd.tx_state = d.cd.tx_state /\ v.cd.parse_msg = d.cd.parse_msg
    BY <2>2, <2>3 DEF Worlds, CdStates
  <2>5. Parses(w, v) /\ SameFrame(w, v)
    BY <2>1, <2>3, <2>4 DEF Parses, SameFrame
  <2> QED
    BY <1>9, <2>1, <2>3, <2>4, <2>5 DEF Does, After
<1>10. ASSUME v = GoNext(w, "EOF1"), s = "EOF0", t.k = "eof0" PROVE Parses(w, v) /\ Does(w, v, t)
  BY <1>3, <1>10 DEF Does
<1> QED
  BY <1>1, <1>2, <1>4, <1>5, <1>6, <1>7, <1>8, <1>9, <1>10 DEF Turns

-----------------------------------------------------------------------------
(* What waits in the shift register, and what an overrun leaves behind.    *)

(* "sync" raises MAYTX and stops sampling at once.  The words that wait    *)
(* for their last bits are not older than the crc of the frame, and behind *)
(* an idle line not older than its end.                                    *)
Shifted(l, p) ==
  /\ p.sync \in {"signalled", "wrapped"} <=> "MAYTX" \in p.irqs
  /\ l.phase = "idle" => \A i \in DOMAIN p.isr : p.isr[i].k \in {"eof0", "eof1", "idle"}
  /\ l.phase = "sof" => \A i \in DOMAIN p.isr : p.isr[i].k \in {"eof0", "eof1", "idle", "sof"}
  /\ l.phase \in {"crc", "ack", "eof4", "eof6", "eof7"} =>
       \A i \in DOMAIN p.isr : p.isr[i].k \in {"crc", "badcrc", "ack", "noack", "eof0"}

Plain(s) == \A i \in DOMAIN s : s[i].k # "long"

(* An overrun leaves the stall flag, or the parser noticed it; and that    *)
(* the counter of "sync" overflowed is not said before it happened.        *)
Lossless(l, w) ==
  /\ l.wraps <= Wraps
  /\ l.wraps = Wraps => /\ l.overruns < Overruns => w.pio.stall \/ w.log.err
                        /\ w.pio.sync # "wrapped" /\ Plain(w.pio.fifo) /\ Plain(w.pio.isr)
  /\ Unbroken(l) => ~w.pio.stall

(* While "tx" sends, the frame on the wire is its own, and by the end of   *)
(* the crc its fifo is empty.  Words are left only for a message that is   *)
(* to be sent, unless the PIO block was restarted.                         *)
Fed(l, p) ==
  /\ p.txsm = "sending" => /\ l.phase \in {"sof", "body", "crc"}
                           /\ l.frames[Latest(l)].src = "own"
                           /\ p.flevel => l.phase # "crc"
  /\ Unbroken(l) => /\ p.flevel => p.txsm \in {"armed", "sending", "conflict"}
                    /\ p.txsm = "armed" => p.flevel

\* What a word that tells no overflow does to such words, and a push of them.
LEMMA PlainAppend ==
  ASSUME NEW s \in Seq(Tokens), Plain(s), NEW k \in Kinds \ {"long"}, NEW n \in Nat
  PROVE  Plain(Append(s, [k |-> k, n |-> n])) /\ Append(s, [k |-> k, n |-> n]) \in Seq(Tokens)
<1> DEFINE t == [k |-> k, n |-> n]
<1>1. t \in Tokens /\ t.k # "long"
  BY DEF Tokens
<1> HIDE DEF t
<1>2. /\ Append(s, t) \in Seq(Tokens)
      /\ \A i \in DOMAIN Append(s, t) : \/ i \in DOMAIN s /\ Append(s, t)[i] = s[i]
                                        \/ Append(s, t)[i] = t
  BY <1>1, AppendAt
<1>3. Plain(Append(s, t))
  BY <1>1, <1>2 DEF Plain
<1> QED
  BY <1>2, <1>3 DEF t

LEMMA PlainJoin ==
  ASSUME NEW a \in Seq(Tokens), NEW b \in Seq(Tokens), Plain(a), Plain(b)
  PROVE  Plain(a \o b)
BY DEF Plain

LEMMA PlainTail ==
  ASSUME NEW a \in Seq(Tokens), a # <<>>, Plain(a)
  PROVE  Plain(Tail(a)) /\ Head(a).k # "long" /\ Plain(<<>>)
BY DEF Plain

\* The shift register after a field was sampled.
LEMMA SampledAt ==
  ASSUME WireTyped, NEW k \in Kinds, NEW n \in Nat, pio'.isr = Sampled(k, n)
  PROVE  \A i \in DOMAIN pio'.isr : \/ i \in DOMAIN pio.isr /\ pio'.isr[i] = pio.isr[i]
                                    \/ pio'.isr[i].k = k
<1> DEFINE t == [k |-> k, n |-> n]
<1>1. t \in Tokens /\ t.k = k /\ pio.isr \in Seq(Tokens) /\ pio'.isr = Append(pio.isr, t)
  BY WireParts DEF Tokens, Sampled
<1> HIDE DEF t
<1>2. \A i \in DOMAIN pio'.isr : \/ i \in DOMAIN pio.isr /\ pio'.isr[i] = pio.isr[i]
                                 \/ pio'.isr[i] = t
  BY <1>1, AppendAt
<1> QED
  BY <1>1, <1>2

\* A step of the wire keeps the shift register as Shifted says.
LEMMA WireShifted ==
  ASSUME WireTyped, WireNext, WireInv(line, pio), Shifted(line, pio)
  PROVE  Shifted(line', pio')
<1> DEFINE Goal == Shifted(line', pio')
<1>0. line.phase \in Phases /\ Last \in Nat /\ DOMAIN <<>> = {}
  BY WireParts DEF LineStates
<1>1. ASSUME NEW k \in Kinds \cup {"none"}, Advances(k) PROVE Goal
  <2>1. pio.sync \notin {"signalled", "wrapped"} \/ line.phase = "idle"
    BY DEF WireInv, Shifted
  <2>2. Onto(line.phase, k, line'.phase)
    BY <1>1 DEF Advances
  <2>3. line.phase # "idle"
    BY <2>2 DEF Onto
  <2>4. pio'.sync \in {"signalled", "wrapped"} <=> "MAYTX" \in pio'.irqs
    BY <1>1, <2>1, <2>3 DEF Advances, Shifted
  <2>5. \A i \in DOMAIN pio'.isr : \/ i \in DOMAIN pio.isr /\ pio'.isr[i] = pio.isr[i]
                                   \/ k # "none" /\ pio'.isr[i].k = k
    <3>1. CASE k = "none"
      BY <1>1, <3>1 DEF Advances
    <3>2. CASE k # "none"
      <4>1. k \in Kinds /\ pio'.isr = Sampled(k, Last)
        BY <1>1, <3>2 DEF Advances
      <4> QED
        BY <1>0, <3>2, <4>1, SampledAt
    <3> QED
      BY <3>1, <3>2
  <2>6. /\ k \in {"body", "rsv", "crc", "badcrc"} \/ line.phase = "flag" => pio.isr = <<>>
        /\ line.phase = "eof7" /\ line'.phase = "idle" =>
             \A i \in DOMAIN pio.isr : pio.isr[i].k \notin {"crc", "badcrc", "ack", "noack"}
    BY <1>1 DEF Advances, Waiting
  <2>7. line'.phase # "sof"
    BY <2>2 DEF Onto
  <2>8. ASSUME line'.phase = "idle", NEW i \in DOMAIN pio'.isr
        PROVE  pio'.isr[i].k \in {"eof0", "eof1", "idle"}
    <3>1. line.phase = "flag" \/ line.phase = "eof7"
      BY <2>2, <2>8 DEF Onto
    <3>2. CASE line.phase = "flag"
      BY <1>0, <2>2, <2>5, <2>6, <2>8, <3>2 DEF Onto
    <3>3. CASE line.phase = "eof7" /\ k = "eof1"
      BY <2>5, <2>6, <2>8, <3>3 DEF Shifted
    <3>4. CASE line.phase = "eof7" /\ k = "none"
      BY <2>5, <2>6, <2>8, <3>4 DEF Shifted
    <3> QED
      BY <2>2, <2>8, <3>1, <3>2, <3>3, <3>4 DEF Onto
  <2>9. ASSUME line'.phase \in {"crc", "ack", "eof4", "eof6", "eof7"}, NEW i \in DOMAIN pio'.isr
        PROVE  pio'.isr[i].k \in {"crc", "badcrc", "ack", "noack", "eof0"}
    BY <1>0, <2>2, <2>5, <2>6, <2>9 DEF Onto, Shifted
  <2> QED
    BY <2>4, <2>7, <2>8, <2>9 DEF Shifted
<1>2. ASSUME NEW src, Starts(src) PROVE Goal
  <2>1. /\ line'.phase = "sof" /\ line.phase = "idle" /\ pio'.isr = Sampled("sof", Last + 1)
        /\ pio'.sync = "count" /\ "MAYTX" \notin pio'.irqs
    BY <1>2 DEF Starts
  <2>2. Last + 1 \in Nat /\ "sof" \in Kinds
    BY <1>0 DEF Kinds
  <2>3. \A i \in DOMAIN pio'.isr : \/ i \in DOMAIN pio.isr /\ pio'.isr[i] = pio.isr[i]
                                   \/ pio'.isr[i].k = "sof"
    BY <2>1, <2>2, SampledAt
  <2> QED
    BY <2>1, <2>3 DEF Shifted
<1>3. CASE Senses
  BY <1>0, <1>3 DEF Senses, Shifted
<1>4. CASE Signals
  BY <1>4 DEF Signals, Shifted
<1>5. CASE Pushes
  BY <1>0, <1>5 DEF Pushes, Shifted
<1>6. CASE Loses
  BY <1>0, <1>6 DEF Loses, Shifted
<1>7. CASE Overflows
  BY <1>0, <1>7 DEF Overflows, Shifted
<1> QED
  BY <1>1, <1>2, <1>3, <1>4, <1>5, <1>6, <1>7, WireGoes

\* A step of the wire keeps what is said of overruns and overflows.
LEMMA WireLossless ==
  ASSUME WireTyped, WireNext, WireInv(line, pio), NEW w, NEW v, w.pio = pio, v.pio = pio',
         v.log = w.log, Lossless(line, w)
  PROVE  /\ Lossless(line', v)
         /\ line'.wraps = Wraps => line.wraps = Wraps /\ ~Overflows
         /\ Unbroken(line') => Unbroken(line) /\ ~Loses
<1> DEFINE Goal == /\ Lossless(line', v)
                   /\ line'.wraps = Wraps => line.wraps = Wraps /\ ~Overflows
                   /\ Unbroken(line') => Unbroken(line) /\ ~Loses
<1>0. /\ line.overruns \in Nat /\ line.overruns <= Overruns /\ Overruns \in Nat
      /\ line.wraps \in Nat /\ line.wraps <= Wraps /\ Wraps \in Nat
      /\ pio.fifo \in Seq(Tokens) /\ pio.isr \in Seq(Tokens) /\ Last \in Nat
  BY WireParts, PioAssumption DEF WireInv, LineStates, Lossless
<1>1. ASSUME line.wraps = Wraps, line'.wraps = Wraps,
             \/ line'.overruns = line.overruns /\ pio'.stall = pio.stall
             \/ line'.overruns = line.overruns - 1 /\ pio'.stall = TRUE,
             pio'.sync # "wrapped", Plain(pio'.fifo), Plain(pio'.isr)
      PROVE  Lossless(line', v) /\ (Unbroken(line') => Unbroken(line) /\ ~Loses)
  BY <1>0, <1>1 DEF Lossless, Unbroken, Loses
<1>2. CASE line'.wraps # Wraps /\ line'.wraps <= Wraps
  BY <1>2 DEF Lossless, Unbroken
<1>3. /\ line.wraps = Wraps => Plain(pio.fifo) /\ Plain(pio.isr) /\ pio.sync # "wrapped"
      /\ Plain(<<>>)
  BY DEF Lossless, Plain
<1>4. \A k \in Kinds \ {"long"}, n \in Nat : line.wraps = Wraps => Plain(Sampled(k, n))
  BY <1>0, <1>3, PlainAppend DEF Sampled
<1>5. ASSUME line'.wraps = Wraps, line.wraps = Wraps, ~Overflows PROVE Goal
  <2>1. ASSUME NEW k \in Kinds \cup {"none"}, Advances(k) PROVE Goal
    <3>1. k # "long" /\ line'.overruns = line.overruns /\ pio'.stall = pio.stall
      BY <2>1 DEF Advances, Onto
    <3>2. pio'.sync # "wrapped" /\ pio'.fifo = pio.fifo
      BY <1>3, <1>5, <2>1 DEF Advances
    <3>3. Plain(pio'.isr)
      BY <1>0, <1>3, <1>4, <1>5, <2>1, <3>1 DEF Advances
    <3> QED
      BY <1>1, <1>3, <1>5, <3>1, <3>2, <3>3
  <2>2. ASSUME NEW src, Starts(src) PROVE Goal
    <3>1. Plain(pio'.isr) /\ pio'.sync # "wrapped" /\ pio'.fifo = pio.fifo
      BY <1>0, <1>4, <1>5, <2>2 DEF Starts, Kinds
    <3>2. line'.overruns = line.overruns /\ pio'.stall = pio.stall
      BY <2>2 DEF Starts
    <3> QED
      BY <1>1, <1>3, <1>5, <3>1, <3>2
  <2>3. CASE Senses
    <3>1. Plain(Sampled("idle", Last)) /\ Sampled("idle", Last) \in Seq(Tokens)
      BY <1>0, <1>3, <1>5, PlainAppend DEF Sampled, Kinds
    <3>2. Plain(pio'.fifo) /\ Plain(pio'.isr) /\ pio'.sync # "wrapped"
      BY <1>0, <1>3, <1>5, <2>3, <3>1, PlainJoin DEF Senses
    <3> QED
      BY <1>1, <1>5, <2>3, <3>2 DEF Senses
  <2>4. CASE Signals
    BY <1>1, <1>3, <1>5, <2>4 DEF Signals
  <2>5. CASE Pushes
    <3>1. Plain(pio'.fifo)
      BY <1>0, <1>3, <1>5, <2>5, PlainJoin DEF Pushes
    <3> QED
      BY <1>1, <1>3, <1>5, <2>5, <3>1 DEF Pushes
  <2>6. CASE Loses
    BY <1>1, <1>3, <1>5, <2>6 DEF Loses
  <2> QED
    BY <1>5, <2>1, <2>2, <2>3, <2>4, <2>5, <2>6, WireGoes
<1>6. CASE Overflows
  <2>1. line'.wraps # Wraps /\ line'.wraps <= Wraps
    BY <1>0, <1>3, <1>6 DEF Overflows
  <2> QED
    BY <1>2, <2>1
<1>7. CASE ~Overflows
  <2>1. line'.wraps = line.wraps
    BY <1>7, WireGoes DEF Advances, Starts, Senses, Signals, Pushes, Loses
  <2> QED
    BY <1>0, <1>2, <1>5, <1>7, <2>1
<1> QED
  BY <1>6, <1>7

\* A step of the wire keeps what is said of the words left in the tx fifo.
LEMMA WireFed ==
  ASSUME WireTyped, WireNext, Fed(line, pio), Unbroken(line') => Unbroken(line)
  PROVE  Fed(line', pio')
<1>0. /\ WireTyped' /\ Last = Latest(line) /\ Last \in Nat /\ DOMAIN line.frames = 1..Last
      /\ line.phase # "idle" => Last \in DOMAIN line.frames
      /\ line'.frames \in Seq(Frames)
  BY WireParts, WireType DEF WireTyped, LineStates
<1>1. ASSUME NEW k \in Kinds \cup {"none"}, Advances(k) PROVE Fed(line', pio')
  <2>1. Onto(line.phase, k, line'.phase) /\ TxGoes /\ FramesGo(k)
    BY <1>1 DEF Advances
  <2>2. line.phase # "idle" /\ Last \in DOMAIN line.frames
    BY <1>0, <2>1 DEF Onto
  <2>3. Latest(line') = Last
    BY <1>0, <2>1 DEF FramesGo, Latest
  <2>4. line'.frames[Last].src = line.frames[Last].src
    BY <2>1, <2>2 DEF FramesGo
  <2>5. /\ line'.phase = "ack" => pio'.txsm # "sending"
        /\ k \in Flags => pio'.txsm # "sending"
        /\ pio'.flevel => pio.flevel /\ (line'.phase = "crc" => Frame.src # "own")
        /\ pio'.flevel = pio.flevel \/ pio.txsm = "sending"
    BY <1>1 DEF Advances
  <2>6. ASSUME pio'.txsm = "sending"
        PROVE  /\ line'.phase \in {"sof", "body", "crc"}
               /\ line'.frames[Latest(line')].src = "own"
               /\ pio'.flevel => line'.phase # "crc"
    <3>1. pio.txsm = "sending"
      BY <2>1, <2>6 DEF TxGoes
    <3>2. line.phase \in {"sof", "body", "crc"} /\ Frame.src = "own"
      BY <1>0, <3>1 DEF Fed, Frame
    <3>3. line'.phase \in {"sof", "body", "crc"}
      BY <2>1, <2>5, <2>6, <3>2 DEF Onto, Flags
    <3> QED
      BY <1>0, <2>3, <2>4, <2>5, <3>2, <3>3 DEF Frame
  <2>7. ASSUME Unbroken(line'), pio'.flevel PROVE pio'.txsm \in {"armed", "sending", "conflict"}
    <3>1. pio.flevel /\ pio.txsm \in {"armed", "sending", "conflict"}
      BY <2>5, <2>7 DEF Fed
    <3>2. pio.txsm = "sending" => line.phase # "crc"
      BY <3>1 DEF Fed
    <3> QED
      BY <2>1, <3>1, <3>2 DEF TxGoes, Onto
  <2>8. ASSUME Unbroken(line'), pio'.txsm = "armed" PROVE pio'.flevel
    <3>1. pio.txsm = "armed"
      BY <2>1, <2>8 DEF TxGoes
    <3> QED
      BY <2>5, <2>8, <3>1 DEF Fed
  <2> QED
    BY <2>6, <2>7, <2>8 DEF Fed
<1>2. ASSUME NEW src \in {"own", "peer"}, Starts(src) PROVE Fed(line', pio')
  <2>1. /\ line.phase = "idle" /\ line'.phase = "sof" /\ line'.frames[Last + 1].src = src
        /\ DOMAIN line'.frames = 1..(Last + 1)
    BY <1>2 DEF Starts
  <2>2. Latest(line') = Last + 1
    BY <1>0, <2>1 DEF Latest
  <2>3. pio.txsm # "sending"
    BY <2>1 DEF Fed
  <2> QED
    BY <1>2, <2>1, <2>2, <2>3 DEF Starts, Fed
<1>3. CASE Senses \/ Signals \/ Pushes \/ Loses \/ Overflows
  <2>1. /\ line'.phase = line.phase /\ line'.frames = line.frames
        /\ pio'.txsm = pio.txsm /\ pio'.flevel = pio.flevel
    BY <1>3 DEF Senses, Signals, Pushes, Loses, Overflows
  <2> QED
    BY <2>1 DEF Fed, Latest
<1> QED
  BY <1>1, <1>2, <1>3, WireGoes

(* The parser leaves the wire's side of the registers and "tx" alone, ...  *)
Still(w, v) ==
  /\ v.pio.isr = w.pio.isr /\ v.pio.fifo = w.pio.fifo /\ v.pio.sync = w.pio.sync
  /\ v.pio.stall = w.pio.stall /\ v.pio.txsm = w.pio.txsm /\ v.pio.flevel = w.pio.flevel
  /\ "MAYTX" \in v.pio.irqs <=> "MAYTX" \in w.pio.irqs
  /\ v.log.err = w.log.err

(* ... or restarts the PIO block, for an overrun or for 32 passive bits.   *)
Restarts(w, v, k) ==
  /\ (w.pio.stall /\ v.log.err) \/ k = "long"
  /\ v.pio.isr = <<>> /\ v.pio.fifo = <<>> /\ v.pio.sync = "sampling"
  /\ v.pio.irqs = {"TXPENDING"} /\ ~v.pio.stall /\ v.pio.txsm # "sending"

\* What a word does to the wire's side of the registers: nothing, or a restart of "sync".
LEMMA ProcessRxFlows ==
  ASSUME NEW w \in Worlds, NEW t \in Tokens, NEW again \in BOOLEAN
  PROVE  LET v == process_rx(w, t, again) IN Still(w, v) \/ Restarts(w, v, t.k)
<1> DEFINE v == process_rx(w, t, again)
<1> SUFFICES Still(w, v) \/ Restarts(w, v, t.k)
  OBVIOUS
<1>0. w.pio \in PioStates /\ w.cd \in CdStates
  BY DEF Worlds
<1>1. ASSUME NEW x \in Worlds
      PROVE  LET y == data_state_go_discard(x) IN Still(x, y) \/ Restarts(x, y, t.k)
  <2> DEFINE y == data_state_go_discard(x)
  <2>1. /\ ~x.pio.stall => /\ y.pio.isr = x.pio.isr /\ y.pio.irqs = x.pio.irqs
                           /\ y.pio.sync = x.pio.sync /\ y.log = x.log
                           /\ y.pio.fifo = x.pio.fifo /\ y.pio.txsm = x.pio.txsm
        /\ x.pio.stall => /\ y.pio.isr = <<>> /\ y.pio.irqs = {"TXPENDING"} /\ y.pio.fifo = <<>>
                          /\ y.pio.sync = "sampling" /\ y.log.err /\ y.pio.txsm # "sending"
        /\ y.pio.stall = FALSE /\ x.pio.stall \in BOOLEAN /\ y.pio.flevel = x.pio.flevel
    BY DiscardFields DEF Worlds, PioStates, Halted
  <2> HIDE DEF y
  <2> QED
    BY <2>1 DEF y, Still, Restarts
<1>4. LET e == report_note_eof_success(w) IN
      /\ e \in Worlds /\ e.pio.isr = w.pio.isr /\ e.pio.sync = w.pio.sync
      /\ e.pio.stall = w.pio.stall /\ e.pio.irqs = w.pio.irqs
      /\ e.pio.fifo = w.pio.fifo /\ e.pio.txsm = w.pio.txsm /\ e.pio.flevel = w.pio.flevel
      /\ e.log.err = w.log.err
  <2> DEFINE e == report_note_eof_success(w)
  <2>1. /\ e \in Worlds /\ e.log.err = w.log.err
        /\ e.pio = IF w.cd.report_state = "IDLE" THEN w.pio
                   ELSE [w.pio EXCEPT !.match = NoKey, !.inte = {"TXPENDING"} \cup {"RX_DATA"}]
    BY EofSuccessFields
  <2> HIDE DEF e
  <2>2. /\ e.pio.isr = w.pio.isr /\ e.pio.sync = w.pio.sync
        /\ e.pio.stall = w.pio.stall /\ e.pio.irqs = w.pio.irqs
      /\ e.pio.fifo = w.pio.fifo /\ e.pio.txsm = w.pio.txsm /\ e.pio.flevel = w.pio.flevel
    BY <1>0, <2>1 DEF PioStates
  <2> QED
    BY <2>1, <2>2 DEF e
<1> HIDE DEF v
<1>5. CASE v = data_state_go_discard(w)
  BY <1>1, <1>5
<1>6. CASE v = w
  BY <1>6 DEF Still
<1>7. ASSUME NEW p \in {"START", "EOF1"}, v = GoNext(w, p) PROVE Still(w, v)
  <2>1. p \in {"START", "HEADER", "CRC", "ACK", "EOF0", "EOF1", "DISCARD"}
    OBVIOUS
  <2>2. v.pio = w.pio /\ v.log = w.log
    BY <1>7, <2>1, GoNextFields
  <2> QED
    BY <2>2 DEF Still
<1>8. CASE v = data_state_update_start(w, t.n)
  <2>1. v.pio = [w.pio EXCEPT !.inte = {"MAYTX"} \cup {"RX_DATA"}] /\ v.log = w.log
    BY <1>8, UpdateStartFields DEF Tokens
  <2> QED
    BY <1>0, <2>1 DEF PioStates, Still
<1>9. ASSUME NEW own \in BOOLEAN, v = GoNext(report_note_crc_start(w, own), "CRC") PROVE Still(w, v)
  <2>1. /\ v.log = w.log
        /\ own => v.pio = [w.pio EXCEPT !.match = [kind |-> "txend", n |-> w.cd.parse_msg]]
        /\ ~own => v.pio = [w.pio EXCEPT !.irqs = w.pio.irqs \cup {"TXPENDING"},
                                         !.inte = {"MAYTX", "TXPENDING"} \cup {"RX_DATA"}]
    BY <1>9, CrcStartFields
  <2>2. CASE own
    BY <1>0, <2>1, <2>2 DEF PioStates, Still
  <2>3. CASE ~own
    <3>1. /\ v.pio.isr = w.pio.isr /\ v.pio.sync = w.pio.sync /\ v.pio.stall = w.pio.stall
          /\ v.pio.irqs = w.pio.irqs \cup {"TXPENDING"}
          /\ v.pio.fifo = w.pio.fifo /\ v.pio.txsm = w.pio.txsm /\ v.pio.flevel = w.pio.flevel
      BY <1>0, <2>1, <2>3 DEF PioStates
    <3> QED
      BY <2>1, <3>1 DEF Still
  <2> QED
    BY <2>2, <2>3
<1>10. ASSUME NEW c \in Worlds, v = GoNext(c, "ACK") \/ v = GoNext(c, "EOF0"), c.log = w.log,
              c.pio = w.pio \/ c.pio = [w.pio EXCEPT !.inte = {"MAYTX", "MATCHED"} \cup {"RX_DATA"}]
       PROVE  Still(w, v)
  <2>1. v.pio = c.pio /\ v.log = c.log
    BY <1>10, GoNextFields
  <2> QED
    BY <1>0, <1>10, <2>1 DEF PioStates, Still
<1>11. CASE v = GoNext(report_note_crc_success(w), "ACK")
  <2> DEFINE c == report_note_crc_success(w)
  <2>1. /\ c \in Worlds /\ c.log = w.log
        /\ c.pio = w.pio \/ c.pio = [w.pio EXCEPT !.inte = {"MAYTX", "MATCHED"} \cup {"RX_DATA"}]
    BY CrcSuccessFields
  <2> HIDE DEF c
  <2> QED
    BY <1>10, <1>11, <2>1 DEF c
<1>12. CASE v = GoNext(report_note_ack_success(w), "EOF0")
  <2> DEFINE c == report_note_ack_success(w)
  <2>1. c \in Worlds /\ c.log = w.log /\ c.pio = w.pio
    BY AckSuccessFields
  <2> HIDE DEF c
  <2> QED
    BY <1>10, <1>12, <2>1 DEF c
<1>13. CASE \/ v = GoNext(report_note_eof_success(w), "START")
            \/ v = data_state_go_discard(report_note_eof_success(w))
  <2> DEFINE e == report_note_eof_success(w)
  <2>1. /\ e \in Worlds /\ e.pio.isr = w.pio.isr /\ e.pio.sync = w.pio.sync
        /\ e.pio.stall = w.pio.stall /\ e.pio.irqs = w.pio.irqs
      /\ e.pio.fifo = w.pio.fifo /\ e.pio.txsm = w.pio.txsm /\ e.pio.flevel = w.pio.flevel
      /\ e.log.err = w.log.err
    BY <1>4
  <2>2. v = GoNext(e, "START") \/ v = data_state_go_discard(e)
    BY <1>13
  <2> HIDE DEF e
  <2>3. Still(e, v) \/ Restarts(e, v, t.k)
    <3>1. CASE v = GoNext(e, "START")
      BY <2>1, <3>1, GoNextFields DEF Still
    <3>2. CASE v = data_state_go_discard(e)
      BY <1>1, <2>1, <3>2
    <3> QED
      BY <2>2, <3>1, <3>2
  <2> QED
    BY <2>1, <2>3 DEF Still, Restarts
<1>15. CASE ~w.pio.stall /\ v = GoNext(data_state_go_discard(w), "START")
  <2> DEFINE d == data_state_go_discard(w)
  <2>1. d \in Worlds
    BY DiscardFields
  <2>2. Still(w, d)
    BY <1>15, DiscardDoes DEF Still, Parses
  <2>3. v = GoNext(d, "START")
    BY <1>15
  <2> HIDE DEF d
  <2>4. v.pio = d.pio /\ v.log = d.log
    BY <2>1, <2>3, GoNextFields
  <2> QED
    BY <2>2, <2>4 DEF Still
<1>16. CASE t.k = "long" /\ v = data_state_go_discard(Restart(w))
  <2> DEFINE r == Restart(w)
  <2>1. /\ r \in Worlds /\ r.pio.isr = <<>> /\ r.pio.fifo = <<>> /\ r.pio.sync = "sampling"
        /\ r.pio.irqs = {"TXPENDING"} /\ r.pio.txsm # "sending" /\ r.pio.stall = FALSE
    BY RestartFields DEF Halted
  <2>2. v = data_state_go_discard(r)
    BY <1>16
  <2> HIDE DEF r
  <2>3. Parses(r, v)
    BY <2>1, <2>2, DiscardDoes
  <2> QED
    BY <1>16, <2>1, <2>3 DEF Restarts, Parses
<1>14. LET s == w.cd.parse_state IN
       \/ v = data_state_go_discard(w) \/ v = w \/ v = GoNext(w, "START") \/ v = GoNext(w, "EOF1")
       \/ v = data_state_update_start(w, t.n)
       \/ \E own \in BOOLEAN : v = GoNext(report_note_crc_start(w, own), "CRC")
       \/ v = GoNext(report_note_crc_success(w), "ACK")
       \/ v = GoNext(report_note_ack_success(w), "EOF0")
       \/ v = GoNext(report_note_eof_success(w), "START")
       \/ v = data_state_go_discard(report_note_eof_success(w))
       \/ ~w.pio.stall /\ v = GoNext(data_state_go_discard(w), "START")
       \/ t.k = "long" /\ v = data_state_go_discard(Restart(w))
  BY ProcessRxCases DEF v
<1> QED
  BY <1>5, <1>6, <1>7, <1>8, <1>9, <1>11, <1>12, <1>13, <1>14, <1>15, <1>16

-----------------------------------------------------------------------------
(* No word is lost or out of place between the wire and the parser, unless *)
(* the PIO block was restarted; the parser comes next, once it is in step. *)
FlowInv == FrameInv /\ Shifted(line, pio) /\ Lossless(line, World) /\ Fed(line, pio)

\* The parts of a state in which FlowInv holds.
LEMMA FlowParts ==
  ASSUME FlowInv
  PROVE  /\ FrameInv /\ QueueInv /\ WireTyped /\ WireInv(line, pio)
         /\ Shifted(line, pio) /\ Lossless(line, World) /\ Fed(line, pio)
         /\ line \in LineStates /\ pio \in PioStates /\ cd \in CdStates /\ log \in LogStates
         /\ irq \in IrqStates /\ app \in AppStates /\ World \in Worlds /\ ParserInv(World)
         /\ World.cd = cd /\ World.pio = pio /\ World.log = log
         /\ pio.fifo \in Seq(Tokens) /\ pio.isr \in Seq(Tokens)
         /\ Stream(World) = Unread /\ Unread \in Seq(Tokens) /\ KnownIn(line, Unread)
<1>1. FrameInv /\ QueueInv /\ DriverInv /\ TypeOK
  BY DEF FlowInv, FrameInv, QueueInv, DriverInv
<1>2. /\ WireTyped /\ WireInv(line, pio) /\ Shifted(line, pio)
      /\ Lossless(line, World) /\ Fed(line, pio)
  BY <1>1 DEF FlowInv, FrameInv, DriverInv, TypeOK, WireTyped
<1>3. /\ World.cd = cd /\ World.pio = pio /\ World.log = log /\ World \in Worlds
      /\ ParserInv(World) /\ KnownIn(line, Stream(World)) /\ Stream(World) \in Seq(Tokens)
  BY <1>1, QueueTypes, StreamKnown
<1> QED
  BY <1>1, <1>2, <1>3 DEF TypeOK, PioStates, Stream, Unread

\* A step of the wire leaves the rest alone.
LEMMA WireAlone ==
  ASSUME FlowInv, Wire
  PROVE  /\ WireNext /\ UNCHANGED <<cd, app, log>>
         /\ irq'.pc = irq.pc /\ irq'.ints = irq.ints /\ irq'.mask = irq.mask
         /\ World'.cd = cd /\ World'.pio = pio' /\ World'.log = log
         /\ Stream(World') = Unread'
<1>1. irq \in IrqStates
  BY FlowParts
<1> QED
  BY <1>1 DEF Wire, IrqStates, World, Stream, Unread

\* Every step keeps FlowInv.
LEMMA FlowKept == FlowInv /\ [Next]_vars => FlowInv'
<1> SUFFICES ASSUME FlowInv, [Next]_vars PROVE FlowInv'
  OBVIOUS
<1>0. FrameInv'
  BY FrameKept DEF FlowInv
<1>1. World'.cd = cd' /\ World'.pio = pio' /\ World'.log = log'
  BY DEF World
<1>2. CASE Wire
  <2>1. WireNext /\ log' = log /\ log.err \in BOOLEAN
    BY <1>2, WireAlone, FlowParts DEF LogStates
  <2>2. Shifted(line', pio')
    BY <2>1, WireShifted, FlowParts
  <2>3. Lossless(line', World') /\ (Unbroken(line') => Unbroken(line))
    BY <1>1, <2>1, WireLossless, FlowParts
  <2>4. Fed(line', pio')
    BY <2>1, <2>3, WireFed, FlowParts
  <2> QED
    BY <1>0, <2>2, <2>3, <2>4 DEF FlowInv
<1>3. ASSUME NEW again \in BOOLEAN, ProcessRx(again) PROVE FlowInv'
  <2> DEFINE u == [World EXCEPT !.pio.fifo = Tail(pio.fifo)]
             t == Head(pio.fifo)
             v == process_rx(u, t, again)
  <2>1. pio.fifo # <<>> /\ pio.fifo \in Seq(Tokens)
    BY <1>3, FlowParts DEF QueueInv, DriverInv, HandlerInv, ProcessRx
  <2>2. t \in Tokens /\ Tail(pio.fifo) \in Seq(Tokens)
    BY <2>1
  <2>3. u \in Worlds /\ u.log = log /\ u.pio = [pio EXCEPT !.fifo = Tail(pio.fifo)]
    BY <2>2, FlowParts DEF Worlds, PioStates
  <2>4. /\ u.pio.isr = pio.isr /\ u.pio.sync = pio.sync /\ u.pio.stall = pio.stall
        /\ u.pio.irqs = pio.irqs /\ u.pio.fifo = Tail(pio.fifo)
        /\ u.pio.txsm = pio.txsm /\ u.pio.flevel = pio.flevel
    BY <2>3, FlowParts DEF PioStates
  <2>5. pio' = v.pio /\ log' = v.log /\ line' = line
    BY <1>3 DEF ProcessRx, Becomes, World
  <2>a. line.wraps = Wraps => Plain(pio.fifo) /\ t.k # "long" /\ Plain(Tail(pio.fifo))
    BY <2>1, FlowParts, PlainTail DEF Lossless
  <2>b. Plain(<<>>)
    BY DEF Plain
  <2> HIDE DEF u, t
  <2>6. Still(u, v) \/ Restarts(u, v, t.k)
    BY <2>2, <2>3, ProcessRxFlows
  <2> HIDE DEF v
  <2>7. Shifted(line', pio')
    <3>1. DOMAIN <<>> = {}
      OBVIOUS
    <3> QED
      BY <2>4, <2>5, <2>6, <3>1, FlowParts DEF Shifted, Still, Restarts
  <2>8. Lossless(line', World')
    <3>1. CASE Still(u, v)
      BY <1>1, <2>a, <2>3, <2>4, <2>5, <3>1, FlowParts DEF Lossless, Still
    <3>2. CASE Restarts(u, v, t.k)
      BY <1>1, <2>a, <2>b, <2>4, <2>5, <3>2, FlowParts DEF Lossless, Restarts
    <3> QED
      BY <2>6, <3>1, <3>2
  <2>9. Fed(line', pio')
    <3>1. CASE Still(u, v)
      BY <2>4, <2>5, <3>1, FlowParts DEF Fed, Still
    <3>2. CASE Restarts(u, v, t.k)
      <4>1. ~Unbroken(line)
        BY <2>a, <2>4, <3>2, FlowParts DEF Unbroken, Restarts, Lossless
      <4> QED
        BY <2>5, <3>2, <4>1 DEF Fed, Restarts
    <3> QED
      BY <2>6, <3>1, <3>2
  <2> QED
    BY <1>0, <2>7, <2>8, <2>9 DEF FlowInv
<1>4. ASSUME Steady,
             \/ pio'.txsm = pio.txsm /\ pio'.flevel = pio.flevel
             \/ pio'.txsm = "ackarmed" /\ pio'.flevel = FALSE
             \/ pio'.txsm = "armed" /\ pio'.flevel = TRUE
      PROVE  FlowInv'
  <2>1. Shifted(line', pio')
    BY <1>4, FlowParts DEF Steady, Shifted
  <2>2. Lossless(line', World')
    BY <1>1, <1>4, FlowParts DEF Steady, Lossless
  <2>3. Fed(line', pio')
    BY <1>4, FlowParts DEF Steady, Fed
  <2> QED
    BY <1>0, <2>1, <2>2, <2>3 DEF FlowInv
<1>5. CASE Handler /\ ~ \E again \in BOOLEAN : ProcessRx(again)
  BY <1>4, <1>5, ServiceGoes, FlowParts
     DEF Enters, Reports, Injects, Waits, Sends, Empties, SameTx
<1>6. CASE Main
  BY <1>4, <1>6, MainGoes, FlowParts DEF Submits, SameTx
<1>7. CASE UNCHANGED vars
  BY <1>4, <1>7 DEF vars, Steady
<1> QED
  BY <1>2, <1>3, <1>5, <1>6, <1>7 DEF Next

\* FlowInv holds when the driver has started.
LEMMA FlowInit == Init => FlowInv
<1> SUFFICES ASSUME Init PROVE FlowInv
  OBVIOUS
<1>1. /\ line.phase = "idle" /\ line.overruns = Overruns /\ pio.irqs = {"TXPENDING"}
      /\ pio.isr = <<>> /\ pio.stall = FALSE /\ pio.sync = "sampling" /\ World.pio = pio
      /\ DOMAIN <<>> = {} /\ Overruns \in Nat /\ Wraps \in Nat /\ line.wraps = Wraps
      /\ pio.txsm = "off" /\ pio.flevel = FALSE /\ pio.fifo = <<>>
  BY PioAssumption DEF Init, PioInit, World
<1>2. Shifted(line, pio) /\ Lossless(line, World) /\ Fed(line, pio)
  BY <1>1 DEF Shifted, Lossless, Plain, Fed
<1> QED
  BY <1>2, FrameInit DEF FlowInv
-----------------------------------------------------------------------------
(* The parser keeps in step with the wire.                                 *)

\* A thread with one more field at its end.
LEMMA ThreadGrows ==
  ASSUME NEW r \in Seq(Tokens), r # <<>>, NEW e \in Tokens
  PROVE  LET q == Append(r, e) IN
         /\ q \in Seq(Tokens) /\ q # <<>> /\ Tail(q) = Append(Tail(r), e)
         /\ q[1] = r[1] /\ q[Len(q)] = e /\ Len(r) \in Nat \ {0}
         /\ \A i \in DOMAIN q : i \in Nat /\ i + 1 \in DOMAIN q =>
              \/ i \in DOMAIN r /\ i + 1 \in DOMAIN r /\ q[i] = r[i] /\ q[i + 1] = r[i + 1]
              \/ q[i] = r[Len(r)] /\ q[i + 1] = e
OBVIOUS

\* A thread without its first field.
LEMMA ThreadShrinks ==
  ASSUME NEW r \in Seq(Tokens), r # <<>>, Tail(r) # <<>>
  PROVE  LET q == Tail(r) IN
         /\ q \in Seq(Tokens) /\ q[Len(q)] = r[Len(r)] /\ q[1] = r[2]
         /\ 1 \in DOMAIN r /\ 2 \in DOMAIN r
         /\ \A i \in DOMAIN q : i + 1 \in DOMAIN q => i + 1 \in DOMAIN r /\ i + 2 \in DOMAIN r
                                                     /\ q[i] = r[i + 1] /\ q[i + 1] = r[i + 2]
OBVIOUS

\* A thread and its tail.
LEMMA ThreadAt ==
  ASSUME NEW r \in Seq(Tokens), r # <<>>
  PROVE  /\ \A i \in DOMAIN r : i + 1 \in DOMAIN r => i \in DOMAIN Tail(r) /\ Tail(r)[i] = r[i + 1]
         /\ r[1] \in Tokens /\ r[Len(r)] \in Tokens
OBVIOUS

\* The first word of the rx fifo is the first one of the stream.
LEMMA JoinHead ==
  ASSUME NEW a \in Seq(Tokens), NEW b \in Seq(Tokens), a # <<>>
  PROVE  /\ Tail(a \o b) = Tail(a) \o b /\ (a \o b)[1] = Head(a) /\ a \o b # <<>>
         /\ 1 \in DOMAIN (a \o b)
<1> DEFINE c == Tail(a)
           h == Head(a)
<1>1. c \in Seq(Tokens) /\ h \in Tokens /\ a = <<h>> \o c
  OBVIOUS
<1> HIDE DEF c, h
<1> DEFINE q == c \o b
<1>2. q \in Seq(Tokens) /\ a \o b = <<h>> \o q
  BY <1>1
<1> HIDE DEF q
<1>3. Tail(<<h>> \o q) = q /\ (<<h>> \o q)[1] = h /\ <<h>> \o q # <<>> /\ 1 \in DOMAIN (<<h>> \o q)
  BY <1>1, <1>2
<1> QED
  BY <1>2, <1>3 DEF q, c, h

\* What was linked stays linked while frames are added.
LEMMA LinkedOn ==
  ASSUME WireTyped, NEW r \in Seq(Tokens), r # <<>>, Linked(line, r), KnownIn(line, Tail(r)),
         \A n \in DOMAIN line.frames : line'.frames[n].src = line.frames[n].src
  PROVE  Linked(line', r)
<1> SUFFICES ASSUME NEW i \in DOMAIN r, i + 1 \in DOMAIN r PROVE Succeeds(line', r[i], r[i + 1])
  BY DEF Linked
<1>1. /\ Succeeds(line, r[i], r[i + 1])
      /\ r[i + 1].k \notin Passive => r[i + 1].n \in DOMAIN line.frames
  BY ThreadAt DEF Linked, KnownIn
<1> QED
  BY <1>1 DEF Succeeds, Passive

\* A step of the wire that loses nothing keeps the parser in step.
LEMMA WireInStep ==
  ASSUME FlowInv, WireNext, Unbroken(line'), Unbroken(line), InStep(line, World), cd' = cd,
         World'.cd = cd, World'.pio = pio', Stream(World') = Unread'
  PROVE  InStep(line', World')
<1>1. PICK r \in Seq(Tokens) : Thread(line, World, r)
  BY DEF InStep
<1> DEFINE a == r[Len(r)]
<1>2. /\ r # <<>> /\ Tail(r) = Unread /\ Linked(line, r) /\ IsLast(line, pio, a)
      /\ IsRead(line, cd, r[1])
  BY <1>1, FlowParts DEF Thread
<1>3. /\ WireTyped /\ KnownIn(line, Unread) /\ Last \in Nat /\ Last = Latest(line)
      /\ line.phase \in Phases /\ Overruns \in Nat /\ DOMAIN line.frames = 1..Last
  BY FlowParts, WireParts, PioAssumption DEF LineStates
<1>4. a \in Tokens /\ r[1] \in Tokens
  BY <1>2, ThreadAt
<1> HIDE DEF a
<1>5. ASSUME \A n \in DOMAIN line.frames : n \in DOMAIN line'.frames
                                         /\ line'.frames[n].src = line.frames[n].src
      PROVE  Linked(line', r) /\ IsRead(line', cd, r[1])
  <2>1. Linked(line', r)
    BY <1>2, <1>3, <1>5, LinkedOn
  <2>2. IsRead(line', cd, r[1])
    BY <1>2, <1>5 DEF IsRead
  <2> QED
    BY <2>1, <2>2
<1>6. ASSUME Unread' = Unread, IsLast(line', pio', a), Linked(line', r), IsRead(line', cd, r[1])
      PROVE  InStep(line', World')
  <2>1. Thread(line', World', r)
    BY <1>2, <1>6 DEF Thread, a
  <2> QED
    BY <2>1 DEF InStep
<1>7. ASSUME NEW e \in Tokens, Unread' = Append(Unread, e), Succeeds(line', a, e),
             IsLast(line', pio', e), Linked(line', r), IsRead(line', cd, r[1])
      PROVE  InStep(line', World')
  <2> DEFINE q == Append(r, e)
  <2>1. /\ q \in Seq(Tokens) /\ q # <<>> /\ Tail(q) = Append(Tail(r), e)
        /\ q[1] = r[1] /\ q[Len(q)] = e /\ Len(r) \in Nat \ {0}
        /\ \A i \in DOMAIN q : i \in Nat /\ i + 1 \in DOMAIN q =>
              \/ i \in DOMAIN r /\ i + 1 \in DOMAIN r /\ q[i] = r[i] /\ q[i + 1] = r[i + 1]
              \/ q[i] = r[Len(r)] /\ q[i + 1] = e
    BY <1>2, ThreadGrows
  <2> HIDE DEF q
  <2>2. \A i \in DOMAIN q : i \in Nat
    BY <2>1
  <2>3. Linked(line', q)
    BY <1>7, <2>1, <2>2 DEF Linked, a
  <2>4. Thread(line', World', q)
    BY <1>2, <1>7, <2>1, <2>3 DEF Thread
  <2> QED
    BY <2>1, <2>4 DEF InStep
<1>8. /\ \A k \in Kinds, n \in Nat :
              pio'.fifo = pio.fifo /\ pio'.isr = Sampled(k, n) => Unread' = Append(Unread, [k |-> k, n |-> n])
      /\ pio'.fifo = pio.fifo /\ pio'.isr = pio.isr => Unread' = Unread
      /\ Pushes => Unread' = Unread
      /\ Senses => Unread' = Append(Unread, [k |-> "idle", n |-> Last])
  BY <1>3, UnreadGoes
<1>9. ASSUME NEW k \in Kinds, NEW n \in Nat
      PROVE  [k |-> k, n |-> n] \in Tokens
  BY DEF Tokens
<1>10. ASSUME NEW k \in Kinds \cup {"none"}, Advances(k) PROVE InStep(line', World')
  <2>1. /\ Onto(line.phase, k, line'.phase) /\ pio'.fifo = pio.fifo
        /\ pio'.isr = (IF k = "none" THEN pio.isr ELSE Sampled(k, Last))
        /\ pio'.sync \in {pio.sync, "count"} /\ FramesGo(k)
    BY <1>10 DEF Advances
  <2>2. /\ line.phase # "idle" /\ a.n = Latest(line) /\ pio.sync # "sampling"
        /\ LastKind(line.phase, a.k)
    BY <1>2, <2>1 DEF Onto, IsLast
  <2>3. Latest(line') = Last
    <3>1. WireTyped'
      BY <1>3, WireType
    <3>2. line'.frames \in Seq(Frames) /\ DOMAIN line'.frames = 1..Last
      BY <1>3, <2>1, <3>1 DEF FramesGo, WireTyped, LineStates
    <3> QED
      BY <1>3, <3>2 DEF Latest
  <2>4. Linked(line', r) /\ IsRead(line', cd, r[1])
    BY <1>5, <2>1 DEF FramesGo
  <2>5. CASE k = "none"
    <3>1. LastKind(line'.phase, a.k)
      BY <2>1, <2>2, <2>5 DEF Onto, LastKind, Unsynced
    <3>2. IsLast(line', pio', a)
      BY <1>3, <2>1, <2>2, <2>3, <3>1 DEF IsLast
    <3> QED
      BY <1>6, <1>8, <2>1, <2>4, <2>5, <3>2
  <2>6. CASE k # "none"
    <3> DEFINE e == [k |-> k, n |-> Last]
    <3>1. e \in Tokens /\ e.k = k /\ e.n = Last /\ Unread' = Append(Unread, e)
      BY <1>3, <1>8, <1>9, <2>1, <2>6
    <3> HIDE DEF e
    <3>2. LastKind(line'.phase, k) /\ Continues(a.k, k)
      BY <2>1, <2>2, <2>6 DEF Onto, LastKind, Continues, Ending
    <3>3. Succeeds(line', a, e) /\ IsLast(line', pio', e)
      BY <1>3, <2>1, <2>2, <2>3, <3>1, <3>2 DEF Succeeds, IsLast
    <3> QED
      BY <1>7, <2>4, <3>1, <3>3
  <2> QED
    BY <2>5, <2>6
<1>11. ASSUME NEW src \in {"own", "peer"}, Starts(src) PROVE InStep(line', World')
  <2> DEFINE e == [k |-> "sof", n |-> Last + 1]
  <2>0. Last + 1 \in Nat /\ "sof" \in Kinds
    BY <1>3 DEF Kinds
  <2>1. e \in Tokens /\ e.k = "sof" /\ e.n = Last + 1 /\ Unread' = Append(Unread, e)
    BY <1>8, <1>9, <1>11, <2>0 DEF Starts
  <2> HIDE DEF e
  <2>2. Latest(line') = Last + 1
    <3>1. WireTyped'
      BY <1>3, WireType
    <3>2. line'.frames \in Seq(Frames) /\ DOMAIN line'.frames = 1..(Last + 1)
      BY <1>11, <3>1 DEF Starts, WireTyped, LineStates
    <3> QED
      BY <1>3, <3>2 DEF Latest
  <2>3. Linked(line', r) /\ IsRead(line', cd, r[1])
    BY <1>3, <1>5, <1>11 DEF Starts
  <2>4. Succeeds(line', a, e)
    <3>1. pio.sync = "sampling" => src = "peer"
      BY <1>11, FlowParts DEF Starts, Shifted
    <3>2. line.phase = "idle" /\ line'.frames[Last + 1].src = src
      BY <1>11 DEF Starts
    <3> QED
      BY <1>2, <1>3, <2>1, <3>1, <3>2 DEF Succeeds, IsLast, LastKind, Before
  <2>5. IsLast(line', pio', e)
    BY <1>11, <2>1, <2>2 DEF Starts, IsLast, LastKind
  <2> QED
    BY <1>7, <2>1, <2>3, <2>4, <2>5
<1>12. ASSUME line' = line PROVE Linked(line', r) /\ IsRead(line', cd, r[1]) /\ Latest(line') = Last
  BY <1>2, <1>3, <1>12
<1>13. CASE Senses
  <2> DEFINE e == [k |-> "idle", n |-> Last]
  <2>1. e \in Tokens /\ e.k = "idle" /\ e.n = Last /\ Unread' = Append(Unread, e)
    BY <1>3, <1>8, <1>9, <1>13 DEF Kinds
  <2> HIDE DEF e
  <2>2. a = Before /\ a.n = Last /\ a.k = "pas" /\ line' = line /\ line.phase = "idle"
        /\ pio'.sync = "count"
    BY <1>2, <1>3, <1>13 DEF Senses, IsLast, Before
  <2>3. Succeeds(line', a, e) /\ IsLast(line', pio', e)
    BY <1>3, <1>12, <2>1, <2>2 DEF Succeeds, Continues, IsLast, LastKind, Ending
  <2> QED
    BY <1>7, <1>12, <2>1, <2>2, <2>3
<1>14. CASE Signals \/ Pushes
  <2>1. Unread' = Unread /\ line' = line
    BY <1>8, <1>14 DEF Signals, Pushes
  <2>2. IsLast(line', pio', a)
    BY <1>2, <1>14, <2>1 DEF IsLast, Signals, Pushes
  <2> QED
    BY <1>6, <1>12, <2>1, <2>2
<1>15. ~Loses /\ ~Overflows
  <2>1. World.pio = pio /\ World.log = log /\ Lossless(line, World) /\ line.wraps = Wraps
        /\ line'.wraps = Wraps
    BY FlowParts DEF Unbroken
  <2> DEFINE v == [World EXCEPT !.pio = pio']
  <2>2. v.pio = pio' /\ v.log = log
    BY <2>1 DEF World
  <2> QED
    BY <1>3, <2>1, <2>2, WireLossless, FlowParts
<1> QED
  BY <1>3, <1>10, <1>11, <1>13, <1>14, <1>15, WireGoes

(* The parser reads word t of the rx fifo.                                 *)
Reads(t) ==
  /\ irq.pc = "loop" /\ "RX_DATA" \in irq.ints /\ UNCHANGED <<line, app>>
  /\ 1 \in DOMAIN Unread /\ t = Unread[1] /\ Unread' = Tail(Unread) /\ pio.fifo # <<>>
  /\ t.k # "long" /\ (t.k # "idle" => t.n \in DOMAIN line.frames)
  /\ Mid(cd.parse_state) => t.n = cd.parse_msg
  /\ t.k = "body" => \/ cd.parse_state = "HEADER"
                     \/ cd.parse_state = "DISCARD" /\ line.frames[t.n].src = "peer"
  /\ pio'.isr = pio.isr /\ pio'.fifo = Tail(pio.fifo) /\ pio'.sync = pio.sync
  /\ pio'.stall = pio.stall
  /\ pio'.txsm = pio.txsm /\ pio'.txmsg = pio.txmsg /\ pio'.flevel = pio.flevel
  /\ log'.err = log.err
  /\ pio'.irqs \in {pio.irqs, pio.irqs \cup {"TXPENDING"}}
  /\ Does(World, World', t)
  /\ irq'.mask = {}
  /\ \/ irq'.pc = "out" /\ Ints(pio') = {}
     \/ irq'.pc = "loop" /\ irq'.ints = Ints(pio') /\ irq'.slack = irq.slack

\* In step, the parser reads the field it expects, and stays in step.
LEMMA ParserReads ==
  ASSUME FlowInv, Unbroken(line), InStep(line, World), NEW again \in BOOLEAN, ProcessRx(again)
  PROVE  (\E t \in Tokens : Reads(t)) /\ InStep(line', World')
<1> DEFINE u == [World EXCEPT !.pio.fifo = Tail(pio.fifo)]
           t == Head(pio.fifo)
           v == process_rx(u, t, again)
<1>1. irq.pc = "loop" /\ "RX_DATA" \in irq.ints /\ pio.fifo # <<>> /\ irq.mask = {}
  BY FlowParts DEF QueueInv, DriverInv, HandlerInv, ProcessRx, FrameInv, Served
<1>2. t \in Tokens /\ Tail(pio.fifo) \in Seq(Tokens)
  BY <1>1, FlowParts
<1>3. /\ u \in Worlds /\ u.cd = cd /\ u.log = log /\ u.pio = [pio EXCEPT !.fifo = Tail(pio.fifo)]
  BY <1>2, FlowParts DEF Worlds, PioStates
<1>4. /\ u.pio.fifo = Tail(pio.fifo) /\ u.pio.isr = pio.isr /\ u.pio.irqs = pio.irqs
      /\ u.pio.inte = pio.inte /\ u.pio.sync = pio.sync /\ u.pio.stall = pio.stall
      /\ u.pio.txsm = pio.txsm /\ u.pio.txmsg = pio.txmsg /\ u.pio.flevel = pio.flevel
  BY <1>3, FlowParts DEF PioStates
<1>5. /\ cd' = v.cd /\ pio' = v.pio /\ log' = v.log /\ UNCHANGED <<line, app>>
      /\ irq' = IF Ints(v.pio) = {} THEN Idle ELSE [irq EXCEPT !.ints = Ints(v.pio)]
  BY DEF ProcessRx, Becomes, World
<1>6. /\ Tail(Unread) = Tail(pio.fifo) \o pio.isr /\ 1 \in DOMAIN Unread /\ Unread[1] = t
      /\ Unread # <<>>
  BY <1>1, FlowParts, JoinHead DEF Unread
<1> HIDE DEF u, t
<1>7. PICK r \in Seq(Tokens) : Thread(line, World, r)
  BY DEF InStep
<1>8. /\ r # <<>> /\ Tail(r) = Unread /\ Linked(line, r) /\ IsLast(line, pio, r[Len(r)])
      /\ IsRead(line, cd, r[1])
  BY <1>7, FlowParts DEF Thread
<1> DEFINE q == Tail(r)
<1>9. /\ q \in Seq(Tokens) /\ q[Len(q)] = r[Len(r)] /\ q[1] = r[2]
      /\ 1 \in DOMAIN r /\ 2 \in DOMAIN r /\ q = Unread /\ q # <<>> /\ r[2] = t
      /\ \A i \in DOMAIN q : i + 1 \in DOMAIN q => i + 1 \in DOMAIN r /\ i + 2 \in DOMAIN r
                                                     /\ q[i] = r[i + 1] /\ q[i + 1] = r[i + 2]
  BY <1>6, <1>8, ThreadShrinks
<1>10. r[1] \in Tokens /\ Succeeds(line, r[1], t)
  <2>1. \A i \in DOMAIN r : i + 1 \in DOMAIN r => Succeeds(line, r[i], r[i + 1])
    BY <1>8 DEF Linked
  <2> HIDE DEF q
  <2>2. 1 \in DOMAIN r /\ 1 + 1 \in DOMAIN r /\ r[1 + 1] = t
    BY <1>9
  <2>3. Succeeds(line, r[1], r[1 + 1])
    BY <2>1, <2>2
  <2> QED
    BY <1>8, <2>2, <2>3, ThreadAt
<1> HIDE DEF q
<1>11. ParserInv(u) /\ ~u.pio.stall
  BY <1>3, <1>4, FlowParts DEF ParserInv, Lossless
<1>12. Turns(u, v, t) /\ (Mid(u.cd.parse_state) => t.n = u.cd.parse_msg)
  <2>1. IsRead(line, u.cd, r[1])
    BY <1>3, <1>8
  <2> QED
    BY <1>2, <1>3, <1>10, <1>11, <2>1, ProcessRxTurns
<1> HIDE DEF v
<1>13. Parses(u, v) /\ Does(u, v, t)
  BY <1>2, <1>3, <1>11, <1>12, TurnsDo
<1>14. World' = [cd |-> v.cd, pio |-> v.pio, log |-> v.log]
  BY <1>5 DEF World
<1>15. World'.cd = v.cd /\ World'.pio = v.pio /\ World'.log = v.log
  BY <1>14
<1>16. Does(World, World', t)
  <2>1. /\ World.cd = u.cd /\ World.log = u.log /\ World.pio.inte = u.pio.inte
        /\ Echo(World) = Echo(u) /\ (Discards(World, t) <=> Discards(u, t))
    BY <1>3, <1>4, FlowParts DEF Echo, Discards
  <2>2. \A parse, report, tx, inte :
           After(World', parse, report, tx, inte) <=> After(v, parse, report, tx, inte)
    BY <1>15 DEF After
  <2>3. SameFrame(World, World') <=> SameFrame(u, v)
    BY <1>15, <2>1 DEF SameFrame
  <2> QED
    BY <1>13, <1>15, <2>1, <2>2, <2>3 DEF Does
<1>17. t.k # "long" /\ (t.k # "idle" => t.n \in DOMAIN line.frames)
  <2>1. t.k # "long"
    <3>1. Plain(pio.fifo) /\ 1 \in DOMAIN pio.fifo /\ t = pio.fifo[1]
      BY <1>1, FlowParts DEF Lossless, Unbroken, t
    <3> QED
      BY <3>1 DEF Plain
  <2> QED
    BY <1>6, <2>1, FlowParts DEF KnownIn, Passive
<1>18. /\ pio'.isr = pio.isr /\ pio'.fifo = Tail(pio.fifo) /\ pio'.sync = pio.sync
       /\ pio'.stall = pio.stall
       /\ pio'.txsm = pio.txsm /\ pio'.txmsg = pio.txmsg /\ pio'.flevel = pio.flevel
       /\ log'.err = log.err
       /\ pio'.irqs \in {pio.irqs, pio.irqs \cup {"TXPENDING"}}
  BY <1>3, <1>4, <1>5, <1>13 DEF Parses
<1>19. Unread' = Tail(Unread)
  BY <1>6, <1>18 DEF Unread
<1>20. /\ irq'.mask = {}
       /\ \/ irq'.pc = "out" /\ Ints(pio') = {}
          \/ irq'.pc = "loop" /\ irq'.ints = Ints(pio') /\ irq'.slack = irq.slack
  BY <1>1, <1>5, FlowParts DEF Idle, IrqStates
<1>21a. t.k = "body" => \/ cd.parse_state = "HEADER"
                        \/ cd.parse_state = "DISCARD" /\ line.frames[t.n].src = "peer"
  <2>1. t.k = "body" => r[1].k = "sof" /\ r[1].n = t.n
    BY <1>10 DEF Succeeds, Continues
  <2>2. cd.parse_state \in {"START", "HEADER", "CRC", "ACK", "EOF0", "EOF1", "DISCARD"}
    BY FlowParts DEF CdStates
  <2> QED
    BY <1>8, <2>1, <2>2 DEF IsRead, Ending
<1>21. Reads(t)
  BY <1>21a, <1>1, <1>3, <1>5, <1>6, <1>12, <1>16, <1>17, <1>18, <1>19, <1>20 DEF Reads
<1>22. InStep(line', World')
  <2>1. IsRead(line, cd', t)
    <3> DEFINE s == cd.parse_state
    <3>1. /\ t.k \notin Ending \/ t.k \notin {"sof", "over", "rxover"}
          /\ s = "DISCARD" /\ t.k = "sof" => t.n \in DOMAIN line.frames /\ line.frames[t.n].src = "peer"
      BY <1>8, <1>10, <1>17 DEF IsRead, Succeeds, Continues, Ending, Before
    <3>2. Mid(s) => t.n = cd.parse_msg
      BY <1>3, <1>12
    <3> QED
      BY <1>15, <1>16, <1>5, <3>1, <3>2, FlowParts DEF Does, After, SameFrame, IsRead, Discards, Mid, Ending
  <2>2. Linked(line', q)
    BY <1>5, <1>8, <1>9 DEF Linked
  <2>3. IsLast(line', pio', q[Len(q)])
    BY <1>5, <1>8, <1>9, <1>18 DEF IsLast
  <2>4. Stream(World') = Unread'
    BY <1>5, <1>15 DEF Stream, Unread
  <2>5. Thread(line', World', q)
    <3>1. World'.cd = cd' /\ World'.pio = pio' /\ line' = line
      BY <1>5, <1>15
    <3> QED
      BY <1>9, <1>19, <2>1, <2>2, <2>3, <2>4, <3>1 DEF Thread
  <2> QED
    BY <1>9, <2>5 DEF InStep
<1> QED
  BY <1>2, <1>21, <1>22

(* Until the PIO block is restarted the parser is in step with the wire.   *)
LockInv == FlowInv /\ (Unbroken(line) => InStep(line, World))

(* What a step of the node does, as long as no restart of the PIO block came. *)
NodeGoes ==
  \/ \E t \in Tokens : Reads(t)
  \/ Steady /\ \/ Enters \/ (\E flag \in SmIrqs : Reports(flag)) \/ Injects \/ Waits \/ Sends \/ Empties
               \/ Submits
  \/ UNCHANGED vars

\* Every step is one of the wire or one of those.
LEMMA NextGoes ==
  ASSUME LockInv, Unbroken(line), [Next]_vars
  PROVE  Wire \/ NodeGoes
<1>1. ASSUME NEW again \in BOOLEAN, ProcessRx(again) PROVE NodeGoes
  BY <1>1, ParserReads DEF LockInv, NodeGoes
<1>2. CASE Handler /\ ~ \E again \in BOOLEAN : ProcessRx(again)
  BY <1>2, ServiceGoes DEF LockInv, FlowInv, NodeGoes
<1>3. CASE Main
  BY <1>3, MainGoes DEF LockInv, FlowInv, NodeGoes
<1> QED
  BY <1>1, <1>2, <1>3 DEF Next, NodeGoes

\* Every step keeps LockInv.
LEMMA LockKept == LockInv /\ [Next]_vars => LockInv'
<1> SUFFICES ASSUME LockInv, [Next]_vars PROVE LockInv'
  OBVIOUS
<1>0. FlowInv /\ FlowInv' /\ (Unbroken(line) => InStep(line, World))
  BY FlowKept DEF LockInv
<1>1. World'.cd = cd' /\ World'.pio = pio'
  BY DEF World
<1>2. CASE Wire
  <2>1. WireNext /\ cd' = cd /\ World'.cd = cd /\ World'.pio = pio' /\ Stream(World') = Unread'
    BY <1>0, <1>2, WireAlone
  <2>2. Unbroken(line') => Unbroken(line)
    <3>1. World'.log = log /\ World.log = log /\ World.pio = pio /\ Lossless(line, World)
      BY <1>0, <1>2, WireAlone, FlowParts
    <3> QED
      BY <1>0, <2>1, <3>1, WireLossless, FlowParts
  <2> QED
    BY <1>0, <2>1, <2>2, WireInStep DEF LockInv
<1>3. ASSUME NEW again \in BOOLEAN, ProcessRx(again) PROVE LockInv'
  <2>1. line' = line
    BY <1>3 DEF ProcessRx
  <2> QED
    BY <1>0, <1>3, <2>1, ParserReads DEF LockInv, Unbroken
<1>4. ASSUME Steady PROVE LockInv'
  <2>1. /\ line' = line /\ pio'.fifo = pio.fifo /\ pio'.isr = pio.isr /\ pio'.sync = pio.sync
        /\ cd'.parse_state = cd.parse_state /\ cd'.parse_msg = cd.parse_msg
    BY <1>4 DEF Steady
  <2>2. World.cd = cd /\ World.pio = pio /\ Stream(World') = Stream(World)
    BY <1>1, <2>1 DEF World, Stream
  <2>3. ASSUME NEW r, Thread(line, World, r) PROVE Thread(line', World', r)
    BY <1>1, <2>1, <2>2, <2>3 DEF Thread, IsLast, IsRead
  <2>4. Unbroken(line') => InStep(line', World')
    BY <1>0, <2>1, <2>3 DEF InStep
  <2> QED
    BY <1>0, <2>4 DEF LockInv
<1>5. CASE Handler /\ ~ \E again \in BOOLEAN : ProcessRx(again)
  BY <1>0, <1>4, <1>5, ServiceGoes, FlowParts
<1>6. CASE Main
  BY <1>0, <1>4, <1>6, MainGoes, FlowParts
<1>7. CASE UNCHANGED vars
  BY <1>4, <1>7 DEF vars, Steady
<1> QED
  BY <1>2, <1>3, <1>5, <1>6, <1>7 DEF Next

\* LockInv holds when the driver has started.
LEMMA LockInit == Init => LockInv
<1> SUFFICES ASSUME Init PROVE LockInv
  OBVIOUS
<1>1. /\ line.phase = "idle" /\ line.frames = <<>> /\ pio.fifo = <<>> /\ pio.isr = <<>>
      /\ pio.sync = "sampling" /\ cd.parse_state = "DISCARD" /\ World.pio = pio /\ World.cd = cd
  BY DEF Init, PioInit, World
<1> DEFINE r == <<Before>>
<1>2. Before \in Tokens /\ Before.k = "pas" /\ Before.n = 0
  BY DEF Before, Tokens, Kinds
<1>3. /\ r \in Seq(Tokens) /\ r # <<>> /\ Tail(r) = <<>> /\ r[1] = Before /\ r[Len(r)] = Before
      /\ DOMAIN r = {1}
  BY <1>2
<1> HIDE DEF r
<1>4. Stream(World) = <<>> /\ Latest(line) = 0
  <2>1. Stream(World) = <<>> \o <<>> /\ Latest(line) = Len(<<>>)
    BY <1>1 DEF Stream, Latest
  <2>2. <<>> \o <<>> = <<>> /\ Len(<<>>) = 0
    OBVIOUS
  <2> QED
    BY <2>1, <2>2
<1>5. Linked(line, r)
  BY <1>3 DEF Linked
<1>6. Thread(line, World, r)
  BY <1>1, <1>2, <1>3, <1>4, <1>5 DEF Thread, IsLast, IsRead, Ending, Mid
<1> QED
  BY <1>3, <1>6, FlowInit DEF LockInv, InStep

-----------------------------------------------------------------------------
(* TXPENDING stays up while the driver is not idle.                        *)
Pended ==
  /\ cd.tx_state # "IDLE" /\ app.pc # "wake" => "TXPENDING" \in pio.irqs
  /\ irq.pc = "loop" /\ "TXPENDING" \in irq.ints => "TXPENDING" \in pio.irqs

(* The parser is in step, and TXPENDING is up for a message under way.     *)
PendInv == LockInv /\ (Unbroken(line) => Pended)

\* The parts of a state in which LockInv holds and nothing was lost.
LEMMA LockParts ==
  ASSUME LockInv
  PROVE  /\ FlowInv /\ FrameInv /\ QueueInv /\ WireTyped /\ WireInv(line, pio)
         /\ Shifted(line, pio) /\ Lossless(line, World) /\ Fed(line, pio)
         /\ line \in LineStates /\ pio \in PioStates /\ cd \in CdStates /\ log \in LogStates
         /\ irq \in IrqStates /\ app \in AppStates /\ World \in Worlds /\ ParserInv(World)
         /\ World.cd = cd /\ World.pio = pio /\ World.log = log
         /\ pio.fifo \in Seq(Tokens) /\ pio.isr \in Seq(Tokens)
         /\ Stream(World) = Unread /\ Unread \in Seq(Tokens) /\ KnownIn(line, Unread)
         /\ Registers(World) /\ Served /\ HandlerInv
         /\ Unbroken(line) => InStep(line, World)
<1>1. FlowInv /\ FrameInv /\ (Unbroken(line) => InStep(line, World))
  BY DEF LockInv, FlowInv
<1>2. HandlerInv
  BY <1>1 DEF FrameInv, QueueInv, DriverInv
<1>3. Registers(World) /\ Served
  BY <1>1 DEF FrameInv
<1> QED
  BY <1>1, <1>2, <1>3, FlowParts

\* A step of the wire after which nothing was lost.
LEMMA WireWhole ==
  ASSUME LockInv, Wire, Unbroken(line')
  PROVE  /\ Unbroken(line) /\ WireNext /\ UNCHANGED <<cd, app, log>>
         /\ irq'.pc = irq.pc /\ irq'.ints = irq.ints /\ irq'.mask = irq.mask
         /\ pio'.inte = pio.inte
         /\ \/ FrameStep /\ \E k \in Kinds \cup {"none"} : Advances(k)
            \/ \E src \in {"own", "peer"} : Starts(src)
            \/ Senses \/ Signals \/ Pushes
<1>1. /\ WireNext /\ UNCHANGED <<cd, app, log>>
      /\ irq'.pc = irq.pc /\ irq'.ints = irq.ints /\ irq'.mask = irq.mask
  BY WireAlone, LockParts
<1>2. pio'.inte = pio.inte
  BY <1>1, WireKeeps, LockParts
<1>3. Unbroken(line) /\ ~Loses /\ ~Overflows
  <2>1. /\ World'.log = log /\ World.log = log /\ World.pio = pio /\ World'.pio = pio'
        /\ Lossless(line, World)
    BY WireAlone, LockParts
  <2> QED
    BY <1>1, <2>1, WireLossless, LockParts DEF Unbroken
<1> QED
  BY <1>1, <1>2, <1>3, WireGoes, LockParts

\* What the steps of the node but process_rx leave alone.
LEMMA SteadyKeeps ==
  ASSUME LockInv, Steady
  PROVE  /\ line' = line /\ Unread' = Unread /\ Stream(World') = Unread
         /\ World'.cd = cd' /\ World'.pio = pio' /\ World'.log = log'
BY DEF Steady, Unread, Stream, World

\* The transmit state after a word.
LEMMA ReadsTx ==
  ASSUME NEW t, Reads(t)
  PROVE  /\ cd'.tx_state = cd.tx_state \/ (cd'.tx_state = "CONFIRM_TX" /\ cd.tx_state = "QUEUED")
         /\ World'.cd = cd' /\ World'.pio = pio' /\ World'.log = log'
         /\ World.cd = cd /\ World.pio = pio /\ World.log = log
         /\ Stream(World') = Unread'
<1>1. /\ World'.cd = cd' /\ World'.pio = pio' /\ World'.log = log'
      /\ World.cd = cd /\ World.pio = pio /\ World.log = log
  BY DEF World
<1>2. Stream(World') = Unread'
  BY <1>1 DEF Stream, Unread
<1> QED
  BY <1>1, <1>2 DEF Reads, Does, After, Echo

\* Every step keeps PendInv.
LEMMA PendKept == PendInv /\ [Next]_vars => PendInv'
<1> SUFFICES ASSUME PendInv, [Next]_vars, Unbroken(line') PROVE Pended'
  BY LockKept DEF PendInv
<1>0. LockInv
  BY DEF PendInv
<1>1. CASE Wire
  <2>1. Unbroken(line) /\ Pended
    BY <1>0, <1>1, WireWhole DEF PendInv
  <2>2. "TXPENDING" \in pio.irqs => "TXPENDING" \in pio'.irqs
    BY <1>0, <1>1, WireKeeps, WireWhole, LockParts
  <2>3. cd' = cd /\ app' = app /\ irq'.pc = irq.pc /\ irq'.ints = irq.ints
    BY <1>0, <1>1, WireWhole
  <2> QED
    BY <2>1, <2>2, <2>3 DEF Pended
<1>2. CASE ~Wire
  <2>1. Unbroken(line) => NodeGoes
    BY <1>0, <1>2, NextGoes
  <2>2. line' = line
    <3>1. CASE Handler
      BY <3>1, <1>0, ServiceGoes, LockParts DEF ProcessRx, Steady
    <3>2. CASE Main
      BY <3>2, <1>0, MainGoes, LockParts DEF Steady
    <3> QED
      BY <1>2, <3>1, <3>2 DEF Next, vars
  <2>3. Unbroken(line) /\ NodeGoes /\ Pended
    BY <2>1, <2>2 DEF PendInv, Unbroken
  <2>4. ASSUME NEW t, Reads(t) PROVE Pended'
    <3>1. /\ app' = app /\ pio'.irqs \in {pio.irqs, pio.irqs \cup {"TXPENDING"}}
          /\ irq'.pc = "loop" => irq'.ints = Ints(pio')
      BY <2>4 DEF Reads
    <3>2. "TXPENDING" \in Ints(pio') => "TXPENDING" \in pio'.irqs
      BY DEF Ints, Intr
    <3>3. cd'.tx_state # "IDLE" => cd.tx_state # "IDLE"
      BY <2>4, ReadsTx
    <3> QED
      BY <2>3, <3>1, <3>2, <3>3 DEF Pended
  <2>5. CASE Enters
    <3>1. "TXPENDING" \in Ints(pio) => "TXPENDING" \in pio.irqs
      BY DEF Ints, Intr
    <3> QED
      BY <2>3, <2>5, <3>1 DEF Pended, Enters, SameTx
  <2>6. ASSUME NEW flag, Reports(flag) PROVE Pended'
    BY <2>3, <2>6 DEF Pended, Reports, SameTx
  <2>7. CASE Injects
    BY <2>3, <2>7 DEF Pended, Injects, Serves
  <2>8. CASE Waits
    BY <2>3, <2>8 DEF Pended, Waits, SameTx
  <2>9. CASE Sends
    <3>1. cd.tx_state = "IDLE" /\ app.pc # "wake" /\ irq.pc = "sched" => "TXPENDING" \in pio.irqs
      BY <1>0, <2>9, LockParts DEF Sends, HandlerInv, Awake
    <3> QED
      BY <2>3, <2>9, <3>1 DEF Pended, Sends
  <2>10. CASE Empties
    BY <2>3, <2>10 DEF Pended, Empties
  <2>11. CASE Submits
    <3>1. "TXPENDING" \in pio.irqs => "TXPENDING" \in pio'.irqs
      BY <2>11 DEF Submits
    <3> QED
      BY <2>3, <2>11, <3>1 DEF Pended, Submits, SameTx
  <2>12. CASE UNCHANGED vars
    BY <2>3, <2>12 DEF Pended, vars
  <2> QED
    BY <2>3, <2>4, <2>5, <2>6, <2>7, <2>8, <2>9, <2>10, <2>11, <2>12 DEF NodeGoes
<1> QED
  BY <1>1, <1>2

\* A step that is not one of the wire leaves the line alone.
LEMMA NodeAlone ==
  ASSUME LockInv, [Next]_vars, ~Wire
  PROVE  /\ line' = line
         /\ Unbroken(line') => Unbroken(line) /\ NodeGoes
<1>1. Unbroken(line) => NodeGoes
  BY NextGoes
<1>2. CASE Handler
  BY <1>1, <1>2, ServiceGoes, LockParts DEF ProcessRx, Steady, Unbroken
<1>3. CASE Main
  BY <1>1, <1>3, MainGoes, LockParts DEF Steady, Unbroken
<1> QED
  BY <1>1, <1>2, <1>3 DEF Next, vars, Unbroken

-----------------------------------------------------------------------------
(* What the driver may still wait for.                                     *)

(* A frame has started that the parser will see.                           *)
Coming ==
  \E i \in DOMAIN Unread :
    /\ Unread[i].k = "sof"
    /\ cd.parse_state = "DISCARD" => \E j \in DOMAIN Unread : j < i /\ Unread[j].k \in Ending

(* The "tx" machine waits for the line, or the parser will ask for MAYTX.  *)
Ready == pio.txsm = "armed" \/ Coming

(* The line is idle and known to be.                                       *)
Resting == line.phase = "idle" /\ pio.sync = "signalled" /\ pio.fifo = <<>>

(* The parser has still to read the body of a frame this node sent.        *)
BodyDue ==
  \E m \in DOMAIN line.frames :
    /\ line.frames[m].src = "own" /\ line.frames[m].msg = pio.txmsg
    /\ \/ \E i \in DOMAIN Unread : Unread[i].k = "body" /\ Unread[i].n = m
       \/ m = Last /\ line.phase = "sof" /\ pio.txsm = "sending"

(* What was given to the "tx" machine is waiting there, on the wire, or on *)
(* its way to the parser, unless the machine shows a conflict.             *)
Wakes ==
  cd.tx_state = "QUEUED" =>
    /\ pio.txsm \in {"armed", "sending", "conflict", "drained"}
    /\ pio.txsm \in {"sending", "drained"} => BodyDue

(* Besides, a message handed to the "tx" machine is found there or coming. *)
HandInv == PendInv /\ (Unbroken(line) => Wakes)

\* What the wire adds to the fields that wait for the parser.
LEMMA WireAdds ==
  ASSUME LockInv
  PROVE  /\ \A e \in Tokens : Unread' = Append(Unread, e) =>
              /\ DOMAIN Unread \subseteq DOMAIN Unread'
              /\ \A i \in DOMAIN Unread : Unread'[i] = Unread[i] /\ i < Len(Unread) + 1
              /\ Len(Unread) + 1 \in DOMAIN Unread' /\ Unread'[Len(Unread) + 1] = e
         /\ \A k \in Kinds, n \in Nat :
              pio'.fifo = pio.fifo /\ pio'.isr = Sampled(k, n) =>
                /\ DOMAIN Unread \subseteq DOMAIN Unread'
                /\ \A i \in DOMAIN Unread : Unread'[i] = Unread[i] /\ i < Len(Unread) + 1
                /\ Len(Unread) + 1 \in DOMAIN Unread'
                /\ Unread'[Len(Unread) + 1].k = k /\ Unread'[Len(Unread) + 1].n = n
<1>1. Unread \in Seq(Tokens) /\ WireTyped
  BY LockParts
<1>2. ASSUME NEW e \in Tokens, Unread' = Append(Unread, e)
      PROVE  /\ DOMAIN Unread \subseteq DOMAIN Unread'
             /\ \A i \in DOMAIN Unread : Unread'[i] = Unread[i] /\ i < Len(Unread) + 1
             /\ Len(Unread) + 1 \in DOMAIN Unread' /\ Unread'[Len(Unread) + 1] = e
  <2> DEFINE s == Unread
             q == Unread'
  <2>1. s \in Seq(Tokens) /\ q = Append(s, e)
    BY <1>1, <1>2
  <2> HIDE DEF s, q
  <2>2. /\ DOMAIN s \subseteq DOMAIN q
        /\ \A i \in DOMAIN s : q[i] = s[i] /\ i < Len(s) + 1
        /\ Len(s) + 1 \in DOMAIN q /\ q[Len(s) + 1] = e
    BY <2>1
  <2> QED
    BY <2>2 DEF s, q
<1>3. ASSUME NEW k \in Kinds, NEW n \in Nat, pio'.fifo = pio.fifo, pio'.isr = Sampled(k, n)
      PROVE  /\ DOMAIN Unread \subseteq DOMAIN Unread'
             /\ \A i \in DOMAIN Unread : Unread'[i] = Unread[i] /\ i < Len(Unread) + 1
             /\ Len(Unread) + 1 \in DOMAIN Unread'
             /\ Unread'[Len(Unread) + 1].k = k /\ Unread'[Len(Unread) + 1].n = n
  <2> DEFINE e == [k |-> k, n |-> n]
  <2>1. e \in Tokens /\ e.k = k /\ e.n = n
    BY DEF Tokens
  <2>2. Unread' = Append(Unread, e)
    BY <1>1, <1>3, UnreadGoes
  <2> HIDE DEF e
  <2> QED
    BY <1>2, <2>1, <2>2
<1> QED
  BY <1>2, <1>3

\* A step of the wire that loses nothing takes no field back.
LEMMA WireKeepsUnread ==
  ASSUME LockInv, Wire, Unbroken(line')
  PROVE  /\ DOMAIN Unread \subseteq DOMAIN Unread'
         /\ \A i \in DOMAIN Unread : Unread'[i] = Unread[i]
<1> DEFINE Goal == /\ DOMAIN Unread \subseteq DOMAIN Unread'
                   /\ \A i \in DOMAIN Unread : Unread'[i] = Unread[i]
<1>0. WireTyped /\ Last \in Nat
  BY LockParts, WireParts
<1>1. ASSUME NEW k \in Kinds \cup {"none"}, Advances(k) PROVE Goal
  <2>1. pio'.fifo = pio.fifo /\ pio'.isr = (IF k = "none" THEN pio.isr ELSE Sampled(k, Last))
    BY <1>1 DEF Advances
  <2>2. CASE k = "none"
    BY <1>0, <2>1, <2>2, UnreadGoes
  <2>3. CASE k # "none"
    BY <1>0, <2>1, <2>3, WireAdds
  <2> QED
    BY <2>2, <2>3
<1>2. ASSUME NEW src, Starts(src) PROVE Goal
  <2>1. "sof" \in Kinds /\ Last + 1 \in Nat
    BY <1>0 DEF Kinds
  <2> QED
    BY <1>2, <2>1, WireAdds DEF Starts
<1>3. CASE Senses
  <2>1. [k |-> "idle", n |-> Last] \in Tokens
    BY <1>0 DEF Tokens, Kinds
  <2> QED
    BY <1>0, <1>3, <2>1, UnreadGoes, WireAdds
<1>4. CASE Signals
  BY <1>0, <1>4, UnreadGoes DEF Signals
<1>5. CASE Pushes
  BY <1>0, <1>5, UnreadGoes
<1> QED
  BY <1>1, <1>2, <1>3, <1>4, <1>5, WireWhole

\* A step of the wire leaves the message where Wakes says.
LEMMA WireWakes ==
  ASSUME HandInv, Wire, Unbroken(line'), LockInv'
  PROVE  Wakes'
<1>0. /\ LockInv /\ Unbroken(line) /\ Wakes /\ cd' = cd /\ WireTyped
      /\ Last \in Nat /\ DOMAIN line.frames = 1..Last /\ Last = Len(line.frames)
  BY WireWhole, LockParts, WireParts DEF HandInv, PendInv, Latest
<1>1. SUFFICES ASSUME cd.tx_state = "QUEUED"
               PROVE  /\ pio'.txsm \in {"armed", "sending", "conflict", "drained"}
                      /\ pio'.txsm \in {"sending", "drained"} => BodyDue'
  BY <1>0 DEF Wakes
<1>2. /\ pio.txsm \in {"armed", "sending", "conflict", "drained"}
      /\ pio.txsm \in {"sending", "drained"} => BodyDue
  BY <1>0, <1>1 DEF Wakes
<1>3. /\ DOMAIN Unread \subseteq DOMAIN Unread'
      /\ \A i \in DOMAIN Unread : Unread'[i] = Unread[i]
  BY <1>0, WireKeepsUnread
<1>4. ASSUME NEW m \in DOMAIN line.frames, line.frames[m].src = "own", line.frames[m].msg = pio.txmsg,
             m \in DOMAIN line'.frames, line'.frames[m].src = "own",
             line'.frames[m].msg = line.frames[m].msg, pio'.txmsg = pio.txmsg,
             NEW i \in DOMAIN Unread, Unread[i].k = "body", Unread[i].n = m
      PROVE  BodyDue'
  BY <1>3, <1>4 DEF BodyDue
<1>5. ASSUME NEW k \in Kinds \cup {"none"}, Advances(k)
      PROVE  /\ pio'.txsm \in {"armed", "sending", "conflict", "drained"}
             /\ pio'.txsm \in {"sending", "drained"} => BodyDue'
  <2>1. /\ TxGoes /\ FramesGo(k) /\ pio'.txmsg = pio.txmsg /\ Onto(line.phase, k, line'.phase)
        /\ pio'.isr = (IF k = "none" THEN pio.isr ELSE Sampled(k, Last)) /\ pio'.fifo = pio.fifo
        /\ line.phase = "sof" /\ Frame.src = "own" /\ k \notin Flags => pio.txsm = "sending" /\ k = "body"
        /\ k \in Flags => pio'.txsm \notin {"sending", "acking"}
    BY <1>5 DEF Advances
  <2>2. pio'.txsm \in {"armed", "sending", "conflict", "drained"}
    BY <1>2, <2>1 DEF TxGoes
  <2>3. ASSUME pio'.txsm \in {"sending", "drained"} PROVE BodyDue'
    <3>1. pio.txsm \in {"sending", "drained"}
      BY <1>2, <2>1, <2>3 DEF TxGoes
    <3>2. PICK m \in DOMAIN line.frames :
            /\ line.frames[m].src = "own" /\ line.frames[m].msg = pio.txmsg
            /\ \/ \E i \in DOMAIN Unread : Unread[i].k = "body" /\ Unread[i].n = m
               \/ m = Last /\ line.phase = "sof" /\ pio.txsm = "sending"
      BY <1>2, <3>1 DEF BodyDue
    <3>3. /\ m \in DOMAIN line'.frames /\ line'.frames[m].src = "own"
          /\ line'.frames[m].msg = line.frames[m].msg
      BY <2>1, <3>2 DEF FramesGo
    <3>4. CASE \E i \in DOMAIN Unread : Unread[i].k = "body" /\ Unread[i].n = m
      BY <1>4, <2>1, <3>2, <3>3, <3>4
    <3>5. CASE m = Last /\ line.phase = "sof" /\ pio.txsm = "sending"
      <4>1. k \in {"body", "rsv", "err", "pas"} /\ line'.phase \in {"body", "flag"}
        BY <2>1, <3>5 DEF Onto
      <4>2. k \notin Flags
        BY <2>1, <2>3, <3>5, <4>1 DEF TxGoes
      <4>3. k = "body"
        BY <2>1, <3>2, <3>5, <4>2 DEF Frame
      <4>4. /\ Len(Unread) + 1 \in DOMAIN Unread'
            /\ Unread'[Len(Unread) + 1].k = "body" /\ Unread'[Len(Unread) + 1].n = Last
        <5>1. "body" \in Kinds
          BY DEF Kinds
        <5> QED
          BY <1>0, <2>1, <4>3, <5>1, WireAdds
      <4> QED
        BY <2>1, <3>2, <3>3, <3>5, <4>4 DEF BodyDue
    <3> QED
      BY <3>2, <3>4, <3>5
  <2> QED
    BY <2>2, <2>3
<1>6. ASSUME NEW src \in {"own", "peer"}, Starts(src)
      PROVE  /\ pio'.txsm \in {"armed", "sending", "conflict", "drained"}
             /\ pio'.txsm \in {"sending", "drained"} => BodyDue'
  <2>1. /\ line.phase = "idle" /\ line'.phase = "sof" /\ DOMAIN line'.frames = 1..(Last + 1)
        /\ \A n \in DOMAIN line.frames : line'.frames[n] = line.frames[n]
        /\ line'.frames[Last + 1].src = src /\ pio'.txmsg = pio.txmsg
        /\ src = "own" => pio'.txsm = "sending" /\ line'.frames[Last + 1].msg = pio.txmsg
        /\ src = "peer" => pio'.txsm = pio.txsm \/ pio'.txsm = "conflict"
    BY <1>6 DEF Starts
  <2>2. Last' = Last + 1
    <3>1. line'.frames \in Seq(Frames)
      BY <1>0, WireType, WireWhole DEF WireTyped, LineStates
    <3> QED
      BY <1>0, <2>1, <3>1 DEF Last
  <2>3. CASE src = "own"
    BY <1>0, <2>1, <2>2, <2>3 DEF BodyDue
  <2>4. CASE src = "peer"
    <3>1. ASSUME pio'.txsm \in {"sending", "drained"} PROVE BodyDue'
      <4>1. PICK m \in DOMAIN line.frames :
            /\ line.frames[m].src = "own" /\ line.frames[m].msg = pio.txmsg
            /\ \E i \in DOMAIN Unread : Unread[i].k = "body" /\ Unread[i].n = m
        BY <1>2, <2>1, <2>4, <3>1 DEF BodyDue
      <4>2. m \in DOMAIN line'.frames /\ line'.frames[m] = line.frames[m]
        BY <1>0, <2>1
      <4> QED
        BY <1>4, <2>1, <4>1, <4>2
    <3> QED
      BY <1>2, <2>1, <2>4, <3>1
  <2> QED
    BY <2>3, <2>4
<1>7. ASSUME line' = line, pio'.txsm = pio.txsm, pio'.txmsg = pio.txmsg
      PROVE  /\ pio'.txsm \in {"armed", "sending", "conflict", "drained"}
             /\ pio'.txsm \in {"sending", "drained"} => BodyDue'
  BY <1>2, <1>3, <1>7 DEF BodyDue, Last
<1> QED
  BY <1>0, <1>5, <1>6, <1>7, WireWhole DEF Senses, Signals, Pushes

\* A word read leaves the message where Wakes says, or confirms that it was sent.
LEMMA ReadsWakes ==
  ASSUME HandInv, Unbroken(line), NEW t \in Tokens, Reads(t)
  PROVE  Wakes'
<1>0. LockInv /\ Wakes
  BY DEF HandInv, PendInv
<1>1. /\ line' = line /\ pio'.txsm = pio.txsm /\ pio'.txmsg = pio.txmsg
      /\ 1 \in DOMAIN Unread /\ t = Unread[1] /\ Unread' = Tail(Unread)
      /\ Unread \in Seq(Tokens) /\ Does(World, World', t)
      /\ t.k = "body" => \/ cd.parse_state = "HEADER"
                         \/ cd.parse_state = "DISCARD" /\ line.frames[t.n].src = "peer"
      /\ Mid(cd.parse_state) => t.n = cd.parse_msg
  BY <1>0, LockParts DEF Reads
<1>2. SUFFICES ASSUME cd'.tx_state = "QUEUED", cd.tx_state = "QUEUED"
               PROVE  /\ pio'.txsm \in {"armed", "sending", "conflict", "drained"}
                      /\ pio'.txsm \in {"sending", "drained"} => BodyDue'
  BY ReadsTx DEF Wakes
<1>3. SUFFICES ASSUME BodyDue PROVE BodyDue'
  BY <1>0, <1>1, <1>2 DEF Wakes
<1>4. PICK m \in DOMAIN line.frames :
            /\ line.frames[m].src = "own" /\ line.frames[m].msg = pio.txmsg
            /\ \/ \E i \in DOMAIN Unread : Unread[i].k = "body" /\ Unread[i].n = m
               \/ m = Last /\ line.phase = "sof" /\ pio.txsm = "sending"
  BY <1>3 DEF BodyDue
<1>5. CASE m = Last /\ line.phase = "sof" /\ pio.txsm = "sending"
  BY <1>1, <1>4, <1>5 DEF BodyDue, Last
<1>6. ASSUME NEW i \in DOMAIN Unread, Unread[i].k = "body", Unread[i].n = m PROVE BodyDue'
  <2>1. i # 1
    <3> SUFFICES ASSUME i = 1 PROVE FALSE
      OBVIOUS
    <3>1. t.k = "body" /\ t.n = m /\ cd.parse_state = "HEADER" /\ cd.parse_msg = m
      BY <1>1, <1>4, <1>6 DEF Mid
    <3>2. pio.txmsg = SlotMsg(cd)
      BY <1>0, <1>2, LockParts DEF QueueInv, Sent
    <3>3. World.cd = cd /\ World'.cd = cd'
      BY DEF World
    <3>4. Echo(World)
      BY <1>2, <1>4, <3>1, <3>2, <3>3 DEF Echo
    <3> QED
      BY <1>1, <1>2, <3>1, <3>3, <3>4 DEF Does, Discards, After
  <2>2. i - 1 \in DOMAIN Unread' /\ Unread'[i - 1] = Unread[i]
    <3> DEFINE s == Unread
               q == Unread'
    <3>1. s \in Seq(Tokens) /\ q = Tail(s) /\ i \in DOMAIN s /\ 1 \in DOMAIN s
      BY <1>1, <1>6
    <3> HIDE DEF s, q
    <3>2. i - 1 \in DOMAIN q /\ q[i - 1] = s[i]
      BY <2>1, <3>1
    <3> QED
      BY <3>2 DEF s, q
  <2> QED
    BY <1>1, <1>4, <1>6, <2>2 DEF BodyDue
<1> QED
  BY <1>4, <1>5, <1>6

\* Every step keeps HandInv.
LEMMA HandKept == HandInv /\ [Next]_vars => HandInv'
<1> SUFFICES ASSUME HandInv, [Next]_vars, Unbroken(line') PROVE Wakes'
  BY PendKept DEF HandInv
<1>0. LockInv /\ LockInv'
  BY LockKept DEF HandInv, PendInv
<1>1. CASE Wire
  BY <1>0, <1>1, WireWakes
<1>2. CASE ~Wire
  <2>1. Unbroken(line) /\ NodeGoes /\ line' = line /\ Wakes
    BY <1>0, <1>2, NodeAlone DEF HandInv
  <2>2. ASSUME Steady, SameTx PROVE Wakes'
    <3>1. line' = line /\ Unread' = Unread
      BY <1>0, <2>2, SteadyKeeps
    <3> QED
      BY <2>1, <2>2, <3>1 DEF Wakes, BodyDue, Last, SameTx
  <2>3. CASE Sends
    BY <2>3 DEF Sends, Wakes
  <2>4. CASE Empties
    BY <2>4 DEF Empties, Wakes
  <2>5. CASE Injects
    BY <2>5 DEF Injects, Wakes
  <2>6. CASE UNCHANGED vars
    BY <2>1, <2>6 DEF Wakes, BodyDue, Last, vars, Unread
  <2> QED
    BY <2>1, <2>2, <2>3, <2>4, <2>5, <2>6, ReadsWakes
       DEF NodeGoes, Enters, Reports, Waits, Submits
<1> QED
  BY <1>1, <1>2

\* HandInv holds when the driver has started.
LEMMA HandInit == Init => HandInv
<1> SUFFICES ASSUME Init PROVE HandInv
  OBVIOUS
<1>1. cd.tx_state = "IDLE" /\ irq.pc = "out"
  BY DEF Init, Idle
<1>2. Pended /\ Wakes
  BY <1>1 DEF Pended, Wakes
<1> QED
  BY <1>2, LockInit DEF HandInv, PendInv

-----------------------------------------------------------------------------
(* The masks: when the driver asks neither for MAYTX nor for TXPENDING.    *)

(* The mask of the handler between two words.                              *)
Watches ==
  /\ "MAYTX" \notin pio.inte /\ "TXPENDING" \notin pio.inte => cd.tx_state = "QUEUED" /\ Ready
  /\ cd.tx_state = "QUEUED" =>
       /\ "MATCHED" \in pio.inte => Ready
       /\ ("MAYTX" \notin pio.inte /\ "TXPENDING" \in pio.inte => cd.parse_state = "START")
  /\ cd.parse_state = "HEADER" => pio.inte = {"MAYTX", "RX_DATA"}

(* The handler on its way from one mask to the next.                       *)
Turn ==
  /\ irq.pc \in {"out", "loop"} => Watches
  /\ irq.pc = "loop" /\ "RX_DATA" \notin irq.ints /\ "MAYTX" \in irq.ints =>
       /\ Resting \/ Coming
       /\ cd.parse_state \notin {"HEADER", "CRC", "ACK"}
  /\ irq.pc \notin {"out", "loop"} => cd.parse_state # "HEADER"
  /\ irq.pc = "sched" /\ cd.tx_state = "QUEUED" =>
       /\ "MATCHED" \in irq.mask => Ready
       /\ ("MAYTX" \notin irq.mask => Ready \/ Resting \/ cd.parse_state = "START")

(* Besides, the mask of the handler has a flag that will be raised.        *)
WakeInv == HandInv /\ (Unbroken(line) => Turn)

\* The last field parsed and those to come.
LEMMA InThread ==
  ASSUME LockInv, Unbroken(line)
  PROVE  \E r \in Seq(Tokens) :
           /\ r # <<>> /\ Tail(r) = Unread /\ Linked(line, r)
           /\ IsLast(line, pio, r[Len(r)]) /\ IsRead(line, cd, r[1])
           /\ r[1] \in Tokens /\ r[Len(r)] \in Tokens
           /\ Unread = <<>> => r[Len(r)] = r[1]
           /\ Unread # <<>> => /\ 1 \in DOMAIN Unread /\ Succeeds(line, r[1], Unread[1])
                               /\ Len(Unread) \in DOMAIN Unread /\ Unread[Len(Unread)] = r[Len(r)]
<1>1. PICK r \in Seq(Tokens) : Thread(line, World, r)
  BY LockParts DEF InStep
<1>2. /\ r # <<>> /\ Tail(r) = Unread /\ Linked(line, r)
      /\ IsLast(line, pio, r[Len(r)]) /\ IsRead(line, cd, r[1])
  BY <1>1, LockParts DEF Thread
<1>3. r[1] \in Tokens /\ r[Len(r)] \in Tokens
  BY <1>2, ThreadAt
<1> DEFINE s == Unread
<1>4. Tail(r) = s
  BY <1>2
<1> HIDE DEF s
<1>5. /\ s = <<>> => r[Len(r)] = r[1]
      /\ s # <<>> => /\ 1 \in DOMAIN s /\ 1 \in DOMAIN r /\ 1 + 1 \in DOMAIN r /\ r[1 + 1] = s[1]
                     /\ Len(s) \in DOMAIN s /\ s[Len(s)] = r[Len(r)]
  BY <1>2, <1>4
<1>6. s # <<>> => Succeeds(line, r[1], s[1])
  <2>1. \A i \in DOMAIN r : i + 1 \in DOMAIN r => Succeeds(line, r[i], r[i + 1])
    BY <1>2 DEF Linked
  <2>2. ASSUME s # <<>> PROVE Succeeds(line, r[1], s[1])
    <3>1. 1 \in DOMAIN r /\ 1 + 1 \in DOMAIN r /\ r[1 + 1] = s[1]
      BY <1>5, <2>2
    <3>2. Succeeds(line, r[1], r[1 + 1])
      BY <2>1, <3>1
    <3> QED
      BY <3>1, <3>2
  <2> QED
    BY <2>2
<1> QED
  BY <1>2, <1>3, <1>5, <1>6 DEF s

\* While "sync" signals an idle line and all words are parsed, what is left
\* in the shift register belongs to the end of a frame.
LEMMA LineRests ==
  ASSUME LockInv, Unbroken(line), "MAYTX" \in Ints(pio), "RX_DATA" \notin Ints(pio)
  PROVE  /\ Resting
         /\ \A i \in DOMAIN Unread : Unread[i].k \in {"eof0", "eof1", "idle"}
<1>1. line.phase = "idle" /\ pio.sync = "signalled"
  <2>1. "MAYTX" \in pio.irqs /\ pio.sync # "wrapped"
    BY LockParts DEF Ints, Intr, Lossless, Unbroken
  <2> QED
    BY <2>1, LockParts DEF WireInv, Shifted, PioStates
<1>2. pio.fifo = <<>>
  BY LockParts DEF Ints, Intr, Registers
<1>3. Unread = pio.isr
  <2>1. \A s \in Seq(Tokens) : <<>> \o s = s
    OBVIOUS
  <2> QED
    BY <1>2, <2>1, LockParts DEF Unread
<1> QED
  BY <1>1, <1>2, <1>3, LockParts DEF Resting, Shifted

\* Then the parser is not in the middle of a frame that has no ack yet.
LEMMA LineParsed ==
  LockInv /\ Unbroken(line) /\ "MAYTX" \in Ints(pio) /\ "RX_DATA" \notin Ints(pio)
  => Resting /\ cd.parse_state \notin {"HEADER", "CRC", "ACK"}
<1> SUFFICES ASSUME LockInv, Unbroken(line), "MAYTX" \in Ints(pio), "RX_DATA" \notin Ints(pio),
                    cd.parse_state \in {"HEADER", "CRC", "ACK"}
             PROVE  FALSE
  BY LineRests
<1>1. PICK r \in Seq(Tokens) :
           /\ IsLast(line, pio, r[Len(r)]) /\ IsRead(line, cd, r[1])
           /\ Unread = <<>> => r[Len(r)] = r[1]
           /\ Unread # <<>> => 1 \in DOMAIN Unread /\ Succeeds(line, r[1], Unread[1])
  BY InThread
<1>2. /\ line.phase = "idle" /\ pio.sync = "signalled"
      /\ \A i \in DOMAIN Unread : Unread[i].k \in {"eof0", "eof1", "idle"}
  BY LineRests DEF Resting
<1>3. r[1].k \in {"sof", "body", "crc"}
  BY <1>1 DEF IsRead
<1>4. Unread # <<>>
  BY <1>1, <1>2, <1>3 DEF IsLast, LastKind, Ending
<1> QED
  BY <1>1, <1>2, <1>3, <1>4 DEF Succeeds, Continues

\* The parser sees a frame that starts on a line that "sync" signalled idle.
LEMMA StartComes ==
  ASSUME LockInv, Unbroken(line), NEW src \in {"own", "peer"}, Starts(src),
         "MAYTX" \in pio.irqs, cd' = cd
  PROVE  Coming'
<1>1. PICK r \in Seq(Tokens) :
           /\ IsLast(line, pio, r[Len(r)]) /\ IsRead(line, cd, r[1])
           /\ Unread = <<>> => r[Len(r)] = r[1]
           /\ Unread # <<>> => Len(Unread) \in DOMAIN Unread /\ Unread[Len(Unread)] = r[Len(r)]
  BY InThread
<1>2. /\ DOMAIN Unread \subseteq DOMAIN Unread'
      /\ \A i \in DOMAIN Unread : Unread'[i] = Unread[i] /\ i < Len(Unread) + 1
      /\ Len(Unread) + 1 \in DOMAIN Unread' /\ Unread'[Len(Unread) + 1].k = "sof"
  <2>1. "sof" \in Kinds /\ Last + 1 \in Nat
    BY LockParts, WireParts DEF Kinds
  <2> QED
    BY <2>1, WireAdds DEF Starts
<1>3. r[Len(r)].k \in Ending
  BY <1>1, LockParts DEF Shifted, IsLast, LastKind, Starts
<1>4. cd.parse_state = "DISCARD" => Unread # <<>>
  BY <1>1, <1>3 DEF IsRead
<1> QED
  BY <1>1, <1>2, <1>3, <1>4 DEF Coming

\* Between frames the next field for the parser is a start of frame.
LEMMA NextIsStart ==
  ASSUME LockInv, Unbroken(line), cd.parse_state = "START", Unread # <<>>
  PROVE  Coming
<1>1. PICK r \in Seq(Tokens) :
           /\ IsRead(line, cd, r[1])
           /\ 1 \in DOMAIN Unread /\ Succeeds(line, r[1], Unread[1])
  BY InThread
<1>2. r[1].k \in Ending
  BY <1>1 DEF IsRead
<1>3. Unread[1].k = "sof"
  BY <1>1, <1>2 DEF Succeeds, Continues, Ending
<1> QED
  BY <1>1, <1>3 DEF Coming

\* A message that the driver does not retry is ready.
LEMMA BusyReady ==
  ASSUME HandInv, Unbroken(line), Busy, Resting \/ cd.parse_state = "START"
  PROVE  Ready
<1>0. LockInv /\ Wakes /\ cd.tx_state = "QUEUED" /\ ~pio_tx_did_fail(pio)
  BY DEF HandInv, PendInv, Busy
<1>1. /\ pio.txsm \in {"armed", "sending", "conflict", "drained"}
      /\ pio.txsm \in {"sending", "drained"} => BodyDue
  BY <1>0 DEF Wakes
<1>2. Unread = <<>> => pio.fifo = <<>>
  <2>1. \A a, b \in Seq(Tokens) : a \o b = <<>> => a = <<>>
    OBVIOUS
  <2> QED
    BY <1>0, <2>1, LockParts DEF Unread
<1>3. CASE Resting
  <2>1. pio.txsm # "conflict"
    BY <1>0, <1>3 DEF Resting, pio_tx_did_fail
  <2>2. Unread = pio.isr
    <3>1. \A s \in Seq(Tokens) : <<>> \o s = s
      OBVIOUS
    <3> QED
      BY <1>0, <1>3, <3>1, LockParts DEF Unread, Resting
  <2>3. ~BodyDue
    BY <1>0, <1>3, <2>2, LockParts DEF BodyDue, Shifted, Resting
  <2> QED
    BY <1>1, <2>1, <2>3 DEF Ready
<1>4. CASE cd.parse_state = "START"
  <2>1. CASE Unread # <<>>
    BY <1>0, <1>4, <2>1, NextIsStart DEF Ready
  <2>2. CASE Unread = <<>>
    <3>1. pio.txsm # "conflict"
      BY <1>0, <1>2, <2>2 DEF pio_tx_did_fail
    <3>2. line.phase # "sof"
      <4>1. PICK r \in Seq(Tokens) :
               /\ IsLast(line, pio, r[Len(r)]) /\ IsRead(line, cd, r[1])
               /\ Unread = <<>> => r[Len(r)] = r[1]
        BY <1>0, InThread
      <4> QED
        BY <1>4, <2>2, <4>1 DEF IsRead, IsLast, LastKind, Ending
    <3>3. DOMAIN Unread = {}
      <4>1. DOMAIN <<>> = {}
        OBVIOUS
      <4> QED
        BY <2>2, <4>1
    <3>4. ~BodyDue
      BY <3>2, <3>3 DEF BodyDue
    <3> QED
      BY <1>1, <3>1, <3>4 DEF Ready
  <2> QED
    BY <2>1, <2>2
<1> QED
  BY <1>3, <1>4

\* A step of the wire leaves a message ready that is, and a line at rest or a frame coming.
LEMMA WireReady ==
  ASSUME LockInv, Wire, Unbroken(line')
  PROVE  /\ Coming => Coming'
         /\ Ready => Ready'
         /\ Resting => Resting' \/ Coming'
<1>0. Unbroken(line) /\ cd' = cd
  BY WireWhole
<1>1. Coming => Coming'
  BY <1>0, WireKeepsUnread DEF Coming
<1>2. ASSUME NEW k \in Kinds \cup {"none"}, Advances(k)
      PROVE  line.phase # "idle" /\ (pio.txsm = "armed" => pio'.txsm = "armed")
  BY <1>2 DEF Advances, Onto, TxGoes
<1>3. ASSUME NEW src \in {"own", "peer"}, Starts(src), "MAYTX" \in pio.irqs PROVE Coming'
  BY <1>0, <1>3, StartComes
<1>4. ASSUME NEW src \in {"own", "peer"}, Starts(src)
      PROVE  (pio.txsm = "armed" => pio'.txsm = "armed" \/ "MAYTX" \in pio.irqs)
  BY <1>4 DEF Starts
<1>5. Resting => "MAYTX" \in pio.irqs
  BY LockParts DEF Resting, Shifted
<1>6. CASE \E src \in {"own", "peer"} : Starts(src)
  BY <1>1, <1>3, <1>4, <1>5, <1>6 DEF Ready
<1>7. CASE \E k \in Kinds \cup {"none"} : Advances(k)
  BY <1>1, <1>2, <1>7 DEF Ready, Resting
<1>8. CASE Senses
  BY <1>1, <1>8 DEF Senses, Ready, Resting
<1>9. CASE Signals
  BY <1>1, <1>9 DEF Signals, Ready, Resting
<1>10. CASE Pushes
  BY <1>1, <1>10 DEF Pushes, Ready, Resting
<1> QED
  BY <1>6, <1>7, <1>8, <1>9, <1>10, WireWhole

\* A step of the wire keeps Turn.
LEMMA WireTurn ==
  ASSUME LockInv, Wire, Unbroken(line'), Turn
  PROVE  Turn'
<1>1. /\ cd' = cd /\ irq'.pc = irq.pc /\ irq'.ints = irq.ints /\ irq'.mask = irq.mask
      /\ pio'.inte = pio.inte
  BY WireWhole
<1>2. /\ Coming => Coming'
      /\ Ready => Ready'
      /\ Resting => Resting' \/ Coming'
      /\ Coming' => Ready'
  BY WireReady DEF Ready
<1>3. Watches => Watches'
  BY <1>1, <1>2 DEF Watches
<1> QED
  BY <1>1, <1>2, <1>3 DEF Turn

\* A word read leaves a frame coming, unless it is the start of it.
LEMMA ReadsComing ==
  ASSUME LockInv, NEW t \in Tokens, Reads(t), Coming, t.k = "sof" => cd.parse_state = "DISCARD",
         cd'.parse_state = "DISCARD" => cd.parse_state = "DISCARD" /\ t.k \notin Ending
  PROVE  Coming'
<1>1. 1 \in DOMAIN Unread /\ t = Unread[1] /\ Unread' = Tail(Unread) /\ Unread \in Seq(Tokens)
  BY LockParts DEF Reads
<1>2. \A i \in DOMAIN Unread : i # 1 => i - 1 \in DOMAIN Unread' /\ Unread'[i - 1] = Unread[i]
  <2> DEFINE s == Unread
             q == Unread'
  <2>1. s \in Seq(Tokens) /\ q = Tail(s) /\ 1 \in DOMAIN s
    BY <1>1
  <2> HIDE DEF s, q
  <2>2. \A i \in DOMAIN s : i # 1 => i - 1 \in DOMAIN q /\ q[i - 1] = s[i]
    BY <2>1
  <2> QED
    BY <2>2 DEF s, q
<1>3. PICK i \in DOMAIN Unread :
        /\ Unread[i].k = "sof"
        /\ cd.parse_state = "DISCARD" => \E j \in DOMAIN Unread : j < i /\ Unread[j].k \in Ending
  BY DEF Coming
<1>4. i # 1 /\ i - 1 \in DOMAIN Unread' /\ Unread'[i - 1].k = "sof"
  <2>1. cd.parse_state = "DISCARD" => i # 1
    BY <1>1, <1>3
  <2> QED
    BY <1>1, <1>2, <1>3, <2>1
<1>5. CASE cd'.parse_state = "DISCARD"
  <2>1. PICK j \in DOMAIN Unread : j < i /\ Unread[j].k \in Ending
    BY <1>3, <1>5
  <2>2. j # 1 /\ j - 1 \in DOMAIN Unread' /\ Unread'[j - 1].k \in Ending
    BY <1>1, <1>2, <1>5, <2>1
  <2>3. j - 1 < i - 1
    BY <1>1, <2>1
  <2> QED
    BY <1>4, <2>2, <2>3 DEF Coming
<1>6. CASE cd'.parse_state # "DISCARD"
  BY <1>4, <1>6 DEF Coming
<1> QED
  BY <1>5, <1>6

\* A word read leaves the mask as Watches says.
LEMMA ReadsWatches ==
  ASSUME LockInv, NEW t \in Tokens, Reads(t), Watches
  PROVE  Watches'
<1>0. /\ pio'.txsm = pio.txsm /\ Does(World, World', t)
      /\ World.cd = cd /\ World'.cd = cd' /\ World.pio = pio /\ World'.pio = pio'
  BY DEF Reads, World
<1> DEFINE s == cd.parse_state
           x == cd.tx_state
           i == pio.inte
           All == {"MAYTX", "TXPENDING", "RX_DATA"}
<1>1. ASSUME cd'.parse_state # "HEADER", pio'.inte = All PROVE Watches'
  BY <1>1 DEF Watches
<1>2. ASSUME t.k = "sof" => s = "DISCARD", s # "HEADER", cd'.parse_state # "HEADER",
             pio'.inte = i, cd'.tx_state = x,
             cd'.parse_state = "DISCARD" => s = "DISCARD" /\ t.k \notin Ending,
             s = "START" => cd'.parse_state = "START"
      PROVE  Watches'
  <2>1. Coming => Coming'
    BY <1>2, ReadsComing
  <2>2. Ready => Ready'
    BY <1>0, <2>1 DEF Ready
  <2> QED
    BY <1>2, <2>2 DEF Watches
<1>3. CASE Discards(World, t) /\ After(World', "DISCARD", "IDLE", x, All)
  BY <1>0, <1>1, <1>3 DEF After
<1>4. CASE s = "DISCARD" /\ t.k \notin Ending /\ After(World', "DISCARD", cd.report_state, x, i)
  BY <1>0, <1>2, <1>4 DEF After
<1>5. CASE After(World', "START", "IDLE", x, All)
  BY <1>0, <1>1, <1>5 DEF After
<1>6. CASE After(World', "HEADER", cd.report_state, x, {"MAYTX", "RX_DATA"})
  BY <1>0, <1>6 DEF Watches, After
<1>7. CASE s = "HEADER" /\ After(World', "CRC", "TX_ACK", "CONFIRM_TX", i)
  BY <1>0, <1>7 DEF Watches, After
<1>8. CASE After(World', "CRC", "RX_ACK", x, All)
  BY <1>0, <1>1, <1>8 DEF After
<1>9. CASE /\ s = "CRC" /\ t.k = "crc"
           /\ After(World', "ACK", cd.report_state, x,
                    IF cd.report_state = "TX_ACK" THEN {"MAYTX", "MATCHED", "RX_DATA"} ELSE i)
  <2>1. CASE cd.report_state = "TX_ACK"
    <3>1. x = "CONFIRM_TX"
      BY <1>0, <2>1, LockParts DEF ParserInv, InTx
    <3> QED
      BY <1>0, <1>9, <2>1, <3>1 DEF Watches, After
  <2>2. CASE cd.report_state # "TX_ACK"
    BY <1>0, <1>2, <1>9, <2>2 DEF After
  <2> QED
    BY <2>1, <2>2
<1>10. CASE /\ s = "ACK" /\ t.k = "ack"
            /\ \E r : After(World', "EOF0", r, x, i)
  BY <1>0, <1>2, <1>10 DEF After
<1>11. CASE s = "EOF0" /\ t.k = "eof0" /\ After(World', "EOF1", cd.report_state, x, i)
  BY <1>0, <1>2, <1>11 DEF After
<1>12. CASE s = "EOF1" /\ t.k = "eof1"
            /\ After(World', "START", "IDLE", x,
                     IF cd.report_state = "IDLE" THEN i ELSE {"TXPENDING", "RX_DATA"})
  <2>1. CASE cd.report_state = "IDLE"
    BY <1>0, <1>2, <1>12, <2>1 DEF After
  <2>2. CASE cd.report_state # "IDLE"
    BY <1>0, <1>12, <2>2 DEF Watches, After
  <2> QED
    BY <2>1, <2>2
<1>13. CASE After(World', "DISCARD", "IDLE", x, All)
  BY <1>0, <1>1, <1>13 DEF After
<1> HIDE DEF s, x, i, All
<1>14. \/ Discards(World, t) /\ After(World', "DISCARD", "IDLE", x, All)
       \/ s = "DISCARD" /\ t.k \notin Ending /\ After(World', "DISCARD", cd.report_state, x, i)
       \/ After(World', "START", "IDLE", x, All)
       \/ After(World', "HEADER", cd.report_state, x, {"MAYTX", "RX_DATA"})
       \/ s = "HEADER" /\ After(World', "CRC", "TX_ACK", "CONFIRM_TX", i)
       \/ After(World', "CRC", "RX_ACK", x, All)
       \/ /\ s = "CRC" /\ t.k = "crc"
          /\ After(World', "ACK", cd.report_state, x,
                   IF cd.report_state = "TX_ACK" THEN {"MAYTX", "MATCHED", "RX_DATA"} ELSE i)
       \/ s = "ACK" /\ t.k = "ack" /\ \E r : After(World', "EOF0", r, x, i)
       \/ s = "EOF0" /\ t.k = "eof0" /\ After(World', "EOF1", cd.report_state, x, i)
       \/ s = "EOF1" /\ t.k = "eof1"
            /\ After(World', "START", "IDLE", x,
                     IF cd.report_state = "IDLE" THEN i ELSE {"TXPENDING", "RX_DATA"})
       \/ After(World', "DISCARD", "IDLE", x, All)
  BY <1>0 DEF Does, s, x, i, All
<1> QED
  BY <1>3, <1>4, <1>5, <1>6, <1>7, <1>8, <1>9, <1>10, <1>11, <1>12, <1>13, <1>14

\* A step that leaves words, wire and "tx" machine alone leaves them ready.
LEMMA SteadyReady ==
  ASSUME LockInv, Steady
  PROVE  /\ line' = line /\ cd'.parse_state = cd.parse_state
         /\ Resting' <=> Resting
         /\ Coming' <=> Coming
         /\ pio'.txsm = pio.txsm => (Ready' <=> Ready)
<1>1. /\ line' = line /\ Unread' = Unread /\ cd'.parse_state = cd.parse_state
      /\ pio'.sync = pio.sync /\ pio'.fifo = pio.fifo
  BY SteadyKeeps DEF Steady
<1>2. Coming' <=> Coming
  BY <1>1 DEF Coming
<1> QED
  BY <1>1, <1>2 DEF Resting, Ready

\* A word read keeps Turn.
LEMMA ReadsTurn ==
  ASSUME LockInv, LockInv', Unbroken(line'), Turn, NEW t \in Tokens, Reads(t)
  PROVE  Turn'
<1>1. Watches'
  BY ReadsWatches DEF Turn, Reads
<1>2. (LockInv /\ Unbroken(line) /\ "MAYTX" \in Ints(pio) /\ "RX_DATA" \notin Ints(pio)
       => Resting /\ cd.parse_state \notin {"HEADER", "CRC", "ACK"})'
  BY LineParsed, PTL
<1>3. irq'.pc = "out" \/ (irq'.pc = "loop" /\ irq'.ints = Ints(pio'))
  BY DEF Reads
<1> QED
  BY <1>1, <1>2, <1>3 DEF Turn

\* A flag that is served keeps Turn.
LEMMA ReportsTurn ==
  ASSUME HandInv, Unbroken(line), Turn, Steady, NEW flag \in SmIrqs, Reports(flag)
  PROVE  Turn'
<1>0. /\ LockInv /\ Wakes /\ Watches
      /\ irq.pc = "loop" /\ "RX_DATA" \notin irq.ints /\ flag \in irq.ints /\ irq.ints \subseteq pio.inte
      /\ flag = "ACKDONE" => "ACKDONE" \in pio.irqs
      /\ irq'.pc = "sched" /\ pio'.txsm = pio.txsm /\ cd'.tx_state = cd.tx_state
  BY LockParts DEF HandInv, PendInv, Turn, HandlerInv, Reports, Serves, Served, SameTx
<1>1. /\ cd'.parse_state = cd.parse_state /\ (Resting' <=> Resting) /\ (Coming' <=> Coming)
      /\ Ready' <=> Ready
  BY <1>0, SteadyReady
<1>2. cd.parse_state # "HEADER"
  <2> SUFFICES ASSUME cd.parse_state = "HEADER" PROVE FALSE
    OBVIOUS
  <2>1. flag = "MAYTX"
    BY <1>0 DEF Watches
  <2> QED
    BY <1>0, <2>1 DEF Turn
<1>3. ASSUME cd.tx_state = "QUEUED"
      PROVE  /\ "MATCHED" \in irq'.mask => Ready
             /\ "MAYTX" \notin irq'.mask => Ready \/ Resting \/ cd.parse_state = "START"
  <2>1. CASE flag = "ACKDONE"
    <3>1. pio.txsm = "ackhold"
      BY <1>0, <2>1, LockParts DEF Registers
    <3> QED
      BY <1>0, <1>3, <3>1 DEF Wakes
  <2>2. CASE flag = "TXPENDING"
    <3>1. irq'.mask = pio.inte \ {"TXPENDING"} /\ "TXPENDING" \in pio.inte
      BY <1>0, <2>2 DEF Reports
    <3> QED
      BY <1>0, <1>3, <3>1 DEF Watches
  <2>3. CASE flag = "MATCHED"
    <3>1. irq'.mask = {} /\ "MATCHED" \in pio.inte
      BY <1>0, <2>3 DEF Reports
    <3> QED
      BY <1>0, <1>3, <3>1 DEF Watches
  <2>4. CASE flag = "MAYTX"
    <3>1. irq'.mask = {} /\ (Resting \/ Coming)
      BY <1>0, <2>4 DEF Reports, Turn
    <3> QED
      BY <3>1 DEF Ready
  <2> QED
    BY <2>1, <2>2, <2>3, <2>4 DEF SmIrqs
<1> QED
  BY <1>0, <1>1, <1>2, <1>3 DEF Turn

\* The mask that tx_schedule_transmit sets while the "tx" machine has the message keeps Turn.
LEMMA WaitsTurn ==
  ASSUME HandInv, Unbroken(line), Turn, Steady, Waits
  PROVE  Turn'
<1>0. /\ LockInv /\ irq.pc = "sched" /\ Busy /\ cd.tx_state = "QUEUED" /\ "TXPENDING" \notin irq.mask
      /\ irq'.pc = "out" /\ pio'.inte = irq.mask \cup {"RX_DATA"}
      /\ pio'.txsm = pio.txsm /\ cd'.tx_state = cd.tx_state
  BY LockParts DEF HandInv, PendInv, Waits, HandlerInv, Busy, SameTx
<1>1. cd'.parse_state = cd.parse_state /\ (Ready' <=> Ready)
  BY <1>0, SteadyReady
<1>2. "MATCHED" \in irq.mask => Ready
  BY <1>0 DEF Turn
<1>3. "MAYTX" \notin irq.mask => Ready
  BY <1>0, BusyReady DEF Turn
<1>4. cd.parse_state # "HEADER"
  BY <1>0 DEF Turn
<1> QED
  BY <1>0, <1>1, <1>2, <1>3, <1>4 DEF Turn, Watches

\* Every step keeps WakeInv.
LEMMA WakeKept == WakeInv /\ [Next]_vars => WakeInv'
<1> SUFFICES ASSUME WakeInv, [Next]_vars, Unbroken(line') PROVE Turn'
  BY HandKept DEF WakeInv
<1>0. HandInv /\ LockInv /\ LockInv'
  BY LockKept DEF WakeInv, HandInv, PendInv
<1>1. CASE Wire
  BY <1>0, <1>1, WireTurn, WireWhole DEF WakeInv
<1>2. CASE ~Wire
  <2>1. Unbroken(line) /\ NodeGoes /\ line' = line /\ Turn
    BY <1>0, <1>2, NodeAlone DEF WakeInv
  <2>2. ASSUME NEW t \in Tokens, Reads(t) PROVE Turn'
    BY <1>0, <2>1, <2>2, ReadsTurn
  <2>3. ASSUME Steady
        PROVE  /\ cd'.parse_state = cd.parse_state /\ (Resting' <=> Resting) /\ (Coming' <=> Coming)
               /\ pio'.txsm = pio.txsm => (Ready' <=> Ready)
    BY <1>0, <2>3, SteadyReady
  <2>4. CASE Steady /\ Enters
    <3>1. /\ irq.pc = "out" /\ irq'.pc = "loop" /\ irq'.ints = Ints(pio) /\ pio'.inte = pio.inte
          /\ pio'.txsm = pio.txsm /\ cd'.tx_state = cd.tx_state
      BY <2>4 DEF Enters, SameTx
    <3>2. Watches'
      BY <2>1, <2>3, <2>4, <3>1 DEF Turn, Watches
    <3>3. "MAYTX" \in Ints(pio) /\ "RX_DATA" \notin Ints(pio)
          => Resting /\ cd.parse_state \notin {"HEADER", "CRC", "ACK"}
      BY <1>0, <2>1, LineParsed
    <3> QED
      BY <2>3, <2>4, <3>1, <3>2, <3>3 DEF Turn
  <2>5. ASSUME Steady, NEW flag \in SmIrqs, Reports(flag) PROVE Turn'
    BY <1>0, <2>1, <2>5, ReportsTurn
  <2>6. CASE Steady /\ Injects
    <3>1. /\ irq'.pc = "out" /\ pio'.inte = {"MAYTX", "ACKDONE", "RX_DATA"}
          /\ cd'.tx_state = "ACKING_RX" /\ cd.report_state = "RX_ACK"
      BY <2>6 DEF Injects, AckRequested
    <3>2. cd.parse_state # "HEADER"
      BY <1>0, <3>1, LockParts DEF ParserInv
    <3> QED
      BY <2>3, <2>6, <3>1, <3>2 DEF Turn, Watches
  <2>7. CASE Steady /\ Waits
    BY <1>0, <2>1, <2>7, WaitsTurn
  <2>8. CASE Steady /\ Sends
    <3>1. /\ irq.pc \in {"sched", "reread"} /\ irq'.pc = "out" /\ pio'.txsm = "armed"
          /\ cd'.tx_state = "QUEUED" /\ pio'.inte = irq.mask \cup {"RX_DATA"}
      BY <2>8 DEF Sends
    <3>2. "TXPENDING" \notin irq.mask /\ cd.parse_state # "HEADER"
      BY <1>0, <2>1, <3>1, LockParts DEF HandlerInv, Turn
    <3> QED
      BY <2>3, <2>8, <3>1, <3>2 DEF Turn, Watches, Ready
  <2>9. CASE Steady /\ Empties
    <3>1. /\ irq.pc \in {"sched", "clear", "reread"} /\ cd'.tx_state = "IDLE"
          /\ \/ irq'.pc \in {"clear", "reread"}
             \/ irq'.pc = "out" /\ "TXPENDING" \in pio'.inte
      BY <2>9 DEF Empties
    <3>2. cd.parse_state # "HEADER"
      BY <2>1, <3>1 DEF Turn
    <3> QED
      BY <2>3, <2>9, <3>1, <3>2 DEF Turn, Watches
  <2>10. CASE Steady /\ Submits
    <3>1. irq' = irq /\ pio'.inte = pio.inte /\ pio'.txsm = pio.txsm /\ cd'.tx_state = cd.tx_state
      BY <2>10 DEF Submits, SameTx
    <3> QED
      BY <2>1, <2>3, <2>10, <3>1 DEF Turn, Watches
  <2>11. CASE UNCHANGED vars
    BY <2>1, <2>11 DEF Turn, Watches, Ready, Coming, Resting, Unread, vars
  <2> QED
    BY <2>1, <2>2, <2>4, <2>5, <2>6, <2>7, <2>8, <2>9, <2>10, <2>11 DEF NodeGoes
<1> QED
  BY <1>1, <1>2

\* WakeInv holds when the driver has started.
LEMMA WakeInit == Init => WakeInv
<1> SUFFICES ASSUME Init PROVE WakeInv
  OBVIOUS
<1>1. /\ cd.tx_state = "IDLE" /\ irq.pc = "out" /\ cd.parse_state = "DISCARD"
      /\ pio.inte = {"MAYTX", "TXPENDING", "RX_DATA"}
  BY DEF Init, Idle, PioInit
<1>2. Turn
  BY <1>1 DEF Turn, Watches
<1> QED
  BY <1>2, HandInit DEF WakeInv

\* Where nothing is going on, a queued message waits in the "tx" machine.
LEMMA NothingForgotten ==
  ASSUME WakeInv, Unbroken(line)
  PROVE  NoLostWakeup
<1> SUFFICES ASSUME Quiet, Pending > 0 PROVE pio.txsm = "armed" /\ pio.txmsg = QueuedMsg(0)
  BY DEF NoLostWakeup
<1>0. LockInv /\ Pended /\ Watches
  BY DEF WakeInv, HandInv, PendInv, Turn, Quiet
<1>1. /\ line.phase = "idle" /\ pio.sync = "signalled" /\ irq.pc = "out" /\ Ints(pio) = {}
      /\ app.pc = "ready"
  BY DEF Quiet
<1>2. pio.fifo = <<>> /\ "MAYTX" \notin pio.inte
  BY <1>0, <1>1, LockParts DEF Registers, Ints, Intr, Shifted
<1>3. cd.tx_push_pos # cd.tx_pull_pos /\ QueuedMsg(0) = SlotMsg(cd)
  BY <1>0, PendingIs, LockParts
<1>4. "TXPENDING" \in pio.irqs
  BY <1>0, <1>1, <1>3, LockParts DEF HandlerInv, Awake, Pended
<1>5. "TXPENDING" \notin pio.inte
  BY <1>1, <1>4 DEF Ints, Intr
<1>6. cd.tx_state = "QUEUED" /\ Ready
  BY <1>0, <1>2, <1>5 DEF Watches
<1>7. Unread = pio.isr
  <2>1. \A s \in Seq(Tokens) : <<>> \o s = s
    OBVIOUS
  <2> QED
    BY <1>0, <1>2, <2>1, LockParts DEF Unread
<1>8. ~Coming
  BY <1>0, <1>1, <1>7, LockParts DEF Coming, Shifted
<1>9. pio.txmsg = SlotMsg(cd)
  BY <1>0, <1>6, LockParts DEF QueueInv, Sent
<1> QED
  BY <1>3, <1>6, <1>8, <1>9 DEF Ready

\* Until the PIO block is restarted, by an overrun or an overflow of the idle counter, the parser
\* is in step with the wire: what it waits for is what comes next.
THEOREM ParserInStep == Spec => [](Unbroken(line) => InStep(line, World))
<1>1. Init => LockInv
  BY LockInit
<1>2. LockInv /\ [Next]_vars => LockInv'
  BY LockKept
<1>3. LockInv => (Unbroken(line) => InStep(line, World))
  BY DEF LockInv
<1> QED
  BY <1>1, <1>2, <1>3, PTL DEF Spec

\* Until then no wakeup is lost: when all is quiet, a message that waits is in the hands of the
\* "tx" machine.
THEOREM WakeupNeverLost == Spec => [](Unbroken(line) => NoLostWakeup)
<1>1. Init => WakeInv
  BY WakeInit
<1>2. WakeInv /\ [Next]_vars => WakeInv'
  BY WakeKept
<1>3. WakeInv => (Unbroken(line) => NoLostWakeup)
  BY NothingForgotten
<1> QED
  BY <1>1, <1>2, <1>3, PTL DEF Spec

\* So a handler that always reads the rx fifo in time never loses a wakeup, on a line that is
\* never idle for the 2^28 bits after which the counter of "sync" overflows.
COROLLARY NoWakeupLost ==
  ASSUME Overruns = 0, Wraps = 0
  PROVE  Spec => []NoLostWakeup
<1>1. Init => WakeInv
  BY WakeInit
<1>2. WakeInv /\ [Next]_vars => WakeInv'
  BY WakeKept
<1>3. WakeInv => NoLostWakeup
  <2> SUFFICES ASSUME WakeInv PROVE NoLostWakeup
    OBVIOUS
  <2>1. LockInv
    BY DEF WakeInv, HandInv, PendInv
  <2>2. Unbroken(line)
    BY <2>1, LockParts DEF Unbroken, WireInv, LineStates, Lossless
  <2> QED
    BY <2>2, NothingForgotten
<1> QED
  BY <1>1, <1>2, <1>3, PTL DEF Spec

-----------------------------------------------------------------------------
(* What this node acknowledged it delivers.                                *)

(* Frame n was delivered or is being received.                             *)
Delivering(n) ==
  \/ \E i \in DOMAIN log.rx : log.rx[i] = n
  \/ Receiving(cd.report_state) /\ cd.parse_msg = n

(* A field that ends a report tells the truth: this node did not ack the   *)
(* frame, and will not, or the frame was not valid.                        *)
TrueOf(t) ==
  /\ t.k \in Flags => line.frames[t.n].ok = "no"
  /\ t.k = "badcrc" =>
       /\ line.frames[t.n].ack # "us"
       /\ (t.n = Last => line.phase \notin {"sof", "body"} /\ pio.txsm # "acking")
  /\ t.k = "noack" =>
       /\ line.frames[t.n].ack = "none"
       /\ (t.n = Last => line.phase \notin {"sof", "body", "crc"})

(* The driver asks for MAYTX as long as it receives.                       *)
Watching ==
  Receiving(cd.report_state) =>
    /\ irq.pc \in {"out", "loop"} => "MAYTX" \in pio.inte
    /\ irq.pc \notin {"out", "loop"} => "MAYTX" \in irq.mask

(* The fields to come that end a report tell the truth, and no frame is    *)
(* valid before its end.                                                   *)
Honest ==
  /\ \A i \in DOMAIN Unread : TrueOf(Unread[i])
  /\ line.phase \in {"sof", "body", "crc", "ack", "eof4"} => line.frames[Last].ok = "no"

(* The stage of a report is that of the parser, and its mask has MAYTX.    *)
Staged ==
  /\ cd.report_state = "RX_ACK" => cd.parse_state \in {"CRC", "ACK"}
  /\ cd.report_state = "RX_EOF" => cd.parse_state \in {"EOF0", "EOF1"}
  /\ Watching

(* A frame is delivered or being received once this node drives its ack,   *)
(* and from then on unless it did not end as a valid one.                  *)
Delivers ==
  /\ pio.txsm = "acking" => Delivering(Last)
  /\ \A n \in DOMAIN line.frames :
       line.frames[n].ack = "us" =>
         Delivering(n) \/ (line.frames[n].ok = "no" /\ (n < Last \/ Calm(line)))

(* Besides, an acknowledged frame is delivered, being received or broken.  *)
DeliverInv == WakeInv /\ (Unbroken(line) => Honest /\ Staged /\ Delivers)

\* The parts of a state in which DeliverInv holds.
LEMMA DeliverParts ==
  ASSUME WakeInv
  PROVE  /\ LockInv /\ WireTyped /\ Last = Latest(line) /\ Last \in Nat
         /\ DOMAIN line.frames = 1..Last /\ line.frames \in Seq(Frames)
         /\ KnownIn(line, Unread)
         /\ \A i \in DOMAIN Unread : OldToken(line, Unread[i])
<1>1. LockInv
  BY DEF WakeInv, HandInv, PendInv
<1>2. Tidy(line, Unread)
  BY <1>1, LockParts DEF FrameInv, Follow, Behind
<1> QED
  BY <1>1, <1>2, LockParts, WireParts DEF Tidy

\* A frame that goes on keeps what is said of fields and acks.
LEMMA AdvanceDelivers ==
  ASSUME WakeInv, WakeInv', Honest, Delivers, Wire, Unbroken(line'),
         NEW k \in Kinds \cup {"none"}, Advances(k)
  PROVE  Honest' /\ Delivers'
<1>0. /\ LockInv /\ LockInv' /\ Last = Latest(line) /\ Last \in Nat /\ DOMAIN line.frames = 1..Last
      /\ KnownIn(line, Unread) /\ line.frames \in Seq(Frames)
      /\ \A i \in DOMAIN Unread : OldToken(line, Unread[i])
      /\ WireInv(line, pio) /\ WireInv(line', pio')
      /\ cd' = cd /\ log' = log /\ Unbroken(line)
  <2>1. LockInv /\ LockInv'
    BY DEF WakeInv, HandInv, PendInv
  <2>2. WireInv(line', pio')
    BY <2>1 DEF LockInv, FlowInv, FrameInv
  <2> QED
    BY <2>1, <2>2, DeliverParts, LockParts, WireWhole
<1>1. /\ Onto(line.phase, k, line'.phase) /\ TxGoes /\ FramesGo(k)
      /\ pio'.isr = (IF k = "none" THEN pio.isr ELSE Sampled(k, Last)) /\ pio'.fifo = pio.fifo
      /\ k \in {"crc", "badcrc"} /\ pio'.txsm = "acking" /\ pio.txsm # "acking" => k = "crc"
  BY DEF Advances
<1>2. Last' = Last /\ line.phase # "idle" /\ Last \in DOMAIN line.frames
  <2>1. WireTyped /\ WireTyped'
    BY <1>0, LockParts, WireType, WireWhole
  <2>2. line'.frames \in Seq(Frames) /\ DOMAIN line'.frames = 1..Last
    BY <1>0, <1>1, <2>1 DEF FramesGo, WireTyped, LineStates
  <2>3. line.phase # "idle"
    BY <1>1 DEF Onto
  <2> QED
    BY <1>0, <2>1, <2>2, <2>3, WireParts DEF Last
<1>3. /\ DOMAIN line'.frames = DOMAIN line.frames
      /\ \A n \in DOMAIN line.frames : n # Last => line'.frames[n] = line.frames[n]
      /\ line'.frames[Last].ack # line.frames[Last].ack => line'.phase = "ack" /\ line.phase = "crc"
      /\ line'.frames[Last].ok # line.frames[Last].ok => line.phase \in {"eof4", "eof6"}
      /\ line'.frames[Last].ok # line.frames[Last].ok => line'.phase \in {"eof6", "eof7"}
      /\ line'.phase = "ack" => (line'.frames[Last].ack = "us" => pio.txsm = "acking")
  BY <1>1, <1>2 DEF FramesGo, Onto
<1>4. line'.phase \in {"sof", "body", "crc", "ack", "eof4"} => line'.frames[Last].ok = "no"
  BY <1>1, <1>3 DEF Honest, Onto
<1>5. ASSUME NEW i \in DOMAIN Unread PROVE TrueOf(Unread[i])'
  <2> DEFINE t == Unread[i]
  <2>1. TrueOf(t) /\ OldToken(line, t) /\ (t.k \notin Passive => t.n \in DOMAIN line.frames)
    BY <1>0 DEF Honest, KnownIn
  <2> HIDE DEF t
  <2>2. t.k \in Flags => line'.frames[t.n].ok = "no"
    <3>1. t.k \in Flags /\ t.n = Last => line.phase = "flag"
      BY <1>0, <1>2, <2>1 DEF OldToken, Closing, Passive, Flags, Calm
    <3> QED
      BY <1>3, <2>1, <3>1 DEF TrueOf, Flags, Passive
  <2>3. ASSUME t.k = "badcrc"
        PROVE  /\ line'.frames[t.n].ack # "us"
               /\ t.n = Last => line'.phase \notin {"sof", "body"} /\ pio'.txsm # "acking"
    BY <1>1, <1>3, <2>1, <2>3 DEF TrueOf, Onto, TxGoes, Passive
  <2>4. ASSUME t.k = "noack"
        PROVE  /\ line'.frames[t.n].ack = "none"
               /\ t.n = Last => line'.phase \notin {"sof", "body", "crc"}
    BY <1>1, <1>3, <2>1, <2>4 DEF TrueOf, Onto, Passive
  <2>5. Unread'[i] = t
    BY <1>0, WireKeepsUnread DEF t
  <2> QED
    BY <1>2, <2>2, <2>3, <2>4, <2>5 DEF TrueOf
<1>6. ASSUME NEW i \in DOMAIN Unread', i \notin DOMAIN Unread PROVE TrueOf(Unread[i])'
  <2>1. k # "none" /\ Unread'[i].k = k /\ Unread'[i].n = Last
    <3>1. k # "none"
      BY <1>0, <1>1, <1>6, LockParts, UnreadGoes
    <3>2. Unread \in Seq(Tokens) /\ Unread' = Append(Unread, [k |-> k, n |-> Last])
      BY <1>0, <1>1, <3>1, LockParts, UnreadGoes
    <3> DEFINE e == [k |-> k, n |-> Last]
    <3>3. e \in Tokens /\ e.k = k /\ e.n = Last
      BY <1>0, <3>1 DEF Tokens
    <3> HIDE DEF e
    <3>4. \A s \in Seq(Tokens) : \A j \in DOMAIN Append(s, e) : j \notin DOMAIN s => Append(s, e)[j] = e
      BY <3>3
    <3>5. Unread'[i] = e
      BY <1>6, <3>2, <3>4 DEF e
    <3> QED
      BY <3>1, <3>3, <3>5
  <2>2. k \in Flags => line'.frames[Last].ok = "no"
    BY <1>1, <1>3 DEF Honest, Onto, Flags
  <2>3. ASSUME k = "badcrc"
        PROVE  line'.frames[Last].ack # "us" /\ line'.phase = "crc" /\ pio'.txsm # "acking"
    <3>1. line.phase = "body" /\ line'.phase = "crc"
      BY <1>1, <2>3 DEF Onto
    <3>2. pio'.txsm # "acking"
      BY <1>0, <1>1, <2>3, <3>1 DEF WireInv
    <3> QED
      BY <1>0, <1>3, <3>1, <3>2 DEF WireInv
  <2>4. ASSUME k = "noack" PROVE line'.frames[Last].ack = "none" /\ line'.phase = "ack"
    BY <1>1, <2>4 DEF Onto, FramesGo
  <2> QED
    BY <1>2, <2>1, <2>2, <2>3, <2>4 DEF TrueOf
<1>7. Honest'
  BY <1>2, <1>4, <1>5, <1>6 DEF Honest
<1>8. \A n : Delivering(n)' <=> Delivering(n)
  BY <1>0 DEF Delivering
<1>9. pio'.txsm = "acking" => Delivering(Last)
  <2>1. CASE pio.txsm = "acking"
    BY <2>1 DEF Delivers
  <2>2. CASE pio.txsm # "acking" /\ pio'.txsm = "acking"
    <3>1. pio.match.kind = "inject"
      BY <1>1, <2>2 DEF TxGoes
    <3>2. Receiving(cd.report_state) /\ pio.inte = {"MAYTX", "ACKDONE", "RX_DATA"}
      BY <1>0, <3>1, LockParts DEF Registers
    <3>3. Acks(line', World', irq'.mask)
      BY <1>0 DEF LockInv, FlowInv, FrameInv
    <3>4. World'.cd = cd' /\ World'.pio = pio' /\ pio'.inte = pio.inte
      BY <1>0, WireWhole DEF World
    <3>5. cd.parse_msg = Latest(line')
      BY <1>0, <2>2, <3>2, <3>3, <3>4 DEF Acks
    <3> QED
      BY <1>2, <3>2, <3>5 DEF Delivering, Latest, Last
  <2> QED
    BY <2>1, <2>2
<1>10. ASSUME NEW n \in DOMAIN line.frames, line'.frames[n].ack = "us"
       PROVE  Delivering(n) \/ (line'.frames[n].ok = "no" /\ (n < Last \/ Calm(line')))
  <2>1. CASE n # Last
    BY <1>0, <1>3, <1>10, <2>1 DEF Delivers
  <2>2. CASE n = Last /\ line.frames[n].ack # "us"
    BY <1>3, <1>10, <2>2 DEF Delivers
  <2>3. CASE n = Last /\ line.frames[n].ack = "us"
    <3>1. Delivering(Last) \/ (line.frames[Last].ok = "no" /\ Calm(line))
      BY <1>0, <1>10, <2>3 DEF Delivers
    <3>2. Calm(line) => Calm(line') /\ line'.frames[Last].ok = line.frames[Last].ok
      BY <1>1, <1>3 DEF Calm, Onto
    <3> QED
      BY <2>3, <3>1, <3>2
  <2> QED
    BY <2>1, <2>2, <2>3
<1>11. Delivers'
  BY <1>2, <1>3, <1>8, <1>9, <1>10 DEF Delivers
<1> QED
  BY <1>7, <1>11

\* A frame that starts keeps what is said of fields and acks.
LEMMA StartDelivers ==
  ASSUME WakeInv, Honest, Delivers, Wire, Unbroken(line'), NEW src \in {"own", "peer"}, Starts(src)
  PROVE  Honest' /\ Delivers'
<1>0. /\ LockInv /\ Last = Latest(line) /\ Last \in Nat /\ DOMAIN line.frames = 1..Last
      /\ KnownIn(line, Unread) /\ line.frames \in Seq(Frames)
      /\ \A i \in DOMAIN Unread : OldToken(line, Unread[i])
      /\ WireInv(line, pio) /\ cd' = cd /\ log' = log
  BY DeliverParts, LockParts, WireWhole
<1>1. /\ line.phase = "idle" /\ line'.phase = "sof" /\ DOMAIN line'.frames = 1..(Last + 1)
      /\ \A n \in DOMAIN line.frames : line'.frames[n] = line.frames[n]
      /\ line'.frames[Last + 1].ack = "none" /\ line'.frames[Last + 1].ok = "no"
      /\ pio'.fifo = pio.fifo /\ pio'.isr = Sampled("sof", Last + 1)
      /\ pio'.txsm # "acking"
  BY <1>0 DEF Starts, WireInv
<1>2. Last' = Last + 1
  <2>1. WireTyped /\ WireTyped'
    BY <1>0, LockParts, WireType, WireWhole
  <2>2. line'.frames \in Seq(Frames)
    BY <2>1 DEF WireTyped, LineStates
  <2> QED
    BY <1>0, <1>1, <2>2 DEF Last
<1>3. ASSUME NEW i \in DOMAIN Unread PROVE TrueOf(Unread[i])'
  <2> DEFINE t == Unread[i]
  <2>1. TrueOf(t) /\ OldToken(line, t) /\ (t.k \notin Passive => t.n \in DOMAIN line.frames)
    BY <1>0 DEF Honest, KnownIn
  <2>2. Unread'[i] = t
    BY <1>0, WireKeepsUnread
  <2> HIDE DEF t
  <2>3. t.n # Last + 1 \/ t.k \in Passive
    BY <1>0, <2>1
  <2> QED
    BY <1>1, <1>2, <2>1, <2>2, <2>3 DEF TrueOf, Flags, Passive
<1>4. ASSUME NEW i \in DOMAIN Unread', i \notin DOMAIN Unread PROVE TrueOf(Unread[i])'
  <2>1. "sof" \in Kinds /\ Last + 1 \in Nat
    BY <1>0 DEF Kinds
  <2>2. Unread \in Seq(Tokens) /\ Unread' = Append(Unread, [k |-> "sof", n |-> Last + 1])
    BY <1>0, <1>1, <2>1, LockParts, UnreadGoes
  <2> DEFINE e == [k |-> "sof", n |-> Last + 1]
  <2>3. e \in Tokens /\ e.k = "sof"
    BY <2>1 DEF Tokens
  <2> HIDE DEF e
  <2>4. \A s \in Seq(Tokens) : \A j \in DOMAIN Append(s, e) : j \notin DOMAIN s => Append(s, e)[j] = e
    BY <2>3
  <2>5. Unread'[i] = e
    BY <1>4, <2>2, <2>4 DEF e
  <2> QED
    BY <2>3, <2>5 DEF TrueOf, Flags
<1>5. Honest'
  BY <1>1, <1>2, <1>3, <1>4 DEF Honest
<1>6. \A n : Delivering(n)' <=> Delivering(n)
  BY <1>0 DEF Delivering
<1>7. ASSUME NEW n \in DOMAIN line'.frames, line'.frames[n].ack = "us"
      PROVE  Delivering(n) \/ (line'.frames[n].ok = "no" /\ n < Last + 1)
  <2>1. n \in DOMAIN line.frames
    BY <1>0, <1>1, <1>7
  <2> QED
    BY <1>0, <1>1, <1>7, <2>1 DEF Delivers
<1>8. Delivers'
  BY <1>1, <1>2, <1>6, <1>7 DEF Delivers
<1> QED
  BY <1>5, <1>8

\* A step that changes neither the frames nor the words to come, nor begins an ack.
LEMMA StillDelivers ==
  ASSUME Honest, line' = line, Unread' = Unread, pio'.txsm # "acking" \/ pio'.txsm = pio.txsm
  PROVE  Honest'
<1>1. Last' = Last
  BY DEF Last
<1>2. ASSUME NEW i \in DOMAIN Unread PROVE TrueOf(Unread[i])'
  BY <1>1, <1>2 DEF Honest, TrueOf
<1> QED
  BY <1>1, <1>2 DEF Honest

\* A step of the wire keeps what is said of fields and acks.
LEMMA WireDelivers ==
  ASSUME WakeInv, WakeInv', Honest, Staged, Delivers, Wire, Unbroken(line')
  PROVE  Honest' /\ Staged' /\ Delivers'
<1>0. /\ LockInv /\ cd' = cd /\ log' = log
      /\ irq'.pc = irq.pc /\ irq'.mask = irq.mask /\ pio'.inte = pio.inte
      /\ WireTyped /\ Last \in Nat
  BY DeliverParts, WireWhole
<1>1. Staged'
  BY <1>0 DEF Staged, Watching
<1>2. ASSUME line' = line, pio'.txsm = pio.txsm PROVE Delivers'
  BY <1>0, <1>2 DEF Delivers, Delivering, Last
<1>3. ASSUME NEW k \in Kinds \cup {"none"}, Advances(k) PROVE Honest' /\ Delivers'
  BY <1>3, AdvanceDelivers
<1>4. ASSUME NEW src \in {"own", "peer"}, Starts(src) PROVE Honest' /\ Delivers'
  BY <1>4, StartDelivers
<1>5. CASE Senses
  <2>1. line' = line /\ pio'.txsm = pio.txsm
    BY <1>5 DEF Senses
  <2>2. Last' = Last
    BY <2>1 DEF Last
  <2> DEFINE e == [k |-> "idle", n |-> Last]
  <2>3. e \in Tokens /\ e.k = "idle" /\ Unread' = Append(Unread, e) /\ Unread \in Seq(Tokens)
    BY <1>0, <1>5, UnreadGoes DEF Tokens, Kinds
  <2> HIDE DEF e
  <2>4. \A s \in Seq(Tokens) : \A j \in DOMAIN Append(s, e) :
           (j \in DOMAIN s /\ Append(s, e)[j] = s[j]) \/ Append(s, e)[j] = e
    BY <2>3
  <2>5. ASSUME NEW j \in DOMAIN Unread' PROVE TrueOf(Unread[j])'
    <3>1. (j \in DOMAIN Unread /\ Unread'[j] = Unread[j]) \/ Unread'[j] = e
      BY <2>3, <2>4, <2>5
    <3>2. CASE j \in DOMAIN Unread /\ Unread'[j] = Unread[j]
      BY <2>1, <2>2, <3>2 DEF Honest, TrueOf
    <3>3. CASE Unread'[j] = e
      BY <2>3, <3>3 DEF TrueOf, Flags
    <3> QED
      BY <3>1, <3>2, <3>3
  <2> QED
    BY <1>1, <1>2, <2>1, <2>2, <2>5 DEF Honest
<1>6. CASE Signals
  <2>1. line' = line /\ pio'.txsm = pio.txsm /\ Unread' = Unread
    BY <1>0, <1>6, UnreadGoes DEF Signals
  <2> QED
    BY <1>1, <1>2, <2>1, StillDelivers
<1>7. CASE Pushes
  <2>1. line' = line /\ pio'.txsm = pio.txsm /\ Unread' = Unread
    BY <1>0, <1>7, UnreadGoes DEF Pushes
  <2> QED
    BY <1>1, <1>2, <2>1, StillDelivers
<1> QED
  BY <1>0, <1>1, <1>3, <1>4, <1>5, <1>6, <1>7, WireWhole

\* A word read keeps what is said of fields and acks.
LEMMA ReadsDelivers ==
  ASSUME WakeInv, Honest, Staged, Delivers, NEW t \in Tokens, Reads(t)
  PROVE  Honest' /\ Staged' /\ Delivers'
<1>0. /\ LockInv /\ Last = Latest(line) /\ line' = line /\ pio'.txsm = pio.txsm
      /\ 1 \in DOMAIN Unread /\ t = Unread[1] /\ Unread' = Tail(Unread) /\ Unread \in Seq(Tokens)
      /\ Does(World, World', t) /\ irq.pc = "loop" /\ irq'.pc \in {"out", "loop"}
      /\ World.cd = cd /\ World'.cd = cd' /\ World.pio = pio /\ World'.pio = pio'
      /\ World.log = log /\ World'.log = log' /\ WireInv(line, pio) /\ ParserInv(World)
  <2>1. LockInv /\ Last = Latest(line)
    BY DeliverParts
  <2> QED
    BY <2>1, LockParts DEF Reads, World
<1>1. OldToken(line, t) /\ TrueOf(t)
  BY <1>0, DeliverParts DEF Honest
<1>2. Honest'
  <2>1. Last' = Last
    BY <1>0 DEF Last
  <2>2. \A s \in Seq(Tokens) : \A i \in DOMAIN Tail(s) : i + 1 \in DOMAIN s /\ Tail(s)[i] = s[i + 1]
    OBVIOUS
  <2>3. ASSUME NEW i \in DOMAIN Unread' PROVE TrueOf(Unread[i])'
    <3>1. i + 1 \in DOMAIN Unread /\ Unread'[i] = Unread[i + 1]
      BY <1>0, <2>2, <2>3
    <3>2. TrueOf(Unread[i + 1])
      BY <3>1 DEF Honest
    <3> QED
      BY <1>0, <2>1, <3>1, <3>2 DEF TrueOf
  <2> QED
    BY <1>0, <2>1, <2>3 DEF Honest
<1> SUFFICES Staged' /\ Delivers'
  BY <1>2
<1> DEFINE s == cd.parse_state
           r == cd.report_state
           x == cd.tx_state
           i == pio.inte
           All == {"MAYTX", "TXPENDING", "RX_DATA"}
           n0 == cd.parse_msg
<1>3. s \in {"DISCARD", "START", "HEADER"} => r = "IDLE"
  BY <1>0 DEF ParserInv
<1>4. Receiving(r) => "MAYTX" \in i
  BY <1>0 DEF Staged, Watching
<1>5. /\ pio.txsm = "acking" => Delivering(Last)
      /\ \A n \in DOMAIN line.frames :
           line.frames[n].ack = "us" =>
             Delivering(n) \/ (line.frames[n].ok = "no" /\ (n < Last \/ Calm(line)))
  BY DEF Delivers
<1>6. ASSUME \A n : Delivering(n) => Delivering(n)' PROVE Delivers'
  BY <1>0, <1>5, <1>6 DEF Delivers, Last
<1>7. ASSUME cd'.report_state \notin {"RX_ACK", "RX_EOF"} PROVE Staged'
  BY <1>7 DEF Staged, Watching, Receiving
<1>8. CASE Discards(World, t) /\ SameFrame(World, World') /\ After(World', "DISCARD", "IDLE", x, All)
  <2>1. cd'.report_state = "IDLE" /\ log'.rx = log.rx
    BY <1>0, <1>8 DEF After, SameFrame
  <2>2. Staged'
    BY <1>7, <2>1
  <2>3. CASE ~Receiving(r)
    BY <1>2, <1>6, <2>1, <2>2, <2>3 DEF Delivering
  <2>4. CASE Receiving(r)
    <3>1. t.n = n0 /\ t.k \in {"err", "pas", "badcrc", "noack"}
      BY <1>0, <1>8, <2>4 DEF Discards
    <3>2. ASSUME NEW n, n # n0, Delivering(n) PROVE Delivering(n)'
      BY <2>1, <3>2 DEF Delivering
    <3>3. pio.txsm = "acking" => n0 # Last
      <4> SUFFICES ASSUME pio.txsm = "acking", n0 = Last PROVE FALSE
        OBVIOUS
      <4>1. line.phase = "crc"
        BY <1>0 DEF WireInv
      <4>2. CASE t.k \in {"err", "pas"}
        <5>1. t.n < Latest(line) \/ Calm(line)
          BY <1>1, <4>2 DEF OldToken, Closing
        <5>2. Latest(line) \in Nat
          BY <1>0, DeliverParts
        <5> QED
          BY <1>0, <3>1, <4>1, <5>1, <5>2 DEF Calm
      <4>3. CASE t.k \in {"badcrc", "noack"}
        BY <1>1, <3>1, <4>1, <4>3 DEF TrueOf
      <4> QED
        BY <3>1, <4>2, <4>3
    <3>4. ASSUME n0 \in DOMAIN line.frames, line.frames[n0].ack = "us"
          PROVE  line.frames[n0].ok = "no" /\ (n0 < Last \/ Calm(line))
      BY <1>0, <1>1, <3>1, <3>4 DEF TrueOf, OldToken, Closing, Flags
    <3> QED
      BY <1>0, <1>5, <2>2, <3>2, <3>3, <3>4 DEF Delivers, Last
  <2> QED
    BY <2>3, <2>4
<1>9. CASE s \in {"DISCARD", "START"} /\ log'.rx = log.rx /\ \E p, e : After(World', p, r, x, e)
  <2>1. r = "IDLE" /\ cd'.report_state = "IDLE"
    BY <1>0, <1>3, <1>9 DEF After
  <2> QED
    BY <1>6, <1>7, <1>9, <2>1 DEF Delivering, Receiving
<1>10. CASE s = "HEADER" /\ SameFrame(World, World') /\ After(World', "CRC", "TX_ACK", "CONFIRM_TX", i)
  <2>1. r = "IDLE" /\ cd'.report_state = "TX_ACK" /\ log'.rx = log.rx
    BY <1>0, <1>3, <1>10 DEF After, SameFrame
  <2> QED
    BY <1>6, <1>7, <2>1 DEF Delivering, Receiving
<1>11. CASE s = "HEADER" /\ SameFrame(World, World') /\ After(World', "CRC", "RX_ACK", x, All)
  <2>1. /\ r = "IDLE" /\ cd'.report_state = "RX_ACK" /\ log'.rx = log.rx /\ pio'.inte = All
        /\ cd'.parse_state = "CRC"
    BY <1>0, <1>3, <1>11 DEF After, SameFrame
  <2> QED
    BY <1>0, <1>6, <2>1 DEF Delivering, Receiving, Staged, Watching
<1>12. CASE /\ s = "CRC" /\ SameFrame(World, World')
            /\ After(World', "ACK", r, x, IF r = "TX_ACK" THEN {"MAYTX", "MATCHED", "RX_DATA"} ELSE i)
  <2>1. /\ cd'.report_state = r /\ log'.rx = log.rx /\ cd'.parse_msg = n0 /\ cd'.parse_state = "ACK"
        /\ Receiving(r) => pio'.inte = i
    BY <1>0, <1>12 DEF After, SameFrame, Receiving
  <2>2. r # "RX_EOF"
    BY <1>12 DEF Staged
  <2> QED
    BY <1>0, <1>4, <1>6, <2>1, <2>2 DEF Delivering, Staged, Watching
<1>13. CASE s = "ACK" /\ SameFrame(World, World')
            /\ After(World', "EOF0", IF r = "IDLE" THEN "IDLE" ELSE WithEof(r), x, i)
  <2>1. /\ cd'.report_state = (IF r = "IDLE" THEN "IDLE" ELSE WithEof(r))
        /\ log'.rx = log.rx /\ cd'.parse_msg = n0 /\ cd'.parse_state = "EOF0" /\ pio'.inte = i
    BY <1>0, <1>13 DEF After, SameFrame
  <2>2. r \in {"IDLE", "RX_ACK", "RX_EOF", "TX_ACK", "TX_EOF"}
    BY <1>0, LockParts DEF CdStates
  <2>3. /\ Receiving(cd'.report_state) <=> Receiving(r)
        /\ cd'.report_state # "RX_ACK"
    BY <2>1, <2>2 DEF WithEof, InTx, Receiving
  <2> QED
    BY <1>0, <1>4, <1>6, <2>1, <2>3 DEF Delivering, Staged, Watching
<1>14. CASE s = "EOF0" /\ SameFrame(World, World') /\ After(World', "EOF1", r, x, i)
  <2>1. /\ cd'.report_state = r /\ log'.rx = log.rx /\ cd'.parse_msg = n0 /\ cd'.parse_state = "EOF1"
        /\ pio'.inte = i
    BY <1>0, <1>14 DEF After, SameFrame
  <2>2. r # "RX_ACK"
    BY <1>14 DEF Staged
  <2> QED
    BY <1>0, <1>4, <1>6, <2>1, <2>2 DEF Delivering, Staged, Watching
<1>15. CASE /\ s = "EOF1" /\ cd'.parse_msg = n0 /\ cd'.report_state = "IDLE"
            /\ log'.rx = IF r = "RX_EOF" THEN Append(log.rx, n0) ELSE log.rx
  <2>1. r # "RX_ACK"
    BY <1>15 DEF Staged
  <2>2. ASSUME NEW n, Delivering(n) PROVE Delivering(n)'
    <3>1. log.rx \in Seq(Nat) /\ n0 \in Nat
      BY <1>0, LockParts DEF LogStates, CdStates
    <3>2. r = "RX_EOF" => \E j \in DOMAIN log'.rx : log'.rx[j] = n0
      BY <1>15, <3>1
    <3>3. \A j \in DOMAIN log.rx : j \in DOMAIN log'.rx /\ log'.rx[j] = log.rx[j]
      BY <1>15, <3>1
    <3> QED
      BY <2>1, <2>2, <3>2, <3>3 DEF Delivering, Receiving
  <2> QED
    BY <1>6, <1>7, <1>15, <2>2
<1> HIDE DEF s, x, i, All, r, n0
<1>16. \/ Discards(World, t) /\ SameFrame(World, World') /\ After(World', "DISCARD", "IDLE", x, All)
       \/ s \in {"DISCARD", "START"} /\ log'.rx = log.rx /\ \E p, e : After(World', p, r, x, e)
       \/ s = "HEADER" /\ SameFrame(World, World') /\ After(World', "CRC", "TX_ACK", "CONFIRM_TX", i)
       \/ s = "HEADER" /\ SameFrame(World, World') /\ After(World', "CRC", "RX_ACK", x, All)
       \/ /\ s = "CRC" /\ SameFrame(World, World')
          /\ After(World', "ACK", r, x, IF r = "TX_ACK" THEN {"MAYTX", "MATCHED", "RX_DATA"} ELSE i)
       \/ s = "ACK" /\ SameFrame(World, World')
            /\ After(World', "EOF0", IF r = "IDLE" THEN "IDLE" ELSE WithEof(r), x, i)
       \/ s = "EOF0" /\ SameFrame(World, World') /\ After(World', "EOF1", r, x, i)
       \/ /\ s = "EOF1" /\ cd'.parse_msg = n0 /\ cd'.report_state = "IDLE"
          /\ log'.rx = IF r = "RX_EOF" THEN Append(log.rx, n0) ELSE log.rx
  BY <1>0, <1>3 DEF Does, SameFrame, After, s, x, i, All, r, n0
<1> QED
  BY <1>2, <1>8, <1>9, <1>10, <1>11, <1>12, <1>13, <1>14, <1>15, <1>16

\* A step that leaves report, parser and acks alone, and asks for MAYTX where it did.
LEMMA SameDelivers ==
  ASSUME Steady, Honest, Staged, Delivers, SameRx,
         pio'.txsm # "acking" \/ pio'.txsm = pio.txsm,
         Receiving(cd.report_state) =>
           \/ irq'.pc \in {"out", "loop"} /\ "MAYTX" \in pio'.inte
           \/ irq'.pc \notin {"out", "loop"} /\ "MAYTX" \in irq'.mask
  PROVE  Honest' /\ Staged' /\ Delivers'
<1>1. /\ line' = line /\ pio'.fifo = pio.fifo /\ pio'.isr = pio.isr
      /\ cd'.parse_state = cd.parse_state /\ cd'.parse_msg = cd.parse_msg
      /\ cd'.report_state = cd.report_state /\ log'.rx = log.rx
  BY DEF Steady, SameRx
<1>2. Unread' = Unread /\ Last' = Last
  BY <1>1 DEF Unread, Last
<1>3. Honest'
  BY <1>1, <1>2, StillDelivers
<1>4. Staged'
  BY <1>1 DEF Staged, Watching
<1>5. \A n : Delivering(n)' <=> Delivering(n)
  BY <1>1 DEF Delivering
<1> QED
  BY <1>1, <1>2, <1>3, <1>4, <1>5 DEF Delivers

\* A flag that is served delivers what was acknowledged.
LEMMA ReportsDelivers ==
  ASSUME WakeInv, Unbroken(line), Steady, Honest, Staged, Delivers, NEW flag \in SmIrqs, Reports(flag)
  PROVE  Honest' /\ Staged' /\ Delivers'
<1>0. /\ LockInv /\ Turn /\ irq.pc = "loop" /\ "RX_DATA" \notin irq.ints /\ flag \in irq.ints
      /\ irq'.pc = "sched" /\ pio'.txsm = pio.txsm
  BY DEF WakeInv, HandInv, PendInv, Reports, Serves, SameTx
<1>1. CASE flag = "ACKDONE"
  BY <1>0, <1>1, SameDelivers DEF Reports
<1>2. CASE flag = "TXPENDING"
  <2>1. Receiving(cd.report_state) => "MAYTX" \in pio.inte
    BY <1>0 DEF Staged, Watching
  <2>2. irq'.mask = pio.inte \ {"TXPENDING"} /\ SameRx
    BY <1>2 DEF Reports
  <2> QED
    BY <1>0, <2>1, <2>2, SameDelivers
<1>3. CASE flag \in {"MATCHED", "MAYTX"}
  <2>1. /\ cd'.report_state = "IDLE" /\ line' = line /\ cd'.parse_msg = cd.parse_msg
        /\ log'.rx = IF cd.report_state = "RX_EOF" \/ (flag = "MATCHED" /\ cd.report_state = "RX_ACK")
                     THEN Append(log.rx, cd.parse_msg) ELSE log.rx
    BY <1>3 DEF Reports, Steady
  <2>2. flag = "MAYTX" => cd.report_state # "RX_ACK"
    BY <1>0 DEF Turn, Staged
  <2>3. ASSUME NEW n, Delivering(n) PROVE Delivering(n)'
    <3>1. log.rx \in Seq(Nat) /\ cd.parse_msg \in Nat
      BY <1>0, LockParts DEF LogStates, CdStates
    <3>2. Receiving(cd.report_state) => \E j \in DOMAIN log'.rx : log'.rx[j] = cd.parse_msg
      <4>1. Receiving(cd.report_state) => log'.rx = Append(log.rx, cd.parse_msg)
        BY <1>3, <2>1, <2>2 DEF Receiving
      <4>2. \A s \in Seq(Nat), m \in Nat : \E j \in DOMAIN Append(s, m) : Append(s, m)[j] = m
        <5> SUFFICES ASSUME NEW s \in Seq(Nat), NEW m \in Nat
                     PROVE  Len(s) + 1 \in DOMAIN Append(s, m) /\ Append(s, m)[Len(s) + 1] = m
          OBVIOUS
        <5> QED
          OBVIOUS
      <4> DEFINE q == Append(log.rx, cd.parse_msg)
      <4>3. \E j \in DOMAIN q : q[j] = cd.parse_msg
        BY <3>1, <4>2
      <4> HIDE DEF q
      <4>4. Receiving(cd.report_state) => log'.rx = q
        BY <4>1 DEF q
      <4> QED
        BY <4>3, <4>4
    <3>3. \A j \in DOMAIN log.rx : j \in DOMAIN log'.rx /\ log'.rx[j] = log.rx[j]
      BY <2>1, <3>1
    <3> QED
      BY <2>3, <3>2, <3>3 DEF Delivering
  <2>4. Delivers'
    BY <1>0, <2>1, <2>3 DEF Delivers, Last
  <2>5. Honest'
    <3>1. Unread' = Unread /\ line' = line
      BY DEF Steady, Unread
    <3> QED
      BY <1>0, <3>1, StillDelivers
  <2>6. Staged'
    BY <2>1 DEF Staged, Watching, Receiving
  <2> QED
    BY <2>4, <2>5, <2>6
<1> QED
  BY <1>1, <1>2, <1>3 DEF SmIrqs

\* Every step keeps DeliverInv.
LEMMA DeliverKept == DeliverInv /\ [Next]_vars => DeliverInv'
<1> SUFFICES ASSUME DeliverInv, [Next]_vars, Unbroken(line') PROVE Honest' /\ Staged' /\ Delivers'
  BY WakeKept DEF DeliverInv
<1>0. WakeInv /\ WakeInv' /\ LockInv
  BY WakeKept DEF DeliverInv, WakeInv, HandInv, PendInv
<1>1. CASE Wire
  BY <1>0, <1>1, WireDelivers, WireWhole DEF DeliverInv
<1>2. CASE ~Wire
  <2>1. Unbroken(line) /\ NodeGoes /\ line' = line /\ Honest /\ Staged /\ Delivers
    BY <1>0, <1>2, NodeAlone DEF DeliverInv
  <2>2. Receiving(cd.report_state) =>
          /\ irq.pc \in {"out", "loop"} => "MAYTX" \in pio.inte
          /\ irq.pc \notin {"out", "loop"} => "MAYTX" \in irq.mask
    BY <2>1 DEF Staged, Watching
  <2>3. ASSUME NEW t \in Tokens, Reads(t) PROVE Honest' /\ Staged' /\ Delivers'
    BY <1>0, <2>1, <2>3, ReadsDelivers
  <2>4. CASE Steady /\ Enters
    BY <2>1, <2>2, <2>4, SameDelivers DEF Enters, SameTx
  <2>5. ASSUME Steady, NEW flag \in SmIrqs, Reports(flag) PROVE Honest' /\ Staged' /\ Delivers'
    BY <1>0, <2>1, <2>5, ReportsDelivers
  <2>6. CASE Steady /\ Injects
    BY <2>1, <2>2, <2>6, SameDelivers DEF Injects
  <2>7. CASE Steady /\ Waits
    BY <2>1, <2>2, <2>7, SameDelivers DEF Waits, SameTx
  <2>8. CASE Steady /\ Sends
    BY <2>1, <2>2, <2>8, SameDelivers DEF Sends
  <2>9. CASE Steady /\ Empties
    BY <2>1, <2>2, <2>9, SameDelivers DEF Empties
  <2>10. CASE Steady /\ Submits
    BY <2>1, <2>2, <2>10, SameDelivers DEF Submits, SameTx
  <2>11. CASE UNCHANGED vars
    BY <2>1, <2>11 DEF Honest, Staged, Delivers, TrueOf, Watching, Delivering, Unread, Last, vars
  <2> QED
    BY <2>1, <2>3, <2>4, <2>5, <2>6, <2>7, <2>8, <2>9, <2>10, <2>11 DEF NodeGoes
<1> QED
  BY <1>1, <1>2

\* DeliverInv holds when the driver has started.
LEMMA DeliverInit == Init => DeliverInv
<1> SUFFICES ASSUME Init PROVE DeliverInv
  OBVIOUS
<1>1. /\ cd.report_state = "IDLE" /\ line.phase = "idle" /\ line.frames = <<>>
      /\ pio.txsm = "off" /\ pio.fifo = <<>> /\ pio.isr = <<>>
  BY DEF Init, PioInit
<1>2. <<>> \o <<>> = <<>> /\ DOMAIN <<>> = {}
  OBVIOUS
<1>3. DOMAIN Unread = {} /\ DOMAIN line.frames = {}
  BY <1>1, <1>2 DEF Unread
<1>4. Honest /\ Staged /\ Delivers
  BY <1>1, <1>3 DEF Honest, Staged, Delivers, Watching, Receiving
<1> QED
  BY <1>4, WakeInit DEF DeliverInv

\* Where nothing is going on and no restart came, what was acknowledged was delivered.
LEMMA NothingDropped ==
  ASSUME DeliverInv, line.wraps = Wraps
  PROVE  AckedIsDelivered
<1> SUFFICES ASSUME Quiet, ~log.err, ~pio.stall, NEW n \in DOMAIN line.frames,
                    line.frames[n].ack = "us", line.frames[n].ok # "no"
             PROVE  n \in Elements(log.rx)
  BY DEF AckedIsDelivered
<1>0. LockInv
  BY DEF DeliverInv, WakeInv, HandInv, PendInv
<1>1. Unbroken(line)
  <2>1. /\ line.overruns < Overruns => pio.stall \/ log.err
        /\ line.overruns <= Overruns /\ line.overruns \in Nat
    BY <1>0, LockParts, FlowParts DEF Lossless, WireInv, LineStates
  <2> QED
    BY <2>1, PioAssumption DEF Unbroken
<1>2. Staged /\ Delivering(n)
  BY <1>1 DEF DeliverInv, Delivers
<1>3. /\ pio.sync = "signalled" /\ irq.pc = "out" /\ Ints(pio) = {}
  BY DEF Quiet
<1>4. "MAYTX" \notin pio.inte
  BY <1>0, <1>3, LockParts DEF Ints, Intr, Shifted
<1>5. ~Receiving(cd.report_state)
  BY <1>2, <1>3, <1>4 DEF Staged, Watching
<1> QED
  BY <1>2, <1>5 DEF Delivering, Elements

\* What this node acknowledged it reports received, whatever order ack, match, idle line and
\* late rx words come in, until the idle counter overflows; the parser reports an overrun by log.err.
THEOREM AcksDelivered == Spec => [](line.wraps = Wraps => AckedIsDelivered)
<1>1. Init => DeliverInv
  BY DeliverInit
<1>2. DeliverInv /\ [Next]_vars => DeliverInv'
  BY DeliverKept
<1>3. DeliverInv => (line.wraps = Wraps => AckedIsDelivered)
  BY NothingDropped
<1> QED
  BY <1>1, <1>2, <1>3, PTL DEF Spec

-----------------------------------------------------------------------------
(* Frames of other nodes are none of this node's messages.                 *)

(* The messages come from where they should.                               *)
Origins ==
  /\ \A n \in DOMAIN line.frames : line.frames[n].src = "peer" => line.frames[n].msg \in PeerMsgs
  /\ app.msg \in AppMsgs \cup {NoMsg}
  /\ \A i \in 0..(QueueLen - 1) : cd.tx_queue[i] \in AppMsgs \cup {NoMsg}

\* A step of the wire keeps Origins: the arbitration is between this node and PeerMsgs.
LEMMA WireOrigins ==
  ASSUME LockInv, Origins, Wire
  PROVE  Origins'
<1>0. /\ WireTyped /\ WireNext /\ cd' = cd /\ app' = app /\ line.frames \in Seq(Frames)
  BY LockParts, WireParts DEF Wire, LineStates
<1> SUFFICES \A n \in DOMAIN line'.frames :
               line'.frames[n].src = "peer" => line'.frames[n].msg \in PeerMsgs
  BY <1>0 DEF Origins
<1>1. ASSUME NEW src, NEW m, NewFrame(src, m), src = "peer" => m \in PeerMsgs,
             NEW n \in DOMAIN line'.frames, line'.frames[n].src = "peer"
      PROVE  line'.frames[n].msg \in PeerMsgs
  <2> DEFINE f == [src |-> src, msg |-> m, ack |-> "none", ok |-> "no"]
  <2>1. line'.frames = Append(line.frames, f)
    BY <1>0, <1>1, LockParts DEF NewFrame, LineStates
  <2>2. f.src = src /\ f.msg = m
    OBVIOUS
  <2> HIDE DEF f
  <2>3. (n \in DOMAIN line.frames /\ line'.frames[n] = line.frames[n]) \/ line'.frames[n] = f
    BY <1>0, <1>1, <2>1
  <2> QED
    BY <1>1, <2>2, <2>3 DEF Origins
<1>2. CASE StartOwn
  BY <1>1, <1>2 DEF StartOwn
<1>3. ASSUME NEW m \in PeerMsgs, StartPeer(m) \/ LoseArbitration(m)
      PROVE  \A n \in DOMAIN line'.frames :
               line'.frames[n].src = "peer" => line'.frames[n].msg \in PeerMsgs
  BY <1>1, <1>3 DEF StartPeer, LoseArbitration
<1>4. ASSUME NEW k \in Kinds \cup {"none"}, Advances(k)
      PROVE  \A n \in DOMAIN line'.frames :
               line'.frames[n].src = "peer" => line'.frames[n].msg \in PeerMsgs
  BY <1>4 DEF Advances, FramesGo, Origins
<1>5. CASE FrameStep
  BY <1>0, <1>4, <1>5, FrameAdvances
<1>6. CASE IdleBits \/ SignalMayTx \/ LongIdle \/ Push
  BY <1>6 DEF IdleBits, SignalMayTx, LongIdle, Push, Origins
<1>7. CASE Overrun \/ CounterWraps
  <2>1. line'.frames = line.frames
    BY <1>7, LockParts DEF Overrun, CounterWraps, LineStates
  <2> QED
    BY <2>1 DEF Origins
<1> QED
  BY <1>0, <1>2, <1>3, <1>5, <1>6, <1>7 DEF WireNext

\* The main loop writes its messages only.
LEMMA MainOrigins ==
  ASSUME LockInv, Origins, Main
  PROVE  Origins'
<1>0. cd \in CdStates /\ app \in AppStates /\ line' = line
  BY LockParts DEF Main, TransmitBegin, TransmitFull, TransmitCopy, TransmitSubmit, TransmitWake
<1>1. /\ app'.msg \in AppMsgs \cup {NoMsg}
      /\ \/ cd'.tx_queue = cd.tx_queue
         \/ \E m \in AppMsgs \cup {NoMsg} : \E p : cd'.tx_queue = [cd.tx_queue EXCEPT ![p] = m]
  <2>1. ASSUME NEW m \in AppMsgs, TransmitBegin(m)
        PROVE  app'.msg = m /\ \E p : cd'.tx_queue = [cd.tx_queue EXCEPT ![p] = NoMsg]
    BY <1>0, <2>1 DEF TransmitBegin, CdStates
  <2>2. ASSUME NEW m \in AppMsgs, TransmitFull(m)
        PROVE  app'.msg = app.msg /\ cd'.tx_queue = cd.tx_queue
    BY <1>0, <2>2 DEF TransmitFull, AppStates
  <2>3. ASSUME TransmitCopy
        PROVE  /\ app'.msg = app.msg
               /\ \E p : cd'.tx_queue = [cd.tx_queue EXCEPT ![p] = app.msg]
    BY <1>0, <2>3 DEF TransmitCopy, AppStates, CdStates
  <2>4. ASSUME TransmitSubmit \/ TransmitWake
        PROVE  app'.msg = app.msg /\ cd'.tx_queue = cd.tx_queue
    BY <1>0, <2>4 DEF TransmitSubmit, TransmitWake, AppStates, CdStates
  <2> QED
    BY <2>1, <2>2, <2>3, <2>4 DEF Main, Origins
<1>2. \A i \in 0..(QueueLen - 1) : cd'.tx_queue[i] \in AppMsgs \cup {NoMsg}
  BY <1>0, <1>1 DEF Origins, CdStates
<1> QED
  BY <1>0, <1>1, <1>2 DEF Origins

\* Every step keeps Origins.
LEMMA OriginsKept == LockInv /\ Origins /\ [Next]_vars => Origins'
<1> SUFFICES ASSUME LockInv, Origins, [Next]_vars PROVE Origins'
  OBVIOUS
<1>1. CASE Handler
  <2>1. Moves
    BY <1>1, LockParts, HandlerMoves
  <2>2. cd'.tx_queue = cd.tx_queue /\ UNCHANGED <<line, app>>
    BY <2>1 DEF Moves, Same, Confirms, World
  <2> QED
    BY <2>2 DEF Origins
<1>2. CASE UNCHANGED vars
  BY <1>2 DEF Origins, vars
<1> QED
  BY <1>1, <1>2, WireOrigins, MainOrigins DEF Next

\* A queued message is none of another node's.
LEMMA OwnIsOwn ==
  ASSUME LockInv, Origins, PeerMsgs \cap AppMsgs = {},
         NEW n \in DOMAIN line.frames, line.frames[n].src = "peer"
  PROVE  line.frames[n].msg # SlotMsg(cd)
<1>1. line.frames[n].msg \in PeerMsgs /\ NoMsg \notin PeerMsgs
  BY PioAssumption DEF Origins
<1>2. tx_qpos(cd.tx_pull_pos) \in 0..(QueueLen - 1)
  <2>1. cd.tx_pull_pos \in Int /\ QueueLen \in Nat \ {0}
    BY LockParts, Can2040Assumption DEF CdStates
  <2> QED
    BY <2>1, ModRange DEF tx_qpos
<1>3. SlotMsg(cd) \in AppMsgs \cup {NoMsg}
  BY <1>2 DEF Origins, SlotMsg
<1> QED
  BY <1>1, <1>3

-----------------------------------------------------------------------------
(* This node's own frame is told apart by its body.                        *)

(* Field i that waits for the parser is the body of an own frame.          *)
OwnBody(i) == Unread[i].k = "body" /\ line.frames[Unread[i].n].src = "own"
NoOwnBody == \A i \in DOMAIN Unread : ~OwnBody(i)

(* An own frame has started.                                               *)
OwnStart == line.phase = "sof" /\ line.frames[Last].src = "own"

(* A body waits alone for its tenth bit: no other field precedes it.       *)
BodyFirst == \A i \in DOMAIN pio.isr : pio.isr[i].k = "body" => i = 1

(* While an own frame is on its way, from the "tx" machine to the parser,  *)
(* the driver knows that it sends, and what.                               *)
Echoes ==
  /\ \A i \in DOMAIN Unread : OwnBody(i) =>
       /\ cd.tx_state = "QUEUED" /\ line.frames[Unread[i].n].msg = pio.txmsg
       /\ pio.txsm \in {"sending", "conflict", "drained"}
       /\ \A j \in DOMAIN Unread : OwnBody(j) => j = i
  /\ pio.txsm = "armed" => cd.tx_state = "QUEUED"
  /\ OwnStart /\ pio.txsm = "sending" =>
       cd.tx_state = "QUEUED" /\ line.frames[Last].msg = pio.txmsg /\ NoOwnBody
  /\ BodyFirst

(* The handler has found that an ack is to be injected.                    *)
Asking ==
  /\ irq.pc = "loop" /\ "RX_DATA" \notin irq.ints /\ "MAYTX" \notin irq.ints
  /\ AckRequested

(* Before it does, the wire can go on to its end, fall idle, be signalled  *)
(* and start a frame of this node, but each of that takes a step.          *)
Prompt ==
  Asking =>
    /\ NoOwnBody
    /\ pio.fifo # <<>> => irq.slack + 1 <= Slack
    /\ line.phase = "idle" => irq.slack + 2 <= Slack
    /\ "MAYTX" \in pio.irqs => irq.slack + 3 <= Slack
    /\ OwnStart => irq.slack + 4 <= Slack
    /\ OwnStart /\ pio.isr = <<>> => irq.slack + 5 <= Slack

(* What is received comes from other nodes.                                *)
Others ==
  /\ Receiving(cd.report_state) => line.frames[cd.parse_msg].src = "peer"
  /\ \A i \in DOMAIN log.rx :
       log.rx[i] \in DOMAIN line.frames /\ line.frames[log.rx[i]].src = "peer"
  /\ \A n \in DOMAIN line.frames : line.frames[n].ack = "us" => line.frames[n].src = "peer"

(* Besides, own frames are recognised in time.                             *)
EchoInv == DeliverInv /\ Origins /\ (Unbroken(line) => Echoes /\ Prompt /\ Others)

\* Behind an empty rx fifo the fields to come are those of the shift register.
LEMMA EmptyFifo ==
  ASSUME LockInv, pio.fifo = <<>>
  PROVE  Unread = pio.isr
<1>1. \A s \in Seq(Tokens) : <<>> \o s = s
  OBVIOUS
<1> QED
  BY <1>1, LockParts DEF Unread

\* With an empty rx fifo, the parser expects the body of an own frame that was not pushed yet.
LEMMA OwnBodyHeader ==
  ASSUME LockInv, Unbroken(line), BodyFirst, pio.fifo = <<>>, NEW i \in DOMAIN Unread, OwnBody(i)
  PROVE  cd.parse_state = "HEADER"
<1>1. i = 1
  BY EmptyFifo DEF BodyFirst, OwnBody
<1>2. PICK r \in Seq(Tokens) :
           /\ IsRead(line, cd, r[1]) /\ r[1] \in Tokens
           /\ Unread # <<>> => 1 \in DOMAIN Unread /\ Succeeds(line, r[1], Unread[1])
  BY InThread
<1>3. Unread # <<>>
  <2>1. DOMAIN <<>> = {}
    OBVIOUS
  <2> QED
    BY <2>1
<1>4. r[1].k = "sof" /\ r[1].n = Unread[1].n
  BY <1>1, <1>2, <1>3 DEF OwnBody, Succeeds, Continues
<1>5. cd.parse_state \in {"START", "HEADER", "CRC", "ACK", "EOF0", "EOF1", "DISCARD"}
  BY LockParts DEF CdStates
<1> QED
  BY <1>1, <1>2, <1>4, <1>5 DEF IsRead, Ending, OwnBody

\* While the parser waits for the ack of a frame and has no words left, that frame is still on
\* the wire, or its end is.
LEMMA RxAcking ==
  LockInv /\ Unbroken(line) /\ Staged /\ BodyFirst /\ cd.report_state = "RX_ACK" /\ pio.fifo = <<>>
  => line.phase \notin {"idle", "sof"} /\ NoOwnBody
<1> SUFFICES ASSUME LockInv, Unbroken(line), Staged, BodyFirst, cd.report_state = "RX_ACK", pio.fifo = <<>>
             PROVE  line.phase \notin {"idle", "sof"} /\ NoOwnBody
  OBVIOUS
<1>1. PICK r \in Seq(Tokens) :
           /\ IsLast(line, pio, r[Len(r)]) /\ IsRead(line, cd, r[1])
           /\ Unread = <<>> => r[Len(r)] = r[1]
           /\ Unread # <<>> => 1 \in DOMAIN Unread /\ Succeeds(line, r[1], Unread[1])
  BY InThread
<1>2. r[1].k \in {"body", "crc"}
  BY <1>1 DEF Staged, IsRead
<1>3. Unread = pio.isr
  BY EmptyFifo
<1>4. Unread # <<>> => Unread[1].k \in {"crc", "badcrc", "err", "pas", "ack", "noack"}
  BY <1>1, <1>2 DEF Succeeds, Continues, Ending, Before
<1>5. line.phase \notin {"idle", "sof"}
  <2>1. CASE Unread = <<>>
    BY <1>1, <1>2, <2>1 DEF IsLast, LastKind, Ending, Before
  <2>2. CASE Unread # <<>>
    BY <1>1, <1>3, <1>4, <2>2, LockParts DEF Shifted
  <2> QED
    BY <2>1, <2>2
<1>6. NoOwnBody
  <2> SUFFICES ASSUME NEW i \in DOMAIN Unread, OwnBody(i) PROVE FALSE
    BY DEF NoOwnBody
  <2>1. cd.parse_state = "HEADER"
    BY OwnBodyHeader
  <2> QED
    BY <2>1 DEF Staged
<1> QED
  BY <1>5, <1>6

\* When the flags were just read, an ack that is to be injected is in time.
LEMMA AsksInTime ==
  LockInv /\ Unbroken(line) /\ Staged /\ BodyFirst /\ (irq.pc = "loop" => irq.ints = Ints(pio)) => Prompt
<1> SUFFICES ASSUME LockInv, Unbroken(line), Staged, BodyFirst, irq.pc = "loop" => irq.ints = Ints(pio), Asking
             PROVE  /\ NoOwnBody
                    /\ pio.fifo = <<>> /\ line.phase \notin {"idle", "sof"}
                    /\ "MAYTX" \notin pio.irqs
  BY DEF Prompt, OwnStart
<1>1. /\ "RX_DATA" \notin Ints(pio) /\ "MAYTX" \notin Ints(pio)
      /\ pio.inte = {"MAYTX", "TXPENDING", "RX_DATA"} /\ cd.report_state = "RX_ACK"
  BY DEF Asking, AckRequested
<1>2. pio.fifo = <<>> /\ "MAYTX" \notin pio.irqs
  BY <1>1 DEF Ints, Intr
<1> QED
  BY <1>1, <1>2, RxAcking

\* The wire brings the body of an own frame in one way only.
LEMMA WireOwnBody ==
  ASSUME LockInv, Wire, Unbroken(line'), NEW i \in DOMAIN Unread', OwnBody(i)'
  PROVE  \/ /\ i \in DOMAIN Unread /\ OwnBody(i) /\ Unread'[i] = Unread[i]
            /\ line'.frames[Unread[i].n].msg = line.frames[Unread[i].n].msg
         \/ /\ OwnStart /\ pio.txsm = "sending" /\ pio'.txsm = "sending" /\ pio.isr = <<>>
            /\ i = Len(Unread) + 1 /\ i \notin DOMAIN Unread
            /\ Unread'[i].n = Last /\ line'.frames[Last].msg = line.frames[Last].msg
            /\ line'.phase = "body"
<1> DEFINE Old == /\ i \in DOMAIN Unread /\ OwnBody(i) /\ Unread'[i] = Unread[i]
                  /\ line'.frames[Unread[i].n].msg = line.frames[Unread[i].n].msg
           New == /\ OwnStart /\ pio.txsm = "sending" /\ pio'.txsm = "sending" /\ pio.isr = <<>>
                  /\ i = Len(Unread) + 1 /\ i \notin DOMAIN Unread
                  /\ Unread'[i].n = Last /\ line'.frames[Last].msg = line.frames[Last].msg
                  /\ line'.phase = "body"
<1>0. /\ WireTyped /\ Last \in Nat /\ DOMAIN line.frames = 1..Last /\ Unread \in Seq(Tokens)
      /\ KnownIn(line, Unread) /\ Unread'[i].k = "body" /\ line'.frames[Unread'[i].n].src = "own"
  BY LockParts, WireParts DEF OwnBody, Latest, Last
<1>1. ASSUME i \in DOMAIN Unread,
             \A n \in DOMAIN line.frames : /\ line'.frames[n].src = line.frames[n].src
                                           /\ line'.frames[n].msg = line.frames[n].msg
      PROVE  Old
  <2>1. Unread'[i] = Unread[i]
    BY <1>1, WireKeepsUnread
  <2>2. Unread[i].n \in DOMAIN line.frames
    BY <1>0, <1>1, <2>1 DEF KnownIn, Passive
  <2> QED
    BY <1>0, <1>1, <2>1, <2>2 DEF OwnBody
<1>2. ASSUME NEW e \in Tokens, Unread' = Append(Unread, e), i \notin DOMAIN Unread
      PROVE  i = Len(Unread) + 1 /\ Unread'[i] = e
  <2>1. \A s \in Seq(Tokens) : \A j \in DOMAIN Append(s, e) :
           j \notin DOMAIN s => j = Len(s) + 1 /\ Append(s, e)[j] = e
    OBVIOUS
  <2> QED
    BY <1>0, <1>2, <2>1
<1>3. ASSUME NEW k \in Kinds \cup {"none"}, Advances(k) PROVE Old \/ New
  <2>1. /\ FramesGo(k) /\ TxGoes /\ Onto(line.phase, k, line'.phase) /\ pio'.fifo = pio.fifo
        /\ pio'.isr = (IF k = "none" THEN pio.isr ELSE Sampled(k, Last))
        /\ k = "body" => pio.isr = <<>>
        /\ line.phase = "sof" /\ Frame.src = "own" /\ k \notin Flags => pio.txsm = "sending" /\ k = "body"
    BY <1>3 DEF Advances
  <2>2. CASE i \in DOMAIN Unread
    BY <1>1, <2>1, <2>2 DEF FramesGo
  <2>3. CASE i \notin DOMAIN Unread
    <3>1. k # "none"
      BY <1>0, <2>1, <2>3, UnreadGoes
    <3> DEFINE e == [k |-> k, n |-> Last]
    <3>2. e \in Tokens /\ e.k = k /\ e.n = Last
      BY <1>0, <3>1 DEF Tokens
    <3>3. Unread' = Append(Unread, e)
      BY <1>0, <2>1, <3>1, UnreadGoes
    <3> HIDE DEF e
    <3>4. i = Len(Unread) + 1 /\ k = "body" /\ Unread'[i].n = Last
      BY <1>0, <1>2, <2>3, <3>2, <3>3
    <3>5. line.phase = "sof" /\ line'.phase = "body"
      BY <2>1, <3>4 DEF Onto
    <3>6. Last \in DOMAIN line.frames
      BY <1>0, <3>5, WireParts
    <3>7. OwnStart /\ pio.txsm = "sending"
      BY <1>0, <2>1, <3>4, <3>5, <3>6 DEF FramesGo, OwnStart, Frame, Flags
    <3>8. pio'.txsm = "sending"
      BY <2>1, <3>5, <3>7 DEF TxGoes
    <3> QED
      BY <2>1, <2>3, <3>4, <3>5, <3>6, <3>7, <3>8 DEF FramesGo
  <2> QED
    BY <2>2, <2>3
<1>4. ASSUME NEW src \in {"own", "peer"}, Starts(src) PROVE Old
  <2>1. "sof" \in Kinds /\ Last + 1 \in Nat
    BY <1>0 DEF Kinds
  <2> DEFINE e == [k |-> "sof", n |-> Last + 1]
  <2>2. e \in Tokens /\ e.k = "sof" /\ Unread' = Append(Unread, e)
    BY <1>0, <1>4, <2>1, UnreadGoes DEF Starts, Tokens
  <2> HIDE DEF e
  <2>3. i \in DOMAIN Unread
    BY <1>0, <1>2, <2>2
  <2> QED
    BY <1>1, <1>4, <2>3 DEF Starts
<1>5. CASE Senses
  <2> DEFINE e == [k |-> "idle", n |-> Last]
  <2>1. e \in Tokens /\ e.k = "idle" /\ Unread' = Append(Unread, e)
    BY <1>0, <1>5, UnreadGoes DEF Tokens, Kinds
  <2> HIDE DEF e
  <2>2. i \in DOMAIN Unread
    BY <1>0, <1>2, <2>1
  <2> QED
    BY <1>1, <1>5, <2>2 DEF Senses
<1>6. CASE Signals
  BY <1>0, <1>1, <1>6, UnreadGoes DEF Signals
<1>7. CASE Pushes
  BY <1>0, <1>1, <1>7, UnreadGoes DEF Pushes
<1> QED
  BY <1>3, <1>4, <1>5, <1>6, <1>7, WireWhole

\* A frame of this node that starts on the wire, or is on it.
LEMMA WireOwnStart ==
  ASSUME LockInv, Wire, Unbroken(line'), OwnStart'
  PROVE  \/ /\ OwnStart /\ Last' = Last /\ line'.frames[Last].msg = line.frames[Last].msg
            /\ pio'.txsm = pio.txsm /\ line' = line
         \/ /\ pio.txsm = "armed" /\ "MAYTX" \in pio.irqs /\ Last' = Last + 1
            /\ line'.frames[Last + 1].msg = pio.txmsg /\ pio'.isr # <<>>
<1>0. WireTyped /\ WireTyped' /\ Last \in Nat /\ pio.isr \in Seq(Tokens)
  BY LockParts, WireParts, WireType, WireWhole
<1>1. ASSUME NEW k \in Kinds \cup {"none"}, Advances(k) PROVE FALSE
  BY <1>1 DEF Advances, Onto, OwnStart
<1>2. ASSUME NEW src \in {"own", "peer"}, Starts(src)
      PROVE  /\ pio.txsm = "armed" /\ "MAYTX" \in pio.irqs /\ Last' = Last + 1
             /\ line'.frames[Last + 1].msg = pio.txmsg /\ pio'.isr # <<>>
  <2>1. line'.frames \in Seq(Frames) /\ DOMAIN line'.frames = 1..(Last + 1)
    BY <1>0, <1>2 DEF WireTyped, LineStates, Starts
  <2>2. Last' = Last + 1
    BY <1>0, <2>1 DEF Last
  <2>3. src = "own"
    BY <1>2, <2>2 DEF Starts, OwnStart
  <2>4. pio'.isr # <<>>
    <3> DEFINE e == [k |-> "sof", n |-> Last + 1]
    <3>1. pio'.isr = Append(pio.isr, e)
      BY <1>2 DEF Starts, Sampled
    <3> HIDE DEF e
    <3> QED
      BY <1>0, <3>1
  <2> QED
    BY <1>2, <2>2, <2>3, <2>4 DEF Starts
<1>3. ASSUME line' = line, pio'.txsm = pio.txsm
      PROVE  /\ OwnStart /\ Last' = Last /\ line'.frames[Last].msg = line.frames[Last].msg
             /\ pio'.txsm = pio.txsm
  BY <1>3 DEF OwnStart, Last
<1> QED
  BY <1>1, <1>2, <1>3, WireWhole DEF Senses, Signals, Pushes

\* A step of the wire leaves the body of an own frame told apart.
LEMMA WireEchoes ==
  ASSUME LockInv, Echoes, Wire, Unbroken(line')
  PROVE  Echoes'
<1>0. /\ cd' = cd /\ Unbroken(line) /\ WireTyped /\ Last \in Nat
      /\ pio.isr \in Seq(Tokens)
  BY LockParts, WireParts, WireWhole
<1>1. pio'.txmsg = pio.txmsg
  BY WireWhole DEF Advances, Starts, Senses, Signals, Pushes
<1>2. /\ pio'.txsm = "armed" => pio.txsm = "armed"
      /\ pio.txsm \in {"sending", "conflict", "drained"} => pio'.txsm \in {"sending", "conflict", "drained"}
  <2>1. ASSUME NEW k \in Kinds \cup {"none"}, Advances(k)
        PROVE  /\ pio'.txsm = "armed" => pio.txsm = "armed"
               /\ pio.txsm \in {"sending", "conflict", "drained"} => pio'.txsm \in {"sending", "conflict", "drained"}
    BY <2>1 DEF Advances, TxGoes
  <2>2. ASSUME NEW src \in {"own", "peer"}, Starts(src)
        PROVE  /\ pio'.txsm = "armed" => pio.txsm = "armed"
               /\ pio.txsm \in {"sending", "conflict", "drained"} => pio'.txsm \in {"sending", "conflict", "drained"}
    BY <2>2 DEF Starts
  <2> QED
    BY <2>1, <2>2, WireWhole DEF Senses, Signals, Pushes
<1>3. ASSUME NEW i \in DOMAIN Unread', OwnBody(i)'
      PROVE  /\ cd.tx_state = "QUEUED" /\ line'.frames[Unread'[i].n].msg = pio'.txmsg
             /\ pio'.txsm \in {"sending", "conflict", "drained"}
             /\ \/ i \in DOMAIN Unread /\ OwnBody(i)
                \/ NoOwnBody /\ i = Len(Unread) + 1
  BY <1>1, <1>2, <1>3, WireOwnBody DEF Echoes
<1>4. ASSUME NEW i \in DOMAIN Unread', OwnBody(i)', NEW j \in DOMAIN Unread', OwnBody(j)'
      PROVE  j = i
  BY <1>3, <1>4 DEF Echoes, NoOwnBody
<1>5. ASSUME OwnStart', pio'.txsm = "sending"
      PROVE  cd.tx_state = "QUEUED" /\ line'.frames[Last'].msg = pio'.txmsg /\ NoOwnBody'
  <2>1. \/ /\ OwnStart /\ Last' = Last /\ line'.frames[Last].msg = line.frames[Last].msg
           /\ pio'.txsm = pio.txsm /\ line' = line
        \/ pio.txsm = "armed" /\ Last' = Last + 1 /\ line'.frames[Last + 1].msg = pio.txmsg
    BY <1>5, WireOwnStart
  <2>2. NoOwnBody
    BY <1>5, <2>1 DEF Echoes, NoOwnBody
  <2>3. line'.phase = "sof"
    BY <1>5 DEF OwnStart
  <2>4. NoOwnBody'
    BY <2>2, <2>3, WireOwnBody DEF NoOwnBody
  <2> QED
    BY <1>1, <1>5, <2>1, <2>4 DEF Echoes
<1>6. BodyFirst'
  <2> SUFFICES ASSUME NEW i \in DOMAIN pio'.isr, pio'.isr[i].k = "body" PROVE i = 1
    BY DEF BodyFirst
  <2>1. ASSUME NEW k \in Kinds, NEW n \in Nat, pio'.isr = Sampled(k, n), k = "body" => pio.isr = <<>>
        PROVE  i = 1
    <3>1. (i \in DOMAIN pio.isr /\ pio'.isr[i] = pio.isr[i]) \/ pio'.isr[i].k = k
      BY <1>0, <2>1, SampledAt
    <3>2. CASE i \in DOMAIN pio.isr /\ pio'.isr[i] = pio.isr[i]
      BY <3>2 DEF Echoes, BodyFirst
    <3>3. CASE k = "body"
      <4> DEFINE e == [k |-> k, n |-> n]
      <4>1. pio'.isr = Append(<<>>, e)
        BY <2>1, <3>3 DEF Sampled
      <4> HIDE DEF e
      <4> QED
        BY <4>1
    <3> QED
      BY <3>1, <3>2, <3>3
  <2>2. ASSUME pio'.isr = pio.isr \/ pio'.isr = <<>> PROVE i = 1
    BY <2>2 DEF Echoes, BodyFirst
  <2>3. ASSUME NEW k \in Kinds \cup {"none"}, Advances(k) PROVE i = 1
    BY <1>0, <2>1, <2>2, <2>3 DEF Advances
  <2>4. ASSUME NEW src \in {"own", "peer"}, Starts(src) PROVE i = 1
    <3>1. "sof" \in Kinds /\ Last + 1 \in Nat
      BY <1>0 DEF Kinds
    <3> QED
      BY <2>1, <2>4, <3>1 DEF Starts
  <2> QED
    BY <2>2, <2>3, <2>4, WireWhole DEF Senses, Signals, Pushes
<1>7. pio'.txsm = "armed" => cd.tx_state = "QUEUED"
  BY <1>2 DEF Echoes
<1> QED
  BY <1>0, <1>3, <1>4, <1>5, <1>6, <1>7 DEF Echoes

\* A step of the wire before an ack is injected takes its time.
LEMMA WirePrompt ==
  ASSUME LockInv, LockInv', Echoes', Prompt, Staged', Wire, Unbroken(line'), Slack <= 5
  PROVE  Prompt'
<1> SUFFICES ASSUME Asking'
             PROVE  /\ NoOwnBody'
                    /\ pio'.fifo # <<>> => irq'.slack + 1 <= Slack
                    /\ line'.phase = "idle" => irq'.slack + 2 <= Slack
                    /\ "MAYTX" \in pio'.irqs => irq'.slack + 3 <= Slack
                    /\ OwnStart' => irq'.slack + 4 <= Slack
                    /\ OwnStart' /\ pio'.isr = <<>> => irq'.slack + 5 <= Slack
  BY DEF Prompt
<1>0. /\ cd' = cd /\ irq'.pc = irq.pc /\ irq'.ints = irq.ints /\ pio'.inte = pio.inte
      /\ irq \in IrqStates /\ Slack \in Nat
  BY WireWhole, LockParts, Can2040Assumption
<1>1. Asking /\ cd'.report_state = "RX_ACK"
  BY <1>0 DEF Asking, AckRequested
<1>2. irq.slack \in Nat /\ irq.slack > 0 /\ irq.slack <= Slack /\ irq'.slack = irq.slack - 1
  BY <1>0, <1>1 DEF Wire, Serving, Asking, IrqStates
<1>3. /\ NoOwnBody
      /\ pio.fifo # <<>> => irq.slack + 1 <= Slack
      /\ line.phase = "idle" => irq.slack + 2 <= Slack
      /\ "MAYTX" \in pio.irqs => irq.slack + 3 <= Slack
      /\ OwnStart => irq.slack + 4 <= Slack
      /\ OwnStart /\ pio.isr = <<>> => irq.slack + 5 <= Slack
  BY <1>1 DEF Prompt
<1>4. NoOwnBody'
  BY <1>0, <1>2, <1>3, WireOwnBody DEF NoOwnBody
<1>5. pio'.fifo # <<>> => irq'.slack + 1 <= Slack
  BY <1>0, <1>2
<1>6. line'.phase = "idle" => irq'.slack + 2 <= Slack
  <2> SUFFICES ASSUME line'.phase = "idle", line.phase # "idle", pio.fifo = <<>> PROVE FALSE
    BY <1>0, <1>2, <1>3
  <2>1. pio'.fifo = <<>>
    BY WireWhole DEF Advances, Starts, Senses, Signals, Pushes
  <2>2. (LockInv /\ Unbroken(line) /\ Staged /\ BodyFirst /\ cd.report_state = "RX_ACK" /\ pio.fifo = <<>>
         => line.phase \notin {"idle", "sof"} /\ NoOwnBody)'
    BY RxAcking, PTL
  <2> QED
    BY <1>1, <2>1, <2>2 DEF Echoes
<1>7. "MAYTX" \in pio'.irqs => irq'.slack + 3 <= Slack
  <2>1. "MAYTX" \in pio'.irqs => "MAYTX" \in pio.irqs \/ line.phase = "idle"
    BY WireWhole DEF Advances, Starts, Senses, Signals, Pushes
  <2> QED
    BY <1>0, <1>2, <1>3, <2>1
<1>8. ASSUME OwnStart'
      PROVE  irq'.slack + 4 <= Slack /\ (pio'.isr = <<>> => irq'.slack + 5 <= Slack)
  <2>1. OwnStart \/ ("MAYTX" \in pio.irqs /\ pio'.isr # <<>>)
    BY <1>8, WireOwnStart
  <2> QED
    BY <1>0, <1>2, <1>3, <2>1
<1> QED
  BY <1>4, <1>5, <1>6, <1>7, <1>8

\* A step of the wire acknowledges frames of other nodes only.
LEMMA WireOthers ==
  ASSUME LockInv, Staged, Delivers, Others, Wire, Unbroken(line')
  PROVE  Others'
<1>0. /\ cd' = cd /\ log' = log /\ WireTyped /\ Last \in Nat /\ DOMAIN line.frames = 1..Last
      /\ Latest(line) = Last
  BY LockParts, WireParts, WireWhole DEF Latest, Last
<1>1. Receiving(cd.report_state) => cd.parse_msg \in DOMAIN line.frames
  BY LockParts DEF QueueInv, Sent, Staged, Receiving
<1>2. ASSUME DOMAIN line.frames \subseteq DOMAIN line'.frames,
             \A n \in DOMAIN line.frames : line'.frames[n].src = line.frames[n].src,
             \A n \in DOMAIN line'.frames : line'.frames[n].ack = "us" =>
                n \in DOMAIN line.frames /\ line.frames[n].src = "peer"
      PROVE  Others'
  BY <1>0, <1>1, <1>2 DEF Others
<1>3. ASSUME NEW k \in Kinds \cup {"none"}, Advances(k) PROVE Others'
  <2>1. /\ DOMAIN line'.frames = DOMAIN line.frames
        /\ \A n \in DOMAIN line.frames :
             /\ n # Last => line'.frames[n] = line.frames[n]
             /\ line'.frames[n].src = line.frames[n].src
        /\ line'.frames[Last].ack # line.frames[Last].ack => line'.phase = "ack"
        /\ line'.phase = "ack" => (line'.frames[Last].ack = "us" => pio.txsm = "acking")
    BY <1>3 DEF Advances, FramesGo
  <2>2. ASSUME pio.txsm = "acking", Last \in DOMAIN line.frames PROVE line.frames[Last].src = "peer"
    BY <2>2 DEF Delivers, Delivering, Others
  <2>3. ASSUME NEW n \in DOMAIN line.frames, line'.frames[n].ack = "us"
        PROVE  line.frames[n].src = "peer"
    <3>1. CASE line.frames[n].ack = "us"
      BY <3>1 DEF Others
    <3>2. CASE line.frames[n].ack # "us"
      BY <2>1, <2>2, <2>3, <3>2
    <3> QED
      BY <3>1, <3>2
  <2> QED
    BY <1>2, <2>1, <2>3
<1>4. ASSUME NEW src \in {"own", "peer"}, Starts(src) PROVE Others'
  <2>1. /\ DOMAIN line'.frames = 1..(Last + 1) /\ line'.frames[Last + 1].ack = "none"
        /\ \A n \in DOMAIN line.frames : line'.frames[n] = line.frames[n]
    BY <1>4 DEF Starts
  <2>2. DOMAIN line.frames \subseteq DOMAIN line'.frames
    BY <1>0, <2>1
  <2>3. ASSUME NEW n \in DOMAIN line'.frames, line'.frames[n].ack = "us"
        PROVE  n \in DOMAIN line.frames /\ line.frames[n].src = "peer"
    <3>1. n \in DOMAIN line.frames
      BY <1>0, <2>1, <2>3
    <3> QED
      BY <2>1, <2>3, <3>1 DEF Others
  <2> QED
    BY <1>2, <2>1, <2>2, <2>3
<1>5. ASSUME line' = line PROVE Others'
  BY <1>0, <1>5 DEF Others
<1> QED
  BY <1>3, <1>4, <1>5, WireWhole DEF Senses, Signals, Pushes

\* The body of another node's frame is never taken for an own one, and an own one always is.
LEMMA EchoIsOwn ==
  ASSUME LockInv, Origins, Echoes, PeerMsgs \cap AppMsgs = {}, NEW t \in Tokens, Reads(t), t.k = "body",
         cd.parse_state = "HEADER"
  PROVE  /\ t.n = cd.parse_msg /\ t.n \in DOMAIN line.frames
         /\ Echo(World) <=> OwnBody(1)
         /\ line.frames[t.n].src = IF Echo(World) THEN "own" ELSE "peer"
<1>1. /\ t.n = cd.parse_msg /\ t.n \in DOMAIN line.frames /\ 1 \in DOMAIN Unread /\ t = Unread[1]
      /\ World.cd = cd
  BY DEF Reads, Mid, World
<1>2. line.frames[t.n].src \in {"own", "peer"}
  <2>1. line.frames \in Seq(Frames)
    BY LockParts DEF LineStates
  <2>2. line.frames[t.n] \in Frames
    BY <1>1, <2>1
  <2> QED
    BY <2>2 DEF Frames
<1>3. Echo(World) => line.frames[t.n].src = "own"
  BY <1>1, <1>2, OwnIsOwn DEF Echo
<1>4. OwnBody(1) <=> line.frames[t.n].src = "own"
  BY <1>1 DEF OwnBody
<1>5. OwnBody(1) => Echo(World)
  BY <1>1, LockParts DEF Echoes, Echo, QueueInv, Sent
<1> QED
  BY <1>1, <1>2, <1>3, <1>4, <1>5

\* A word read leaves the body of an own frame told apart.
LEMMA ReadsEchoes ==
  ASSUME LockInv, Origins, Echoes, PeerMsgs \cap AppMsgs = {}, NEW t \in Tokens, Reads(t)
  PROVE  Echoes'
<1>0. /\ line' = line /\ pio'.txsm = pio.txsm /\ pio'.txmsg = pio.txmsg /\ pio'.isr = pio.isr
      /\ 1 \in DOMAIN Unread /\ t = Unread[1] /\ Unread' = Tail(Unread) /\ Unread \in Seq(Tokens)
      /\ World.cd = cd /\ World'.cd = cd' /\ Last' = Last
  BY LockParts DEF Reads, World, Last
<1>1. \A i \in DOMAIN Unread' : i + 1 \in DOMAIN Unread /\ Unread'[i] = Unread[i + 1] /\ i \in Nat \ {0}
  <2>1. \A s \in Seq(Tokens) : \A i \in DOMAIN Tail(s) :
           i + 1 \in DOMAIN s /\ Tail(s)[i] = s[i + 1] /\ i \in Nat \ {0}
    OBVIOUS
  <2> QED
    BY <1>0, <2>1
<1>2. ASSUME NEW i \in DOMAIN Unread', OwnBody(i)' PROVE OwnBody(i + 1) /\ i + 1 \in DOMAIN Unread
  BY <1>0, <1>1, <1>2 DEF OwnBody
<1>3. NoOwnBody => NoOwnBody'
  BY <1>2 DEF NoOwnBody
<1>4. BodyFirst'
  BY <1>0 DEF Echoes, BodyFirst
<1>5. OwnStart' <=> OwnStart
  BY <1>0 DEF OwnStart
<1>6. CASE cd'.tx_state = cd.tx_state
  <2>1. ASSUME NEW i \in DOMAIN Unread', OwnBody(i)'
        PROVE  /\ cd.tx_state = "QUEUED" /\ line.frames[Unread'[i].n].msg = pio.txmsg
               /\ pio.txsm \in {"sending", "conflict", "drained"}
               /\ \A j \in DOMAIN Unread' : OwnBody(j)' => j = i
    <3>1. OwnBody(i + 1) /\ i + 1 \in DOMAIN Unread /\ Unread'[i] = Unread[i + 1] /\ i \in Nat
      BY <1>1, <1>2, <2>1
    <3>2. \A j \in DOMAIN Unread' : OwnBody(j)' => j + 1 = i + 1 /\ j \in Nat
      BY <1>1, <1>2, <3>1 DEF Echoes
    <3> QED
      BY <3>1, <3>2 DEF Echoes
  <2> QED
    BY <1>0, <1>3, <1>4, <1>5, <1>6, <2>1 DEF Echoes
<1>7. CASE cd'.tx_state # cd.tx_state
  <2>1. t.k = "body" /\ cd.parse_state = "HEADER" /\ Echo(World)
    BY <1>0, <1>7 DEF Reads, Does, After
  <2>2. OwnBody(1)
    BY <2>1, EchoIsOwn
  <2>3. /\ pio.txsm \in {"sending", "conflict", "drained"}
        /\ \A j \in DOMAIN Unread : OwnBody(j) => j = 1
        /\ ~(OwnStart /\ pio.txsm = "sending")
    BY <1>0, <2>2 DEF Echoes, NoOwnBody
  <2>4. NoOwnBody'
    <3> SUFFICES ASSUME NEW i \in DOMAIN Unread', OwnBody(i)' PROVE FALSE
      BY DEF NoOwnBody
    <3>1. i + 1 = 1 /\ i \in Nat \ {0}
      BY <1>1, <1>2, <2>3
    <3> QED
      BY <3>1
  <2> QED
    BY <1>0, <1>4, <1>5, <2>3, <2>4 DEF Echoes, NoOwnBody
<1> QED
  BY <1>6, <1>7

\* Whose frame is received when a word was read.
LEMMA ReadsOthers ==
  ASSUME LockInv, Origins, Echoes, Staged, Others, PeerMsgs \cap AppMsgs = {}, NEW t \in Tokens, Reads(t)
  PROVE  Others'
<1>0. /\ line' = line /\ Does(World, World', t) /\ ParserInv(World)
      /\ World.cd = cd /\ World'.cd = cd' /\ World.pio = pio /\ World'.pio = pio'
      /\ World.log = log /\ World'.log = log'
  BY LockParts DEF Reads, World
<1> DEFINE s == cd.parse_state
           x == cd.tx_state
           r == cd.report_state
           i == pio.inte
           n0 == cd.parse_msg
           All == {"MAYTX", "TXPENDING", "RX_DATA"}
<1>1. Receiving(r) => n0 \in DOMAIN line.frames /\ line.frames[n0].src = "peer"
  BY LockParts DEF QueueInv, Sent, Staged, Receiving, Others
<1>2. /\ \A j \in DOMAIN log.rx :
           log.rx[j] \in DOMAIN line.frames /\ line.frames[log.rx[j]].src = "peer"
      /\ \A n \in DOMAIN line.frames : line.frames[n].ack = "us" => line.frames[n].src = "peer"
  BY DEF Others
<1>3. ASSUME log'.rx = log.rx, Receiving(cd'.report_state) => line.frames[cd'.parse_msg].src = "peer"
      PROVE  Others'
  BY <1>0, <1>2, <1>3 DEF Others
<1>4. s \in {"DISCARD", "START", "HEADER"} => ~Receiving(r) /\ r = "IDLE"
  BY <1>0 DEF ParserInv, Receiving
<1>5. CASE SameFrame(World, World') /\ (Receiving(cd'.report_state) => Receiving(r))
  BY <1>0, <1>1, <1>3, <1>5 DEF SameFrame
<1>6. CASE log'.rx = log.rx /\ ~Receiving(cd'.report_state)
  BY <1>3, <1>6
<1>7. CASE s = "HEADER" /\ t.k = "body" /\ ~Echo(World) /\ SameFrame(World, World')
  <2>1. t.n = n0 /\ line.frames[n0].src = "peer"
    BY <1>7, EchoIsOwn
  <2> QED
    BY <1>0, <1>3, <1>7, <2>1 DEF SameFrame
<1>8. CASE /\ cd'.report_state = "IDLE"
           /\ log'.rx = IF r = "RX_EOF" THEN Append(log.rx, n0) ELSE log.rx
  <2>1. log.rx \in Seq(Nat) /\ n0 \in Nat
    BY LockParts DEF LogStates, CdStates
  <2>2. \A j \in DOMAIN log'.rx : \/ j \in DOMAIN log.rx /\ log'.rx[j] = log.rx[j]
                                  \/ r = "RX_EOF" /\ log'.rx[j] = n0
    BY <1>8, <2>1
  <2>3. \A j \in DOMAIN log'.rx :
           log'.rx[j] \in DOMAIN line.frames /\ line.frames[log'.rx[j]].src = "peer"
    BY <1>1, <1>2, <2>2 DEF Receiving
  <2> QED
    BY <1>0, <1>2, <1>8, <2>3 DEF Others, Receiving
<1> HIDE DEF s, x, i, All, r, n0
<1>9. \/ SameFrame(World, World') /\ After(World', "DISCARD", "IDLE", x, All)
      \/ s \in {"DISCARD", "START"} /\ log'.rx = log.rx /\ \E p, e : After(World', p, r, x, e)
      \/ SameFrame(World, World') /\ After(World', "CRC", "TX_ACK", "CONFIRM_TX", i)
      \/ s = "HEADER" /\ t.k = "body" /\ ~Echo(World) /\ SameFrame(World, World')
      \/ SameFrame(World, World') /\ \E p, e : After(World', p, r, x, e)
      \/ SameFrame(World, World')
           /\ After(World', "EOF0", IF r = "IDLE" THEN "IDLE" ELSE WithEof(r), x, i)
      \/ /\ cd'.report_state = "IDLE"
         /\ log'.rx = IF r = "RX_EOF" THEN Append(log.rx, n0) ELSE log.rx
  BY <1>0, <1>4 DEF Does, SameFrame, After, s, x, i, All, r, n0
<1>10. \A p, q, y, e : After(World', p, q, y, e) => cd'.report_state = q
  BY <1>0 DEF After
<1>11. Receiving(IF r = "IDLE" THEN "IDLE" ELSE WithEof(r)) => Receiving(r)
  <2>1. r \in {"IDLE", "RX_ACK", "RX_EOF", "TX_ACK", "TX_EOF"}
    BY LockParts DEF CdStates, r
  <2> QED
    BY <2>1 DEF Receiving, WithEof, InTx
<1>12. CASE s \in {"DISCARD", "START"} /\ log'.rx = log.rx /\ \E p, e : After(World', p, r, x, e)
  BY <1>4, <1>6, <1>10, <1>12
<1>13. CASE \/ SameFrame(World, World') /\ After(World', "DISCARD", "IDLE", x, All)
            \/ SameFrame(World, World') /\ After(World', "CRC", "TX_ACK", "CONFIRM_TX", i)
            \/ SameFrame(World, World') /\ \E p, e : After(World', p, r, x, e)
            \/ SameFrame(World, World')
                 /\ After(World', "EOF0", IF r = "IDLE" THEN "IDLE" ELSE WithEof(r), x, i)
  BY <1>5, <1>10, <1>11, <1>13 DEF Receiving
<1> QED
  BY <1>7, <1>8, <1>9, <1>12, <1>13

\* While tx_schedule_transmit gives or takes back a message, no own body is under way.
LEMMA ScheduleAlone ==
  ASSUME LockInv, Unbroken(line), Turn, Echoes, irq.pc \in {"sched", "clear", "reread"},
         irq.pc = "sched" => ~Busy
  PROVE  NoOwnBody /\ pio.txsm # "armed" /\ ~(OwnStart /\ pio.txsm = "sending")
<1>1. CASE cd.tx_state # "QUEUED"
  BY <1>1 DEF Echoes, NoOwnBody
<1>2. CASE cd.tx_state = "QUEUED"
  <2>1. irq.pc = "sched" /\ pio_tx_did_fail(pio)
    BY <1>2, LockParts DEF HandlerInv, Busy
  <2>2. pio.fifo = <<>> /\ pio.txsm # "armed" /\ ~(OwnStart /\ pio.txsm = "sending")
    <3>1. CASE pio.txsm = "conflict"
      BY <2>1, <3>1 DEF pio_tx_did_fail
    <3>2. CASE pio.txsm # "conflict"
      <4>1. pio.fifo = <<>> /\ ~pio.flevel /\ "MAYTX" \in pio.irqs
        BY <2>1, <3>2 DEF pio_tx_did_fail
      <4>2. line.phase = "idle"
        BY <4>1, LockParts DEF WireInv, Shifted
      <4> QED
        BY <4>1, <4>2, LockParts DEF Fed, OwnStart
    <3> QED
      BY <3>1, <3>2
  <2>3. NoOwnBody
    <3> SUFFICES ASSUME NEW i \in DOMAIN Unread, OwnBody(i) PROVE FALSE
      BY DEF NoOwnBody
    <3>1. cd.parse_state = "HEADER"
      BY <2>2, OwnBodyHeader DEF Echoes
    <3> QED
      BY <2>1, <3>1 DEF Turn
  <2> QED
    BY <2>2, <2>3
<1> QED
  BY <1>1, <1>2

\* The steps that give, take back or use the "tx" machine leave own bodies told apart.
LEMMA SteadyEchoes ==
  ASSUME LockInv, Unbroken(line), Turn, Echoes, Prompt, Steady, SameTx \/ Injects \/ Sends \/ Empties
  PROVE  Echoes'
<1>1. line' = line /\ Unread' = Unread /\ pio'.isr = pio.isr /\ Last' = Last
  BY SteadyKeeps DEF Steady, Last
<1>2. /\ \A i : OwnBody(i)' <=> OwnBody(i)
      /\ OwnStart' <=> OwnStart
      /\ NoOwnBody' <=> NoOwnBody
      /\ BodyFirst'
  BY <1>1 DEF OwnBody, OwnStart, NoOwnBody, BodyFirst, Echoes
<1>3. CASE SameTx
  BY <1>1, <1>2, <1>3 DEF Echoes, SameTx
<1>4. CASE Injects
  <2>1. Asking
    BY <1>4 DEF Injects, Serves, Asking
  <2>2. NoOwnBody /\ pio'.txsm = "ackarmed"
    BY <1>4, <2>1 DEF Prompt, Injects
  <2> QED
    BY <1>1, <1>2, <2>2 DEF Echoes, NoOwnBody
<1>5. CASE Sends
  <2>1. NoOwnBody
    BY <1>5, ScheduleAlone DEF Sends
  <2> QED
    BY <1>1, <1>2, <1>5, <2>1 DEF Echoes, NoOwnBody, Sends
<1>6. CASE Empties
  <2>1. NoOwnBody /\ pio.txsm # "armed" /\ ~(OwnStart /\ pio.txsm = "sending")
    BY <1>6, ScheduleAlone DEF Empties
  <2>2. pio'.txsm = pio.txsm
    BY <1>6 DEF Empties
  <2> QED
    BY <1>1, <1>2, <2>1, <2>2 DEF Echoes, NoOwnBody
<1> QED
  BY <1>3, <1>4, <1>5, <1>6

\* A step that leaves frames, report and callbacks alone leaves what is received another node's.
LEMMA SameOthers ==
  ASSUME Steady, Others, SameRx
  PROVE  Others'
BY DEF Steady, SameRx, Others

\* So does the end of a report.
LEMMA ReportsOthers ==
  ASSUME LockInv, Staged, Others, Steady, NEW flag \in SmIrqs, Reports(flag)
  PROVE  Others'
<1>1. CASE flag \in {"ACKDONE", "TXPENDING"}
  BY <1>1, SameOthers DEF Reports
<1>2. CASE flag \in {"MATCHED", "MAYTX"}
  <2>1. /\ cd'.report_state = "IDLE" /\ line' = line
        /\ \/ log'.rx = log.rx
           \/ Receiving(cd.report_state) /\ log'.rx = Append(log.rx, cd.parse_msg)
    BY <1>2 DEF Reports, Steady, Receiving
  <2>2. log.rx \in Seq(Nat) /\ cd.parse_msg \in Nat
    BY LockParts DEF LogStates, CdStates
  <2>3. Receiving(cd.report_state) =>
           cd.parse_msg \in DOMAIN line.frames /\ line.frames[cd.parse_msg].src = "peer"
    BY LockParts DEF QueueInv, Sent, Staged, Receiving, Others
  <2>4. \A j \in DOMAIN log'.rx :
           \/ j \in DOMAIN log.rx /\ log'.rx[j] = log.rx[j]
           \/ Receiving(cd.report_state) /\ log'.rx[j] = cd.parse_msg
    BY <2>1, <2>2
  <2> QED
    BY <2>1, <2>3, <2>4 DEF Others, Receiving
<1> QED
  BY <1>1, <1>2 DEF SmIrqs

\* Every step keeps EchoInv.
LEMMA EchoKept ==
  ASSUME Slack <= 5, PeerMsgs \cap AppMsgs = {}
  PROVE  EchoInv /\ [Next]_vars => EchoInv'
<1> SUFFICES ASSUME EchoInv, [Next]_vars, Unbroken(line') PROVE Echoes' /\ Prompt' /\ Others'
  <2>1. EchoInv => LockInv
    BY DEF EchoInv, DeliverInv, WakeInv, HandInv, PendInv
  <2> QED
    BY <2>1, DeliverKept, OriginsKept DEF EchoInv
<1>0. LockInv /\ LockInv' /\ Origins /\ DeliverInv'
  BY DeliverKept, LockKept DEF EchoInv, DeliverInv, WakeInv, HandInv, PendInv
<1>1. Staged'
  BY <1>0 DEF DeliverInv
<1>2. Unbroken(line) => Turn /\ Staged /\ Delivers /\ Echoes /\ Prompt /\ Others
  BY DEF EchoInv, DeliverInv, WakeInv
<1>3. CASE Wire
  <2>1. Unbroken(line)
    BY <1>0, <1>3, WireWhole
  <2>2. Echoes'
    BY <1>0, <1>2, <1>3, <2>1, WireEchoes
  <2> QED
    BY <1>0, <1>1, <1>2, <1>3, <2>1, <2>2, WirePrompt, WireOthers
<1>4. CASE ~Wire
  <2>1. Unbroken(line) /\ NodeGoes /\ line' = line
    BY <1>0, <1>4, NodeAlone
  <2>2. Turn /\ Staged /\ Delivers /\ Echoes /\ Prompt /\ Others
    BY <1>2, <2>1
  <2>3. ASSUME Echoes', irq'.pc = "loop" => irq'.ints = Ints(pio') PROVE Prompt'
    <3>1. (LockInv /\ Unbroken(line) /\ Staged /\ BodyFirst /\ (irq.pc = "loop" => irq.ints = Ints(pio))
           => Prompt)'
      BY AsksInTime, PTL
    <3> QED
      BY <1>0, <1>1, <2>3, <3>1 DEF Echoes
  <2>4. ASSUME NEW t \in Tokens, Reads(t) PROVE Echoes' /\ Prompt' /\ Others'
    <3>1. Echoes' /\ Others'
      BY <1>0, <2>2, <2>4, ReadsEchoes, ReadsOthers
    <3>2. irq'.pc = "loop" => irq'.ints = Ints(pio')
      BY <2>4 DEF Reads
    <3> QED
      BY <2>3, <3>1, <3>2
  <2>5. ASSUME irq'.pc # "loop" PROVE Prompt'
    BY <2>5 DEF Prompt, Asking
  <2>6. CASE Steady /\ Enters
    <3>1. Echoes' /\ Others'
      BY <1>0, <2>1, <2>2, <2>6, SteadyEchoes, SameOthers DEF Enters
    <3>2. irq'.ints = Ints(pio')
      BY <2>6 DEF Enters, Steady, Ints, Intr
    <3> QED
      BY <2>3, <3>1, <3>2
  <2>7. ASSUME Steady, NEW flag \in SmIrqs, Reports(flag) PROVE Echoes' /\ Prompt' /\ Others'
    <3>1. Echoes' /\ Others'
      BY <1>0, <2>1, <2>2, <2>7, SteadyEchoes, ReportsOthers DEF Reports
    <3>2. irq'.pc # "loop"
      BY <2>7 DEF Reports
    <3> QED
      BY <2>5, <3>1, <3>2
  <2>8. CASE Steady /\ (Injects \/ Waits \/ Sends \/ Empties)
    <3>1. Echoes' /\ Others'
      BY <1>0, <2>1, <2>2, <2>8, SteadyEchoes, SameOthers DEF Injects, Waits, Sends, Empties
    <3>2. irq'.pc # "loop"
      BY <2>8 DEF Injects, Waits, Sends, Empties
    <3> QED
      BY <2>5, <3>1, <3>2
  <2>9. CASE Steady /\ Submits
    <3>1. Echoes' /\ Others'
      BY <1>0, <2>1, <2>2, <2>9, SteadyEchoes, SameOthers DEF Submits
    <3>2. /\ line' = line /\ Unread' = Unread /\ pio'.isr = pio.isr /\ pio'.fifo = pio.fifo
          /\ Last' = Last /\ irq' = irq /\ pio'.inte = pio.inte
          /\ cd'.report_state = cd.report_state /\ ("MAYTX" \in pio'.irqs <=> "MAYTX" \in pio.irqs)
      BY <1>0, <2>9, SteadyKeeps DEF Steady, Submits, Last, SameRx
    <3> QED
      BY <2>2, <3>1, <3>2 DEF Prompt, Asking, AckRequested, NoOwnBody, OwnBody, OwnStart
  <2>10. CASE UNCHANGED vars
    <3>1. /\ line' = line /\ Unread' = Unread /\ pio' = pio /\ Last' = Last
          /\ irq' = irq /\ cd' = cd /\ log' = log
      BY <2>10 DEF vars, Unread, Last
    <3>2. Echoes'
      BY <2>2, <3>1 DEF Echoes, NoOwnBody, OwnBody, OwnStart, BodyFirst
    <3>3. Prompt'
      BY <2>2, <3>1 DEF Prompt, Asking, AckRequested, NoOwnBody, OwnBody, OwnStart
    <3>4. Others'
      BY <2>2, <3>1 DEF Others
    <3> QED
      BY <3>2, <3>3, <3>4
  <2> QED
    BY <2>1, <2>4, <2>6, <2>7, <2>8, <2>9, <2>10 DEF NodeGoes
<1> QED
  BY <1>3, <1>4

\* EchoInv holds when the driver has started.
LEMMA EchoInit == Init => EchoInv
<1> SUFFICES ASSUME Init PROVE EchoInv
  OBVIOUS
<1>1. /\ cd.report_state = "IDLE" /\ line.phase = "idle" /\ line.frames = <<>> /\ log.rx = <<>>
      /\ pio.txsm = "off" /\ pio.fifo = <<>> /\ pio.isr = <<>> /\ irq.pc = "out"
      /\ app.msg = NoMsg /\ cd.tx_queue = [i \in 0..(QueueLen - 1) |-> NoMsg]
  BY DEF Init, PioInit, Idle
<1>2. <<>> \o <<>> = <<>> /\ DOMAIN <<>> = {}
  OBVIOUS
<1>3. DOMAIN Unread = {} /\ DOMAIN line.frames = {} /\ DOMAIN log.rx = {} /\ DOMAIN pio.isr = {}
  BY <1>1, <1>2 DEF Unread
<1>4. Echoes
  BY <1>1, <1>3 DEF Echoes, BodyFirst, OwnStart
<1>5. Prompt /\ Others
  BY <1>1, <1>3 DEF Prompt, Asking, Others, Receiving
<1>6. Origins
  BY <1>1, <1>3 DEF Origins
<1> QED
  BY <1>4, <1>5, <1>6, DeliverInit DEF EchoInv

\* What is received comes from other nodes.
LEMMA OthersOnly ==
  ASSUME EchoInv, Unbroken(line)
  PROVE  OwnFrameNotReceived
BY DEF EchoInv, Others, OwnFrameNotReceived, Elements

\* Until the PIO block is restarted, a handler that serves a flag within five steps of the wire recognises
\* each frame of this node as its own: what it reports received is of other nodes, as long as these
\* send none of the messages of this node.
THEOREM OwnNotReceived ==
  ASSUME Slack <= 5, PeerMsgs \cap AppMsgs = {}
  PROVE  Spec => [](Unbroken(line) => OwnFrameNotReceived)
<1>1. Init => EchoInv
  BY EchoInit
<1>2. EchoInv /\ [Next]_vars => EchoInv'
  BY EchoKept
<1>3. EchoInv => (Unbroken(line) => OwnFrameNotReceived)
  BY OthersOnly
<1> QED
  BY <1>1, <1>2, <1>3, PTL DEF Spec

\* So without overruns and overflows an own frame is never reported received.
COROLLARY NoOwnReceived ==
  ASSUME Slack <= 5, PeerMsgs \cap AppMsgs = {}, Overruns = 0, Wraps = 0
  PROVE  Spec => []OwnFrameNotReceived
<1>1. Init => EchoInv
  BY EchoInit
<1>2. EchoInv /\ [Next]_vars => EchoInv'
  BY EchoKept
<1>3. EchoInv => OwnFrameNotReceived
  <2> SUFFICES ASSUME EchoInv PROVE OwnFrameNotReceived
    OBVIOUS
  <2>1. LockInv
    BY DEF EchoInv, DeliverInv, WakeInv, HandInv, PendInv
  <2>2. Unbroken(line)
    BY <2>1, LockParts DEF Unbroken, WireInv, LineStates, Lossless
  <2> QED
    BY <2>2, OthersOnly
<1> QED
  BY <1>1, <1>2, <1>3, PTL DEF Spec
=============================================================================
