--------------------------- MODULE WireBitsProps ---------------------------
(***************************************************************************)
(* What the bit functions of WireBits should do, against the frame format, *)
(* the stuffing rule and the crc of CAN 2.0, bit by bit.                   *)
(***************************************************************************)
EXTENDS WireBits

Bits(w, from, to) == [i \in 1..(from - to + 1) |-> IF from + 1 - i \in w THEN 1 ELSE 0]

(* The bits of a frame up to its crc, before stuffing.                     *)
RawFrame(m) ==
  LET rtr == IF RTR \in m.id THEN 1 ELSE 0
      id == IF EFF \in m.id
            THEN Bits(m.id, 28, 18) \o <<1, 1>> \o Bits(m.id, 17, 0) \o <<rtr, 0, 0>>
            ELSE Bits(m.id, 10, 0) \o <<rtr, 0, 0>>
      data == FlattenSeq([i \in 1..data_len(m) |-> Bits(m.data[i], 7, 0)])
  IN <<0>> \o id \o Bits(FromInt(m.dlc), 3, 0) \o data

(* The crc register of the CAN 2.0 specification after each bit.           *)
Polynomial == {0, 3, 4, 7, 8, 10, 14}
NextCrc(crc, b) ==
  LET shifted == LowBits(Shl(crc, 1), 15)
  IN IF (14 \in crc) # (b = 1) THEN Xor(shifted, Polynomial) ELSE shifted
CrcOf(raw) ==
  LET register[n \in 0..Len(raw)] ==
        IF n = 0 THEN {} ELSE NextCrc(register[n - 1], raw[n])
  IN register[Len(raw)]

(* A bit behind five like bits, stuffed ones included, is a stuff bit.     *)
IsStuffBit(s, i) == i > 5 /\ \A k \in 2..5 : s[i - k] = s[i - 1]
Unstuffed(s) ==
  LET kept == SelectSeq([i \in 1..Len(s) |-> i], LAMBDA i : ~IsStuffBit(s, i))
  IN [k \in 1..Len(kept) |-> s[kept[k]]]
ProperlyStuffed(s) ==
  /\ \A i \in DOMAIN s : IsStuffBit(s, i) => s[i] # s[i - 1]
  /\ ~IsStuffBit(s, Len(s) + 1)

-----------------------------------------------------------------------------
(* The parser's words stay within 32 bits and its counters within a word   *)
(* and a field.                                                            *)
TypeOK ==
  /\ cd.unstuf.stuffed_bits \in Word /\ cd.unstuf.unstuffed_bits \in Word
  /\ cd.unstuf.count_stuff \in 0..PIO_RX_WAKE_BITS /\ cd.unstuf.count_unstuff \in 0..32
  /\ cd.raw_bit_count = pos
  /\ cd.parse_msg \in Message /\ Len(cd.got) <= 2

(* What can2040_transmit puts in the queue is, shifted out, exactly the    *)
(* frame of CAN 2.0: fields, crc and stuff bits, wherever the stuff bits   *)
(* fall in the pushes and in the 32-bit words of stuffed_data.             *)
TransmitsCanFrame ==
  pos = 0 => \A i \in 1..2 : \A raw \in {RawFrame(sent[i])}, onwire \in {Shifted(queue[i].words)} :
    LET n == queue[i].bitpos
    IN /\ ProperlyStuffed(SubSeq(onwire, 1, n - 1))
       /\ Unstuffed(SubSeq(onwire, 1, n - 1)) = raw \o Bits(CrcOf(raw), 14, 0)
       /\ SubSeq(onwire, n, Len(onwire)) = Ones(Len(onwire) - n + 1)

(* Messages are reported as they were sent and in that order, whatever bit *)
(* was disturbed; a disturbed frame is reported only if the disturbance    *)
(* came after the sixth bit of its end; the frame after it is not lost.    *)
LastChecked == Len(OnLine(queue[1])) - 4
ReceivesWhatWasSent ==
  LET first == <<sent[1]>>
      second == <<sent[2]>>
      all == IF flip \in 1..LastChecked THEN second ELSE first \o second
  IN /\ IsPrefix(cd.got, all)
     /\ pos + PIO_RX_WAKE_BITS > Len(bits) => cd.got = all

(* The position and the bits that data_state_go_crc predicts for the crc   *)
(* delimiter, from which the keys for the ack and for the end of the frame *)
(* are made, are those that "rx" samples there.                            *)
PredictsCrcDelimiter ==
  LET at(k) == cd.parse_crc_pos + 1 - k
  IN flip = 0 /\ cd.parse_state \in {"CRC", "ACK"} =>
       /\ cd.parse_crc_pos + 1 <= Len(bits)
       /\ \A k \in 0..20 : at(k) > 0 => ((bits[at(k)] = 1) <=> (k \in cd.parse_crc_bits))
=============================================================================
