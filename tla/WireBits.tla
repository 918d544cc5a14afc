------------------------------ MODULE WireBits ------------------------------
(***************************************************************************)
(* The bits of a frame in src/port/board/can/can.c: can2040_transmit turns *)
(* a message into stuffed words, which the "tx" machine puts on the line;  *)
(* "sync" and "rx" sample the line and push ten bits at a time; process_rx *)
(* removes the stuff bits, cuts the fields and checks the crc.  Can2040    *)
(* has the same parser with a whole field as one token.                    *)
(*                                                                         *)
(* A 32-bit word is the set of the positions of its one bits.  A line is a *)
(* sequence of 0 (dominant) and 1.  Two messages are sent one after the    *)
(* other, and at most one bit of what this node samples is disturbed.      *)
(* The bit functions exist for both chips; Init chooses one.               *)
(***************************************************************************)
EXTENDS Integers, Sequences, FiniteSets, SequencesExt

CONSTANTS
  Pairs,      (* the pairs of messages to send one after the other         *)
  Disturbed,  (* the pairs during which one bit may be disturbed           *)
  LongGap     (* recessive bits between frames when a bit is disturbed     *)

Word == SUBSET (0..31)
Byte == SUBSET (0..7)
(* id with the flags EFF (31) and RTR (30); data is msg.data[0..7].        *)
Message == [id : Word, dlc : 0..15, data : [1..8 -> Byte]]

EFF == 31
RTR == 30

ASSUME WireBitsAssumption ==
  /\ Disturbed \subseteq Pairs
  /\ \A p \in Pairs : p[1] \in Message /\ p[2] \in Message
  /\ LongGap \in Nat

VARIABLES
  chip,   (* IS_RP2350 of the build                                        *)
  sent,   (* the pair of messages, as they are queued                      *)
  queue,  (* their stuffed words and numbers of bits                       *)
  flip,   (* the number of the disturbed bit of the first frame, or 0      *)
  bits,   (* all bits "rx" samples, in order                               *)
  cd,     (* the parser's part of struct can2040; got: messages reported   *)
  pos     (* bits of them processed so far                                 *)

vars == <<chip, sent, queue, flip, bits, cd, pos>>

-----------------------------------------------------------------------------
(* Words.                                                                  *)

(* All operations list the elements of their result, which TLC would       *)
(* otherwise leave as an expression to evaluate at every use.              *)
Listed(w) == {i : i \in w}
Shl(w, k) == {i + k : i \in {j \in w : j + k <= 31}}
Shr(w, k) == {i - k : i \in {j \in w : j >= k}}
Xor(v, w) == Listed((v \ w) \cup (w \ v))
Or(v, w) == Listed(v \cup w)
LowBits(w, k) == Listed({i \in w : i < k})
FromInt(n) == Listed({i \in 0..14 : (n \div 2^i) % 2 = 1})
Smaller(a, b) == IF a < b THEN a ELSE b
(* ~e4 of the bit functions: where five bits, from here up, are alike.     *)
FiveAlike(w) == Listed({i \in 0..31 : \A j \in 1..4 : (i + j \in w) <=> (i \in w)})

-----------------------------------------------------------------------------
(* Crc.                                                                    *)

crc_table == <<
  \h0000, \h4599, \h4eab, \h0b32, \h58cf, \h1d56, \h1664, \h53fd, \h7407, \h319e, \h3aac,
  \h7f35, \h2cc8, \h6951, \h6263, \h27fa, \h2d97, \h680e, \h633c, \h26a5, \h7558, \h30c1,
  \h3bf3, \h7e6a, \h5990, \h1c09, \h173b, \h52a2, \h015f, \h44c6, \h4ff4, \h0a6d, \h5b2e,
  \h1eb7, \h1585, \h501c, \h03e1, \h4678, \h4d4a, \h08d3, \h2f29, \h6ab0, \h6182, \h241b,
  \h77e6, \h327f, \h394d, \h7cd4, \h76b9, \h3320, \h3812, \h7d8b, \h2e76, \h6bef, \h60dd,
  \h2544, \h02be, \h4727, \h4c15, \h098c, \h5a71, \h1fe8, \h14da, \h5143, \h73c5, \h365c,
  \h3d6e, \h78f7, \h2b0a, \h6e93, \h65a1, \h2038, \h07c2, \h425b, \h4969, \h0cf0, \h5f0d,
  \h1a94, \h11a6, \h543f, \h5e52, \h1bcb, \h10f9, \h5560, \h069d, \h4304, \h4836, \h0daf,
  \h2a55, \h6fcc, \h64fe, \h2167, \h729a, \h3703, \h3c31, \h79a8, \h28eb, \h6d72, \h6640,
  \h23d9, \h7024, \h35bd, \h3e8f, \h7b16, \h5cec, \h1975, \h1247, \h57de, \h0423, \h41ba,
  \h4a88, \h0f11, \h057c, \h40e5, \h4bd7, \h0e4e, \h5db3, \h182a, \h1318, \h5681, \h717b,
  \h34e2, \h3fd0, \h7a49, \h29b4, \h6c2d, \h671f, \h2286, \h2213, \h678a, \h6cb8, \h2921,
  \h7adc, \h3f45, \h3477, \h71ee, \h5614, \h138d, \h18bf, \h5d26, \h0edb, \h4b42, \h4070,
  \h05e9, \h0f84, \h4a1d, \h412f, \h04b6, \h574b, \h12d2, \h19e0, \h5c79, \h7b83, \h3e1a,
  \h3528, \h70b1, \h234c, \h66d5, \h6de7, \h287e, \h793d, \h3ca4, \h3796, \h720f, \h21f2,
  \h646b, \h6f59, \h2ac0, \h0d3a, \h48a3, \h4391, \h0608, \h55f5, \h106c, \h1b5e, \h5ec7,
  \h54aa, \h1133, \h1a01, \h5f98, \h0c65, \h49fc, \h42ce, \h0757, \h20ad, \h6534, \h6e06,
  \h2b9f, \h7862, \h3dfb, \h36c9, \h7350, \h51d6, \h144f, \h1f7d, \h5ae4, \h0919, \h4c80,
  \h47b2, \h022b, \h25d1, \h6048, \h6b7a, \h2ee3, \h7d1e, \h3887, \h33b5, \h762c, \h7c41,
  \h39d8, \h32ea, \h7773, \h248e, \h6117, \h6a25, \h2fbc, \h0846, \h4ddf, \h46ed, \h0374,
  \h5089, \h1510, \h1e22, \h5bbb, \h0af8, \h4f61, \h4453, \h01ca, \h5237, \h17ae, \h1c9c,
  \h5905, \h7eff, \h3b66, \h3054, \h75cd, \h2630, \h63a9, \h689b, \h2d02, \h276f, \h62f6,
  \h69c4, \h2c5d, \h7fa0, \h3a39, \h310b, \h7492, \h5368, \h16f1, \h1dc3, \h585a, \h0ba7,
  \h4e3e, \h450c, \h0095 >>

CrcTable == [b \in Byte |-> FromInt(crc_table[1 + FoldSet(LAMBDA i, n : n + 2^i, 0, b)])]

crc_byte(crc, data) ==
  Xor(Shl(crc, 8), CrcTable[LowBits(Xor(Shr(crc, 7), data), 8)])

RECURSIVE CrcOfBytes(_, _, _)
CrcOfBytes(crc, data, n) ==
  IF n = 0 THEN crc ELSE CrcOfBytes(crc_byte(crc, Shr(data, 8 * (n - 1))), data, n - 1)
(* The switch falls through: any other number of bytes than 1 to 3 is 4.   *)
crc_bytes(crc, data, num) == CrcOfBytes(crc, data, IF num \in 1..3 THEN num ELSE 4)

-----------------------------------------------------------------------------
(* Bit stuffing.  A stuff bit goes in behind the bit at n - 1.             *)

StuffBehind(b, n) ==
  Xor(Xor(Shl({i \in b : i >= n - 1}, 1), LowBits(b, n)), {n - 1})

bitstuff_rp2040[b \in Word, n \in 0..20, try \in 0..20, count \in 0..32] ==
  LET add_bits == FiveAlike(b)
  IN CASE add_bits \cap (n - try)..(n - 1) = {} ->
            IF try >= n THEN [b |-> b, count |-> count]
            ELSE bitstuff_rp2040[b, n - try, (n - try + 1) \div 2, count]
       [] n - 1 \in add_bits ->
            IF n <= 4 THEN [b |-> StuffBehind(b, n), count |-> count + 1]
            ELSE bitstuff_rp2040[StuffBehind(b, n), n - 4, n - 4, count + 1]
       [] OTHER -> bitstuff_rp2040[b, n - 1, try \div 2, count]

bitstuff_rp2350[b \in Word, n \in 0..20, count \in 0..32] ==
  LET add_bits == LowBits(FiveAlike(b), n)
      stuff_pos == 1 + Max(add_bits)
  IN CASE add_bits = {} -> [b |-> b, count |-> count]
       [] add_bits # {} /\ stuff_pos <= 4 ->
            [b |-> StuffBehind(b, stuff_pos), count |-> count + 1]
       [] OTHER -> bitstuff_rp2350[StuffBehind(b, stuff_pos), stuff_pos - 4, count + 1]

bitstuff(b, n) ==
  IF chip = "rp2350" THEN bitstuff_rp2350[b, n, n] ELSE bitstuff_rp2040[b, n, n, n]

(* The bits above count go along: they are those already in the buffer.    *)
bs_pushraw(bs, data, count) ==
  LET wp == 1 + bs.bitpos \div 32
      avail == 32 - (bs.bitpos % 32)
      over == count - avail
  IN [bs EXCEPT !.bitpos = @ + count,
                !.buf = IF over <= 0 THEN [@ EXCEPT ![wp] = Or(@, Shl(data, -over))]
                        ELSE [@ EXCEPT ![wp] = Or(@, Shr(data, over)),
                                       ![wp + 1] = Or(@, Shl(data, 32 - over))]]

(* Mutant: each push starts to count like bits anew.                       *)
bs_push_anew(bs, data, count) ==
  LET stuf == bitstuff(Or({count}, LowBits(data, count)), count)
  IN [bs_pushraw(bs, LowBits(stuf.b, stuf.count), stuf.count) EXCEPT !.prev_stuffed = stuf.b]

bs_push(bs, data, count) ==
  LET stuf == bitstuff(Or(Shl(bs.prev_stuffed, count), LowBits(data, count)), count)
  IN [bs_pushraw(bs, stuf.b, stuf.count) EXCEPT !.prev_stuffed = stuf.b]

(* The words to send, the last one padded with high bits.                  *)
bs_finalize(bs) ==
  LET words == (bs.bitpos + 31) \div 32
  IN [SubSeq(bs.buf, 1, words) EXCEPT ![words] = Or(@, 0..(words * 32 - bs.bitpos - 1))]

-----------------------------------------------------------------------------
(* can2040_transmit: the message as it is queued, and its words.           *)

NoData == <<{}, {}, {}, {}, {}, {}, {}, {}>>
data_len(m) == IF RTR \in m.id THEN 0 ELSE IF m.dlc > 8 THEN 8 ELSE m.dlc

Queued(msg) ==
  LET m == [msg EXCEPT !.id = Listed(IF EFF \in @ THEN @ \ {29} ELSE @ \cap ({RTR} \cup 0..10))]
  IN [m EXCEPT !.data = [i \in 1..8 |-> IF i <= data_len(m) THEN msg.data[i] ELSE {}]]

(* The one element of {op(x) : x \in {v}}: TLC evaluates v once.           *)
Only(S) == CHOOSE x \in S : TRUE

Encoded(m) ==
  LET edlc == Or(FromInt(m.dlc), IF RTR \in m.id THEN {6} ELSE {})
      h1 == Or(Shr(m.id \cap 18..28, 11) \cup {5, 6}, Shr(m.id \cap 13..17, 13))
      h2 == Or(Shl(m.id \cap 0..12, 7), edlc)
      hdr == Or(Shl(m.id \cap 0..10, 7), edlc)
      empty == [prev_stuffed |-> {0}, bitpos |-> 0, buf |-> <<{}, {}, {}, {}, {}>>]
      crc[n \in 0..8] ==
        IF n > 0 THEN crc_byte(crc[n - 1], m.data[n])
        ELSE IF EFF \in m.id
             THEN crc_bytes(crc_bytes({}, Shr(h1, 4), 2), Or(Shl(LowBits(h1, 4), 20), h2), 3)
             ELSE crc_bytes({}, hdr, 3)
      pushed[n \in 0..8] ==
        IF n > 0 THEN Only({bs_push(b, m.data[n], 8) : b \in {pushed[n - 1]}})
        ELSE IF EFF \in m.id THEN bs_push(bs_push(empty, h1, 19), h2, 20)
             ELSE bs_push(empty, hdr, 19)
      len == data_len(m)
      final == {bs_pushraw(b, {0}, 1) :
                  b \in {bs_push(pushed[len], LowBits(crc[len], 15), 15)}}
  IN Only({[words |-> bs_finalize(b), bitpos |-> b.bitpos] : b \in final})

(* The bits the "tx" machine shifts out, highest first.                    *)
Shifted(words) ==
  [i \in 1..(32 * Len(words)) |->
     IF 31 - ((i - 1) % 32) \in words[1 + (i - 1) \div 32] THEN 1 ELSE 0]

(* A whole frame on the line: the stuffed bits up to the crc delimiter,    *)
(* another node's ack, the ack delimiter, 7 bits end of frame, 3 between.  *)
Ones(n) == [i \in 1..n |-> 1]
OnLine(e) == SubSeq(Shifted(e.words) \o Ones(1), 1, e.bitpos) \o <<0>> \o Ones(11)

(* "sync" samples until it has seen ten recessive bits in a row, then it   *)
(* waits for a dominant bit.                                               *)
Unsampled(line, i) == i > 10 /\ \A k \in 0..10 : line[i - k] = 1
SampledBits(line) ==
  LET kept == SelectSeq([i \in 1..Len(line) |-> i], LAMBDA i : ~Unsampled(line, i))
  IN [k \in 1..Len(kept) |-> line[kept[k]]]

-----------------------------------------------------------------------------
(* Bit unstuffing: stuffed_bits, count_stuff of them not yet looked at,    *)
(* and unstuffed_bits, of which count_unstuff are still to be found.       *)

unstuf_add_bits(bu, data, count) ==
  [bu EXCEPT !.stuffed_bits = Or(Shl(@, count), LowBits(data, count)), !.count_stuff = count]
unstuf_set_count(bu, n) == [bu EXCEPT !.unstuffed_bits = {}, !.count_unstuff = n]

(* Mutant: the bits before the ack field count for its stuffing.           *)
unstuf_clear_state_not(bu) == bu

unstuf_clear_state(bu) ==
  [bu EXCEPT !.stuffed_bits = Or(LowBits(@, bu.count_stuff), {bu.count_stuff + 1})]
unstuf_restore_state(bu, data) ==
  [bu EXCEPT !.stuffed_bits = Or(LowBits(@, bu.count_stuff), Shl(data, bu.count_stuff))]
unstuf_get_raw(bu) == Shr(bu.stuffed_bits, bu.count_stuff)

Copy(bu, n) ==
  LET cs == bu.count_stuff - n
      cu == bu.count_unstuff - n
  IN [bu EXCEPT !.count_stuff = cs, !.count_unstuff = cu,
                !.unstuffed_bits = Or(@, Shl(LowBits(Shr(bu.stuffed_bits, cs), n), cu))]
Drop(bu) == [bu EXCEPT !.count_stuff = @ - 1]
TryCount(bu) == Smaller(bu.count_stuff, bu.count_unstuff)
Result(bu, ret) == [bu |-> bu, ret |-> ret]
SixAlike(bu) == Result(bu, IF bu.count_stuff \in bu.stuffed_bits THEN "passive" ELSE "dominant")

RECURSIVE pull_bits_rp2040(_, _)
pull_bits_rp2040(bu, try) ==
  LET cs == bu.count_stuff
      rm_bits == FiveAlike(bu.stuffed_bits)
      again(b) == IF b.count_stuff = 0 THEN Result(b, "more") ELSE pull_bits_rp2040(b, TryCount(b))
  IN CASE cs = 0 -> Result(bu, "more")
       [] cs > 0 /\ rm_bits \cap (cs + 1 - try)..cs = {} ->
            LET b == Copy(bu, try)
            IN IF b.count_unstuff = 0 THEN Result(b, "field") ELSE again(b)
       [] cs > 0 /\ cs \in rm_bits ->
            IF cs - 1 \in rm_bits THEN SixAlike(Drop(bu)) ELSE again(Drop(bu))
       [] OTHER -> pull_bits_rp2040(Copy(bu, 1), try \div 2)

RECURSIVE pull_bits_rp2350(_)
pull_bits_rp2350(bu) ==
  LET cs == bu.count_stuff
      rm_bits == FiveAlike(bu.stuffed_bits)
      masked == rm_bits \cap (cs + 1 - TryCount(bu))..cs
      whole == Copy(bu, TryCount(bu))
      dropped == Drop(Copy(bu, cs - Max(masked)))
  IN CASE cs = 0 -> Result(bu, "more")
       [] cs > 0 /\ masked = {} -> Result(whole, IF whole.count_unstuff = 0 THEN "field" ELSE "more")
       [] OTHER -> IF dropped.count_stuff \in rm_bits THEN SixAlike(dropped)
                   ELSE pull_bits_rp2350(dropped)

unstuf_pull_bits(bu) ==
  IF chip = "rp2350" THEN pull_bits_rp2350(bu) ELSE pull_bits_rp2040(bu, TryCount(bu))

-----------------------------------------------------------------------------
(* The fields of a frame.  What the reporting state does with them is in   *)
(* Can2040; here no rx fifo overruns and no report refuses a frame.  An    *)
(* error differs from a discarded frame by a counter only.                 *)

go_next(c, state, n) == [c EXCEPT !.parse_state = state, !.unstuf = unstuf_set_count(@, n)]
go_discard(c) == go_next(c, "DISCARD", 32)
go_error(c) == go_discard(c)
line_error(c) == go_discard(c)

line_passive(c) ==
  LET dom_bits == (0..31) \ unstuf_get_raw(c.unstuf)
  IN CASE c.parse_state \notin {"DISCARD", "START"} -> go_error(c)
       [] c.parse_state \in {"DISCARD", "START"} /\ dom_bits = {} ->
            go_discard([c EXCEPT !.raw_bit_count = 0,
                                 !.unstuf = [@ EXCEPT !.stuffed_bits = {}, !.count_stuff = 0]])
       [] c.parse_state \in {"DISCARD", "START"} /\ dom_bits # {} /\ LowBits(dom_bits, 10) = {} ->
            go_next(c, "START", 1)
       [] OTHER -> go_discard(c)

(* Mutant: a stuff bit due right after the last bit read is forgotten.     *)
go_crc_short(c) ==
  LET crc == LowBits(c.parse_crc, 15)
      stuf == bitstuff(Or(Shl(unstuf_get_raw(c.unstuf), 15), crc), 15)
      start == c.raw_bit_count - c.unstuf.count_stuff - 1
  IN go_next([c EXCEPT !.parse_crc = crc, !.parse_crc_bits = Or(Shl(stuf.b, 1), {0}),
                       !.parse_crc_pos = start + stuf.count + 1], "CRC", 16)

(* The last bit read is stuffed again: a stuff bit may be due behind it.   *)
go_crc(c) ==
  LET crc == LowBits(c.parse_crc, 15)
      stuf == bitstuff(Or(Shl(unstuf_get_raw(c.unstuf), 15), crc), 15 + 1)
      start == c.raw_bit_count - c.unstuf.count_stuff - 1
  IN go_next([c EXCEPT !.parse_crc = crc, !.parse_crc_bits = Or(Shl(stuf.b, 1), {0}),
                       !.parse_crc_pos = start + (stuf.count - 1) + 1], "CRC", 16)

DlcOf(w) == CHOOSE n \in 0..15 : FromInt(n) = LowBits(w, 4)
go_data(c, id, data) ==
  LET remote == 6 \in data
      dlc == IF remote THEN 0 ELSE DlcOf(data)
      d == [c EXCEPT !.parse_msg = [id |-> Or(id, IF remote THEN {RTR} ELSE {}),
                                    dlc |-> DlcOf(data), data |-> NoData]]
  IN CASE data \cap {4, 5} # {} -> go_discard(c)
       [] data \cap {4, 5} = {} /\ dlc > 0 ->
            go_next(d, "DATA0", IF dlc >= 4 THEN 32 ELSE dlc * 8)
       [] OTHER -> go_crc(d)

update_start(c, data) == go_next([c EXCEPT !.header = data], "HEADER", 17)

update_header(c, data) ==
  LET hdr == Or(data, Shl(c.header, 17))
  IN IF {5, 6} \subseteq hdr THEN go_next([c EXCEPT !.header = hdr], "EXT_HEADER", 20)
     ELSE go_data([c EXCEPT !.parse_crc = crc_bytes({}, hdr, 3)], LowBits(Shr(hdr, 7), 11), hdr)

update_ext_header(c, data) ==
  LET hdr1 == c.header
      crc == crc_bytes({}, Shr(hdr1, 4), 2)
      id == Or(Shl(hdr1, 11) \cap 18..28, (Shl(hdr1, 13) \cap 13..17) \cup Shr(data, 7) \cup {EFF})
  IN go_data([c EXCEPT !.parse_crc = crc_bytes(crc, Or(Shl(LowBits(hdr1, 4), 20), data), 3)],
             id, data)

(* bswap32: the highest byte of the field is the first data byte.          *)
ByteOf(w, k) == LowBits(Shr(w, 8 * k), 8)
Filled(data, first, w) ==
  [i \in 1..8 |-> IF i \in first..(first + 3) THEN ByteOf(w, first + 3 - i) ELSE data[i]]

update_data0(c, data) ==
  LET dlc == c.parse_msg.dlc
      n == IF dlc >= 4 THEN 32 ELSE dlc * 8
      d == [c EXCEPT !.parse_crc = crc_bytes(@, data, dlc),
                     !.parse_msg.data = Filled(@, 1, Shl(data, 32 - n))]
  IN IF dlc > 4 THEN go_next(d, "DATA1", IF dlc >= 8 THEN 32 ELSE (dlc - 4) * 8) ELSE go_crc(d)

update_data1(c, data) ==
  LET dlc == c.parse_msg.dlc
      n == IF dlc >= 8 THEN 32 ELSE (dlc - 4) * 8
  IN go_crc([c EXCEPT !.parse_crc = crc_bytes(@, data, dlc - 4),
                      !.parse_msg.data = Filled(@, 5, Shl(data, 32 - n))])

update_crc(c, data) ==
  IF Or(Shl(c.parse_crc, 1), {0}) # data THEN go_error(c)
  ELSE go_next([c EXCEPT !.unstuf = unstuf_clear_state(@)], "ACK", 2)

update_ack(c, data) ==
  IF data = {0} THEN go_next(c, "EOF0", 4)
  ELSE go_error([c EXCEPT !.unstuf = unstuf_restore_state(@, Or(Shl(c.parse_crc_bits, 2), data))])

update_eof0(c, data) ==
  IF data # 0..3 THEN go_error(c)
  ELSE go_next([c EXCEPT !.unstuf = unstuf_clear_state(@)], "EOF1", 5)

(* data >= 0x18: in a frame of another node only two bits must be passive. *)
update_eof1(c, data) ==
  LET reported == [c EXCEPT !.got = Append(@, c.parse_msg)]
  IN CASE data = 0..4 -> go_next(reported, "START", 1)
       [] data # 0..4 /\ {3, 4} \subseteq data -> go_discard(reported)
       [] OTHER -> go_error(c)

data_state_update(c, data) ==
  CASE c.parse_state = "START" -> update_start(c, data)
    [] c.parse_state = "HEADER" -> update_header(c, data)
    [] c.parse_state = "EXT_HEADER" -> update_ext_header(c, data)
    [] c.parse_state = "DATA0" -> update_data0(c, data)
    [] c.parse_state = "DATA1" -> update_data1(c, data)
    [] c.parse_state = "CRC" -> update_crc(c, data)
    [] c.parse_state = "ACK" -> update_ack(c, data)
    [] c.parse_state = "EOF0" -> update_eof0(c, data)
    [] c.parse_state = "EOF1" -> update_eof1(c, data)
    [] c.parse_state = "DISCARD" -> go_discard(c)

RECURSIVE PullFields(_)
PullFields(c) ==
  LET pulled == unstuf_pull_bits(c.unstuf)
      d == [c EXCEPT !.unstuf = pulled.bu]
  IN CASE pulled.ret = "more" -> d
       [] pulled.ret = "field" -> PullFields(data_state_update(d, pulled.bu.unstuffed_bits))
       [] pulled.ret = "passive" -> PullFields(line_passive(d))
       [] pulled.ret = "dominant" -> PullFields(line_error(d))

PIO_RX_WAKE_BITS == 10

(* Mutant: the bit counter counts words.                                   *)
process_rx_words(c, data) ==
  PullFields([c EXCEPT !.unstuf = unstuf_add_bits(@, data, PIO_RX_WAKE_BITS),
                       !.raw_bit_count = @ + 1])

process_rx(c, data) ==
  PullFields([c EXCEPT !.unstuf = unstuf_add_bits(@, data, PIO_RX_WAKE_BITS),
                       !.raw_bit_count = @ + PIO_RX_WAKE_BITS])

-----------------------------------------------------------------------------
(* The first word, and the start of a third frame, are there to give every *)
(* frame a start and an end.                                               *)
Flipped(line, n) == IF n = 0 THEN line ELSE [line EXCEPT ![n] = 1 - @]
Line(q, n) ==
  Ones(10) \o Flipped(OnLine(q[1]), n) \o Ones(IF n = 0 THEN 0 ELSE LongGap)
    \o OnLine(q[2]) \o SubSeq(OnLine(q[1]), 1, PIO_RX_WAKE_BITS)

(* can2040_start: data_state_clear_bits and data_state_go_discard.         *)
Started ==
  [unstuf |-> [stuffed_bits |-> {}, count_stuff |-> 0, unstuffed_bits |-> {}, count_unstuff |-> 32],
   raw_bit_count |-> 0, parse_state |-> "DISCARD", parse_crc |-> {}, parse_crc_bits |-> {},
   parse_crc_pos |-> 0, header |-> {}, got |-> <<>>,
   parse_msg |-> [id |-> {}, dlc |-> 0, data |-> NoData]]

Init ==
  /\ chip \in {"rp2040", "rp2350"}
  /\ \E p \in Pairs :
       /\ sent = <<Queued(p[1]), Queued(p[2])>>
       /\ queue = <<Encoded(sent[1]), Encoded(sent[2])>>
       /\ flip \in {0} \cup (IF p \in Disturbed THEN 1..Len(OnLine(queue[1])) ELSE {})
       /\ bits \in {SampledBits(line) : line \in {Line(queue, flip)}}
  /\ cd = Started /\ pos = 0

(* "rx" pushes the next ten bits, and the handler processes them.          *)
Receive ==
  /\ pos + PIO_RX_WAKE_BITS <= Len(bits)
  /\ cd' = process_rx(cd, {i \in 0..9 : bits[pos + 10 - i] = 1})
  /\ pos' = pos + PIO_RX_WAKE_BITS
  /\ UNCHANGED <<chip, sent, queue, flip, bits>>

Next == Receive

Spec == Init /\ [][Next]_vars
=============================================================================
