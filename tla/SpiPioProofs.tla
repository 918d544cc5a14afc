----------------------------- MODULE SpiPioProofs -----------------------------
(***************************************************************************)
(* For every length of a buffer: the header kept by write_buffer is the    *)
(* one of the access under way, the wire carries the frame of the access   *)
(* bit by bit, and a read returns what the chip answered.                  *)
(*                                                                         *)
(* The first part follows the processor: HInv says where in an access each *)
(* of the calls is made, and that keeps count and header apart.  The       *)
(* second part follows every bit: SInv adds what the DMA, the FIFOs, the   *)
(* shift registers and the pins hold at each instruction of the program.   *)
(***************************************************************************)
EXTENDS SpiPioProps, TLAPS

Op == [kind : Reads \cup Writes, len : 1..MaxLen, turn : Int]

(* The calls of an access before, between and after them.                  *)
First == calls = CallsOf(op) /\ spi_header_count = 0
Second == op.kind # "write_byte" /\ calls = Tail(CallsOf(op))
Kept == spi_header_count = SPI_HEADER_LEN /\ spi_header = Header(op)
Finished == calls = <<>> /\ spi_header_count = 0

Phase ==
  \/ pc = "idle" /\ Finished
  \/ pc = "frame_start" /\ First
  \/ pc = "call" /\ cs = 0 /\ (First \/ (Second /\ Kept) \/ Finished)
  \/ pc = "header" /\ cs = 0 /\ Second /\ Kept /\ op.kind = "write_buffer"
  \/ pc = "payload" /\ cs = 0 /\ Second /\ spi_header_count = 0 /\ op.kind = "write_buffer"
  \/ pc = "buffer" /\ cs = 0 /\ spi_header_count = 0 /\ op.kind \in Writes
     /\ (IF op.kind = "write_byte" THEN calls = CallsOf(op) ELSE Second)
  \/ pc = "reading" /\ cs = 0 /\ Second /\ op.kind \in Reads
  \/ pc = "unlock" /\ Finished

HInv ==
  /\ op \in Op
  /\ op.kind \in {"read_byte", "write_byte"} => op.len = 1
  /\ Phase
-----------------------------------------------------------------------------
(* A header is three bytes long, and with the byte of write_byte four.      *)
LEMMA HeaderSeq ==
  ASSUME NEW o \in Op
  PROVE  /\ Len(Header(o)) = SPI_HEADER_LEN
         /\ SubSeq(Header(o), 1, SPI_HEADER_LEN) = Header(o)
         /\ Len(Header(o) \o Data(o)) = SPI_HEADER_LEN + o.len
<1> DEFINE S == {Byte("data", o.turn, i) : i \in Nat} \cup {Byte(o.kind, o.turn, i) : i \in Nat}
<1>1. Header(o) \in Seq(S) /\ Len(Header(o)) = SPI_HEADER_LEN
  BY DEF Header, SPI_HEADER_LEN
<1>2. o.len \in Nat
  BY SpiAssumption DEF Op
<1>3. Data(o) \in Seq(S) /\ Len(Data(o)) = o.len
  BY <1>2 DEF Data
<1>4. SubSeq(Header(o), 1, SPI_HEADER_LEN) = Header(o)
  BY DEF Header, SPI_HEADER_LEN
<1> QED
  BY <1>1, <1>3, <1>4

(* The calls of an access: one of four bytes, or a header and another.      *)
LEMMA CallsFacts ==
  ASSUME NEW o \in Op
  PROVE  /\ CallsOf(o) # <<>> /\ Head(CallsOf(o)).f = "write"
         /\ o.kind = "write_byte" =>
              /\ Tail(CallsOf(o)) = <<>>
              /\ Head(CallsOf(o)).bytes = Header(o) \o Data(o)
         /\ o.kind # "write_byte" =>
              /\ Head(CallsOf(o)).bytes = Header(o)
              /\ Tail(CallsOf(o)) # <<>> /\ Tail(Tail(CallsOf(o))) = <<>>
              /\ Head(Tail(CallsOf(o))).f = IF o.kind = "write_buffer" THEN "write" ELSE "read"
<1>1. CASE o.kind = "write_byte"
  BY <1>1 DEF CallsOf, Call, Reads
<1>2. CASE o.kind = "write_buffer"
  BY <1>2 DEF CallsOf, Call, Reads
<1>3. CASE o.kind \in Reads
  BY <1>3 DEF CallsOf, Call, Reads
<1> QED
  BY <1>1, <1>2, <1>3 DEF Op, Writes
-----------------------------------------------------------------------------
(* The strengthening holds at first and is kept by every step.              *)
LEMMA HInvInit == Init => HInv
<1> SUFFICES ASSUME Init PROVE HInv
  OBVIOUS
<1>1. op \in Op /\ op.kind = "read_byte" /\ op.len = 1
  BY SpiAssumption DEF Init, Op, Reads
<1> QED
  BY <1>1 DEF Init, HInv, Phase, Finished

(* No step breaks it.                                                       *)
LEMMA HInvNext == HInv /\ [Next]_vars => HInv'
<1> SUFFICES ASSUME HInv, [Next]_vars PROVE HInv'
  OBVIOUS
<1> USE DEF HInv
<1>0. op \in Op
  OBVIOUS
<1>1. CASE wizchip_critical_section_lock
  <2>1. pc = "idle" /\ Finished
    BY <1>1 DEF wizchip_critical_section_lock, Phase
  <2>2. PICK kind \in Reads \cup Writes, len \in 1..MaxLen :
          /\ kind \in {"read_byte", "write_byte"} => len = 1
          /\ op' = [kind |-> kind, len |-> len, turn |-> 1 - op.turn]
    BY <1>1 DEF wizchip_critical_section_lock
  <2>3. op' \in Op /\ (op'.kind \in {"read_byte", "write_byte"} => op'.len = 1)
    BY <1>0, <2>2 DEF Op
  <2>4. pc' = "frame_start" /\ First'
    BY <1>1, <2>1 DEF wizchip_critical_section_lock, First, Finished
  <2> QED
    BY <2>3, <2>4 DEF Phase
<1>2. CASE wiznet_spi_pio_frame_start
  BY <1>2 DEF wiznet_spi_pio_frame_start, Phase, First
<1>3. CASE SaveHeader
  <2>1. op' = op /\ pc' = "call" /\ cs' = cs /\ cs = 0
    BY <1>3 DEF SaveHeader, Calling, Phase, Still
  <2>2. First
    BY <1>3, <1>0, CallsFacts DEF SaveHeader, Calling, Phase, IsHeader, Kept, Finished, SPI_HEADER_LEN
  <2>3. op.kind # "write_byte"
    BY <1>3, <1>0, <2>2, CallsFacts, HeaderSeq DEF SaveHeader, IsHeader, Buffer, First, SPI_HEADER_LEN
  <2>4. Second' /\ Kept'
    BY <1>3, <1>0, <2>1, <2>2, <2>3, CallsFacts, HeaderSeq DEF SaveHeader, Buffer, First, Second, Kept
  <2> QED
    BY <2>1, <2>4 DEF Phase
<1>4. CASE WriteHeader
  <2>1. op' = op /\ cs' = cs /\ pc = "call" /\ pc' = "header"
    BY <1>4 DEF WriteHeader, StartTx, Calling
  <2>2. Second /\ Kept
    BY <1>4, <2>1 DEF WriteHeader, Calling, Phase, First, Finished, SPI_HEADER_LEN
  <2>3. op.kind = "write_buffer"
    BY <1>4, <1>0, <2>2, CallsFacts DEF WriteHeader, Calling, Second
  <2> QED
    BY <1>4, <2>1, <2>2, <2>3 DEF WriteHeader, Phase, Second, Kept
<1>5. CASE HeaderWritten
  <2>1. op' = op /\ cs' = cs /\ pc = "header" /\ pc' = "payload" /\ calls' = calls
    BY <1>5 DEF HeaderWritten, TxDone
  <2> QED
    BY <1>5, <2>1 DEF HeaderWritten, Phase, Second
<1>6. CASE WriteBuffer
  <2>1. op' = op /\ cs' = cs /\ pc' = "buffer" /\ calls' = calls
        /\ spi_header_count' = spi_header_count
    BY <1>6 DEF WriteBuffer, StartTx
  <2>2. CASE pc = "payload"
    BY <2>1, <2>2 DEF Phase, Second, Writes
  <2>3. CASE Calling("write") /\ ~IsHeader /\ spi_header_count # SPI_HEADER_LEN
    <3>1. pc = "call" /\ cs = 0 /\ First
      BY <2>3 DEF Calling, Phase, Kept, Finished
    <3>2. op.kind = "write_byte"
      BY <1>0, <2>3, <3>1, CallsFacts, HeaderSeq DEF IsHeader, Buffer, First
    <3> QED
      BY <2>1, <3>1, <3>2 DEF Phase, First, Writes
  <2> QED
    BY <1>6, <2>2, <2>3 DEF WriteBuffer
<1>7. CASE BufferWritten
  <2>1. op' = op /\ cs' = cs /\ pc = "buffer" /\ pc' = "call" /\ calls' = Tail(calls)
        /\ spi_header_count' = spi_header_count
    BY <1>7 DEF BufferWritten, TxDone
  <2>2. cs = 0 /\ Finished'
    BY <1>0, <2>1, CallsFacts DEF Phase, Second, Finished
  <2> QED
    BY <2>1, <2>2 DEF Phase
<1>8. CASE ReadBuffer
  <2>1. op' = op /\ cs' = cs /\ pc = "call" /\ pc' = "reading" /\ calls' = calls
    BY <1>8 DEF ReadBuffer, StartTxRx, Calling
  <2>2. cs = 0 /\ Second /\ op.kind \in Reads
    BY <1>8, <1>0, <2>1, CallsFacts DEF ReadBuffer, Calling, Phase, First, Second, Finished, Op, Writes
  <2> QED
    BY <2>1, <2>2 DEF Phase, Second
<1>9. CASE BufferRead
  <2>1. op' = op /\ cs' = cs /\ pc = "reading" /\ pc' = "call" /\ calls' = Tail(calls)
        /\ spi_header_count' = 0
    BY <1>9 DEF BufferRead, RxDone
  <2>2. cs = 0 /\ Finished'
    BY <1>0, <2>1, CallsFacts DEF Phase, Second, Finished
  <2> QED
    BY <2>1, <2>2 DEF Phase
<1>10. CASE wiznet_spi_pio_frame_end
  <2>1. Finished
    BY <1>10, <1>0, CallsFacts DEF wiznet_spi_pio_frame_end, Phase, First, Second
  <2> QED
    BY <1>10, <2>1 DEF wiznet_spi_pio_frame_end, Phase, Finished
<1>11. CASE wizchip_critical_section_unlock
  BY <1>11 DEF wizchip_critical_section_unlock, Phase, Finished
<1>12. CASE UNCHANGED <<cpu, cs>>
  BY <1>12 DEF cpu, Phase, First, Second, Kept, Finished
<1>13. Program \/ DmaOut \/ DmaIn \/ UNCHANGED vars => UNCHANGED <<cpu, cs>>
  BY DEF Program, OutPins, OutStalls, JmpX, SetPins, SetPindirs, SetX, InPins, JmpY,
         DmaOut, DmaIn, vars
<1> QED
  BY <1>1, <1>2, <1>3, <1>4, <1>5, <1>6, <1>7, <1>8, <1>9, <1>10, <1>11, <1>12, <1>13
     DEF Next, Access

(* What the strengthening says of the header is HeaderPairing.              *)
LEMMA HInvPairs == HInv => HeaderPairing
<1> SUFFICES ASSUME HInv PROVE HeaderPairing
  OBVIOUS
<1>0. op \in Op /\ Phase
  BY DEF HInv
<1>1. Calling("read") => Kept
  BY <1>0, CallsFacts DEF Calling, Phase, First, Finished
<1>2. pc \in {"payload", "buffer"} => spi_header_count = 0
  BY <1>0 DEF Phase
<1>3. cs = 1 => spi_header_count = 0
  BY <1>0 DEF Phase, First, Finished
<1> QED
  BY <1>1, <1>2, <1>3 DEF HeaderPairing, Kept

(* For every length of a buffer, three included: a read is made with the    *)
(* header of its access, a payload is never written behind a stale header,  *)
(* and none is left when the frame ends.                                    *)
THEOREM HeaderPaired == Spec => []HeaderPairing
<1>1. Init => HInv
  BY HInvInit
<1>2. HInv /\ [Next]_vars => HInv'
  BY HInvNext
<1>3. HInv => HeaderPairing
  BY HInvPairs
<1> QED
  BY <1>1, <1>2, <1>3, PTL DEF Spec
-----------------------------------------------------------------------------
(* The wire.  Besides the place of the processor in an access, which HInv   *)
(* gives, the invariant follows every byte of the transfer under way: what  *)
(* the DMA has not moved yet, the entries of the FIFO, the bits left in the  *)
(* shift register and the bit on the pin are, in this order, what the frame  *)
(* still lacks, and x and y count the bits and the bytes to come.  Of a     *)
(* read it follows the answer in the same way, from the chip to the buffer. *)

ByteSet == Bytes \X Int \X Int
BitSet == ByteSet \X (0..(ByteBits - 1))

Words == Seq(BitSet)    (* what a shift register or an answered byte holds *)

Machines ==
  [on : BOOLEAN, at : 0..8, x : 0..WordMax, y : 0..WordMax, top : {2, 8},
   osr : Words, isr : Words]

(* Byte j and bit n of the frame of the access, and of the chip's answer.   *)
FrameByte(j) ==
  IF j <= SPI_HEADER_LEN THEN Byte(op.kind, op.turn, j)
                         ELSE Byte("data", op.turn, j - SPI_HEADER_LEN)
FrameBit(n) == <<FrameByte((n - 1) \div ByteBits + 1), (n - 1) % ByteBits>>
FrameLen == IF op.kind \in Writes THEN SPI_HEADER_LEN + op.len ELSE SPI_HEADER_LEN
MemByte(i) == [n \in 1..ByteBits |-> <<Byte("memory", op.turn, i), n - 1>>]
MemBit(n) == <<Byte("memory", op.turn, n \div ByteBits + 1), n % ByteBits>>

MachineOK == sm \in Machines /\ Len(sm.osr) < ByteBits /\ Len(sm.isr) < ByteBits
FifosOK ==
  /\ txf \in Seq(ByteSet) /\ Len(txf) <= FifoSize
  /\ rxf \in Seq(Words) /\ Len(rxf) <= FifoSize
  /\ txstall \in BOOLEAN
DmaOK == dma_out \in Seq(ByteSet) /\ dma_in \in 0..MaxLen /\ buf \in Seq(Words)
PinsOK == mosi \in BitSet /\ out_dir \in BOOLEAN
ChipOK == clk \in 0..1 /\ seen \in Words /\ miso \in BitSet

Wires == MachineOK /\ FifosOK /\ DmaOK /\ PinsOK /\ ChipOK

Registers ==
  /\ sem = (IF pc = "idle" THEN 1 ELSE 0)
  /\ cs = (IF pc \in {"idle", "frame_start", "unlock"} THEN 1 ELSE 0)
  /\ Len(spi_header) = SPI_HEADER_LEN /\ spi_header_count \in {0, SPI_HEADER_LEN}

(* The chip has heard the frame, as far as it goes.                         *)
Heard == \A i \in 1..Len(seen) : i <= ByteBits * FrameLen => seen[i] = FrameBit(i)

(* Bytes first+1 to last of the frame are being sent, and p are pulled.     *)
InShift(p) ==
  \A i \in 1..Len(sm.osr) : sm.osr[i] = <<FrameByte(p), ByteBits - Len(sm.osr) + i - 1>>

ToCome(last, p) ==
  /\ Len(txf) + Len(dma_out) = last - p
  /\ \A i \in 1..Len(txf) : txf[i] = FrameByte(p + i)
  /\ \A i \in 1..Len(dma_out) : dma_out[i] = FrameByte(p + Len(txf) + i)

Place(first, last, p) ==
  /\ sm.at \in {0, 1, 2} /\ p \in first..last
  /\ sm.at = 0 => /\ Len(seen) = ByteBits * p - Len(sm.osr)
                  /\ Len(sm.osr) > 0 => p > first
                  /\ Len(seen) < ByteBits * last => sm.x = ByteBits * last - 1 - Len(seen)
  /\ sm.at = 1 => /\ p > first /\ clk = 0
                  /\ Len(seen) = ByteBits * p - 1 - Len(sm.osr)
                  /\ sm.x = ByteBits * last - 1 - Len(seen)
  /\ sm.at = 2 => /\ p = last /\ clk = 1 /\ sm.osr = << >>
                  /\ Len(seen) = ByteBits * last

OnPin(p) == sm.at = 1 => mosi = <<FrameByte(p), ByteBits - 1 - Len(sm.osr)>>

Feeds(first, last, p) ==
  out_dir /\ InShift(p) /\ ToCome(last, p) /\ Place(first, last, p) /\ OnPin(p)

(* The state machine has sent what it was given, and waits for more.        *)
Stalled(last) ==
  /\ sm.at = 0 /\ clk = 0
  /\ sm.osr = << >> /\ txf = << >> /\ dma_out = << >>
  /\ Len(seen) = ByteBits * last

(* d bytes of the answer have left the shift register.                      *)
AllSent == sm.osr = << >> /\ txf = << >> /\ dma_out = << >>

Delivered(d) ==
  /\ d <= op.len /\ d = Len(buf) + Len(rxf)
  /\ \A i \in 1..Len(buf) : buf[i] = MemByte(i)
  /\ \A i \in 1..Len(rxf) : rxf[i] = MemByte(Len(buf) + i)

InIsr(d) == \A i \in 1..Len(sm.isr) : sm.isr[i] = <<Byte("memory", op.turn, d + 1), i - 1>>

(* The bit on miso is number k of byte d + 1, and the chip has had n clocks *)
(* for this byte.                                                           *)
Samples(d, n, k) ==
  Len(seen) = ByteBits * (SPI_HEADER_LEN + d) + n /\ miso = MemBit(ByteBits * d + k)

Edge(d) ==
  /\ sm.at \in {0, 3, 4, 5, 6, 7, 8}
  /\ sm.at \in {3, 4} => sm.isr = << >> /\ clk = 0 /\ Samples(d, 0, 0)
  /\ sm.at = 5 => /\ sm.x <= 6 /\ Len(sm.isr) = 6 - sm.x /\ clk = 1
                  /\ Samples(d, 7 - sm.x, 6 - sm.x)
  /\ sm.at = 6 => /\ sm.x <= 6 /\ Len(sm.isr) = 7 - sm.x /\ clk = 0
                  /\ Samples(d, 7 - sm.x, 7 - sm.x)
  /\ sm.at = 7 => Len(sm.isr) = 7 /\ clk = 1 /\ Samples(d, 8, 7)
  /\ sm.at = 8 => sm.isr = << >> /\ clk = 0 /\ d > 0 /\ Samples(d, 0, 0)
  /\ sm.at = 0 => /\ sm.isr = << >> /\ clk = 0 /\ d = op.len
                  /\ Len(seen) = ByteBits * (SPI_HEADER_LEN + d)
  /\ sm.at \in 3..7 => d < op.len /\ sm.y = op.len - 1 - d
  /\ sm.at = 8 => sm.y = op.len - d

Receives(d) == AllSent /\ Delivered(d) /\ InIsr(d) /\ Edge(d)

Sending(first, last) == sm.on /\ sm.top = StopsAt(write_end) /\ dma_in = 0
                        /\ \E p \in Nat : Feeds(first, last, p)

Reading ==
  /\ sm.on /\ sm.top = StopsAt(read_end)
  /\ Len(buf) + dma_in = op.len
  /\ \/ /\ \E p \in Nat : Feeds(0, SPI_HEADER_LEN, p)
        /\ buf = << >> /\ rxf = << >> /\ sm.isr = << >> /\ sm.y = op.len - 1
     \/ \E d \in Nat : Receives(d)

(* Between the transfers: a read leaves its state machine on.               *)
Quiet ==
  /\ clk = 0 /\ dma_out = << >> /\ dma_in = 0
  /\ sm.on => /\ txf = << >> /\ sm.osr = << >> /\ sm.top = StopsAt(read_end)
              /\ (sm.at = 0 \/ (sm.at = 8 /\ sm.y = 0))

(* The byte before the one a buffer starts with.                            *)
Base == IF op.kind = "write_byte" THEN 0 ELSE SPI_HEADER_LEN

Writing(first, last) == Sending(first, last) /\ (txstall => Stalled(last))

Transfer ==
  /\ pc \in {"idle", "frame_start", "call", "payload", "unlock"} => Quiet
  /\ pc = "header" => Writing(0, SPI_HEADER_LEN)
  /\ pc = "buffer" => \E first, last \in Nat :
       first = Base /\ last = SPI_HEADER_LEN + op.len /\ Writing(first, last)
  /\ pc = "reading" => Reading

Progress ==
  /\ pc = "call" /\ calls # << >> => seen = << >>
  /\ (pc = "call" /\ calls = << >>) \/ pc = "unlock" => Len(seen) = Clocks(op)
  /\ pc = "payload" => Len(seen) = ByteBits * SPI_HEADER_LEN
  /\ pc \notin {"idle", "frame_start"} => Heard
  /\ ((pc = "call" /\ calls = << >>) \/ pc = "unlock") /\ op.kind \in Reads => buf = Memory(op)

SInv == HInv /\ Wires /\ Registers /\ Transfer /\ Progress
-----------------------------------------------------------------------------
(* Bit o from the end of byte p, and bit r of byte d + 1 of the answer.     *)
LEMMA BitAt ==
  ASSUME NEW p \in Nat, NEW o \in 0..(ByteBits - 1), p > 0
  PROVE  FrameBit(ByteBits * p - o) = <<FrameByte(p), ByteBits - 1 - o>>
<1>1. (ByteBits * p - o - 1) \div ByteBits + 1 = p /\ (ByteBits * p - o - 1) % ByteBits = ByteBits - 1 - o
  BY DEF ByteBits
<1> QED
  BY <1>1 DEF FrameBit

(* Bit r of byte d + 1 of the answer.                                       *)
LEMMA AnswerAt ==
  ASSUME NEW d \in Nat, NEW r \in 0..(ByteBits - 1)
  PROVE  MemBit(ByteBits * d + r) = <<Byte("memory", op.turn, d + 1), r>>
<1>1. (ByteBits * d + r) \div ByteBits = d /\ (ByteBits * d + r) % ByteBits = r
  BY DEF ByteBits
<1> QED
  BY <1>1 DEF MemBit

(* The bits of one byte.                                                    *)
LEMMA ByteIs ==
  ASSUME NEW b
  PROVE  Bits(<<b>>) = [n \in 1..ByteBits |-> <<b, n - 1>>]
<1>1. \A n \in 1..ByteBits : (n - 1) \div ByteBits + 1 = 1 /\ (n - 1) % ByteBits = n - 1
  BY DEF ByteBits
<1>2. ByteBits * Len(<<b>>) = ByteBits
  BY DEF ByteBits
<1> QED
  BY <1>1, <1>2 DEF Bits

(* A byte is eight bits, first to last.                                     *)
LEMMA ByteSeq ==
  ASSUME NEW b \in ByteSet
  PROVE  /\ Bits(<<b>>) \in Seq(BitSet) /\ Len(Bits(<<b>>)) = ByteBits
         /\ \A n \in 1..ByteBits : Bits(<<b>>)[n] = <<b, n - 1>>
<1>1. \A n \in 1..ByteBits : <<b, n - 1>> \in BitSet
  BY DEF BitSet, ByteBits
<1>2. ByteBits \in Nat
  BY DEF ByteBits
<1> DEFINE bits == [n \in 1..ByteBits |-> <<b, n - 1>>]
<1>3. bits \in [1..ByteBits -> BitSet]
  BY <1>1
<1>4. bits \in Seq(BitSet) /\ Len(bits) = ByteBits
  BY <1>2, <1>3
<1> QED
  BY <1>4, ByteIs

(* Every byte of a frame and of an answer is a byte.                        *)
LEMMA FrameBytes ==
  ASSUME op \in Op, NEW j \in Int
  PROVE  FrameByte(j) \in ByteSet
BY DEF FrameByte, Byte, ByteSet, Bytes, Op, Reads, Writes, SPI_HEADER_LEN

(* Every bit of an answer is a bit.                                         *)
LEMMA AnswerBits ==
  ASSUME op \in Op, NEW n \in Nat
  PROVE  MemBit(n) \in BitSet
<1>1. n \div ByteBits + 1 \in Int /\ n % ByteBits \in 0..(ByteBits - 1)
  BY DEF ByteBits
<1> QED
  BY <1>1 DEF MemBit, BitSet, ByteSet, Byte, Bytes, Op

(* The constant levels of a pin are bits.                                   *)
LEMMA Levels == Low \in BitSet /\ High \in BitSet /\ Floating \in BitSet
BY DEF Low, High, Floating, None, Byte, BitSet, ByteSet, Bytes, ByteBits
-----------------------------------------------------------------------------
(* The chip, at an edge of the clock.                                       *)
LEMMA RiseHears ==
  ASSUME Wires, Rise
  PROVE  /\ ChipOK' /\ clk' = 1 /\ miso' = miso
         /\ cs = 0 /\ clk = 0 =>
              /\ Len(seen') = Len(seen) + 1
              /\ seen'[Len(seen) + 1] = (IF out_dir THEN mosi ELSE Floating)
              /\ \A i \in 1..Len(seen) : seen'[i] = seen[i]
<1>1. (IF out_dir THEN mosi ELSE Floating) \in BitSet
  BY Levels DEF Wires, PinsOK
<1> QED
  BY <1>1 DEF Wires, ChipOK, Rise, Words

(* In a read, the control byte is the last of the header.                   *)
LEMMA FallAnswers ==
  ASSUME op \in Op, Wires, Fall, cs = 0 => Heard
  PROVE  /\ ChipOK' /\ clk' = 0 /\ seen' = seen
         /\ clk = 0 => miso' = miso
         /\ clk = 1 /\ cs = 0 /\ op.kind \in Reads /\ Len(seen) >= HeaderBits =>
              miso' = MemBit(Len(seen) - HeaderBits)
<1>1. HeaderBits = ByteBits * SPI_HEADER_LEN /\ HeaderBits = 24
  BY DEF HeaderBits, ByteBits, SPI_HEADER_LEN
<1>2. ASSUME cs = 0, Len(seen) >= HeaderBits
      PROVE  seen[HeaderBits][1] = Byte(op.kind, op.turn, SPI_HEADER_LEN)
  <2>1. HeaderBits \in 1..Len(seen) /\ HeaderBits <= ByteBits * FrameLen
    BY <1>1, <1>2, SpiAssumption DEF Wires, ChipOK, Words, FrameLen, Op, ByteBits, SPI_HEADER_LEN
  <2>2. seen[HeaderBits] = FrameBit(ByteBits * SPI_HEADER_LEN - 0)
    BY <1>1, <1>2, <2>1 DEF Heard
  <2>3. FrameBit(ByteBits * SPI_HEADER_LEN - 0) = <<FrameByte(SPI_HEADER_LEN), ByteBits - 1 - 0>>
    BY BitAt DEF ByteBits, SPI_HEADER_LEN
  <2> QED
    BY <2>2, <2>3 DEF FrameByte, SPI_HEADER_LEN
<1>3. ASSUME cs = 0, Len(seen) >= HeaderBits, op.kind \in Reads
      PROVE  Answer = MemBit(Len(seen) - HeaderBits)
  <2>1. seen[HeaderBits][1][1] = op.kind /\ seen[HeaderBits][1][2] = op.turn
    BY <1>2, <1>3 DEF Byte
  <2>2. Len(seen) - HeaderBits >= 0
    BY <1>1, <1>3 DEF Wires, ChipOK, Words
  <2> QED
    BY <1>3, <2>1, <2>2 DEF Answer, MemBit
<1>4. Answer \in BitSet
  <2>1. CASE cs = 0 /\ Len(seen) >= HeaderBits
    <3>1. Len(seen) - HeaderBits \in Nat
      BY <1>1, <2>1 DEF Wires, ChipOK, Words
    <3>2. CASE op.kind \in Reads
      BY <1>3, <2>1, <3>1, <3>2, AnswerBits
    <3>3. CASE op.kind \notin Reads
      BY <1>2, <2>1, <3>3, Levels DEF Answer, Byte
    <3> QED
      BY <3>2, <3>3
  <2>2. CASE ~(cs = 0 /\ Len(seen) >= HeaderBits)
    BY <1>1, <2>2, Levels DEF Answer, Wires, ChipOK, Words
  <2> QED
    BY <2>1, <2>2
<1> QED
  BY <1>1, <1>3, <1>4 DEF Fall, Wires, ChipOK, Words
-----------------------------------------------------------------------------
(* The instructions that send.                                              *)
LEMMA Follows ==
  ASSUME sm \in Machines
  PROVE  /\ \A here \in {0, 1, 3, 4, 5, 6, 7} : After(here) = here + 1
         /\ After(2) = (IF sm.top = StopsAt(write_end) THEN 0 ELSE 3)
         /\ sm.top = StopsAt(read_end) => After(8) = 0
         /\ After(8) \in 0..9 /\ (sm.at = 8 /\ sm.top # 8 => After(8) = 9)
         /\ StopsAt(write_end) = 2 /\ StopsAt(read_end) = 8
BY DEF Machines, After, StopsAt, write_end, read_end, write_bits

(* The registers stay registers when some are written.                      *)
LEMMA MachineKept ==
  ASSUME NEW m \in Machines, NEW at \in 0..8
  PROVE  /\ \A osr \in Words : [m EXCEPT !.at = at, !.osr = osr] \in Machines
         /\ \A isr \in Words : [m EXCEPT !.at = at, !.isr = isr] \in Machines
         /\ \A x \in 0..WordMax : [m EXCEPT !.at = at, !.x = x] \in Machines
         /\ \A y \in 0..WordMax : [m EXCEPT !.at = at, !.y = y] \in Machines
         /\ [m EXCEPT !.at = at] \in Machines
         /\ [m EXCEPT !.on = FALSE] \in Machines
         /\ DOMAIN m = {"on", "at", "x", "y", "top", "osr", "isr"}
BY DEF Machines

(* The registers and the queues, as numbers and lengths.                    *)
LEMMA WiresAre ==
  ASSUME Wires
  PROVE  /\ sm \in Machines /\ DOMAIN sm = {"on", "at", "x", "y", "top", "osr", "isr"}
         /\ sm.at \in 0..8 /\ sm.x \in 0..WordMax /\ sm.y \in 0..WordMax /\ sm.on \in BOOLEAN
         /\ sm.top \in {2, 8}
         /\ sm.osr \in Words /\ Len(sm.osr) \in Nat /\ Len(sm.osr) <= 7 /\ sm.isr \in Words
         /\ Len(sm.isr) \in Nat /\ Len(sm.isr) <= 7
         /\ Len(txf) \in Nat /\ Len(txf) <= 4 /\ Len(rxf) \in Nat /\ Len(rxf) <= 4
         /\ Len(dma_out) \in Nat
         /\ Len(buf) \in Nat /\ Len(seen) \in Nat /\ clk \in 0..1 /\ dma_in \in Nat
<1>1. sm \in Machines /\ Len(sm.osr) < 8 /\ Len(sm.isr) < 8
  BY DEF Wires, MachineOK, ByteBits
<1>2. /\ sm.at \in 0..8 /\ sm.x \in 0..WordMax /\ sm.y \in 0..WordMax /\ sm.on \in BOOLEAN
      /\ sm.top \in {2, 8} /\ sm.osr \in Words /\ sm.isr \in Words
      /\ DOMAIN sm = {"on", "at", "x", "y", "top", "osr", "isr"}
  BY <1>1 DEF Machines
<1>3. Len(sm.osr) \in Nat /\ Len(sm.osr) <= 7 /\ Len(sm.isr) \in Nat /\ Len(sm.isr) <= 7
  BY <1>1, <1>2 DEF Words
<1>4. Len(txf) \in Nat /\ Len(txf) <= 4 /\ Len(rxf) \in Nat /\ Len(rxf) <= 4
  BY DEF Wires, FifosOK, FifoSize
<1>5. Len(dma_out) \in Nat /\ Len(buf) \in Nat /\ dma_in \in Nat
  BY DEF Wires, DmaOK
<1>6. Len(seen) \in Nat /\ clk \in 0..1
  BY DEF Wires, ChipOK, Words
<1> QED
  BY <1>1, <1>2, <1>3, <1>4, <1>5, <1>6

(* What one out instruction does: either a bit of the shift register goes   *)
(* to the pin, or the first bit of the next byte.                           *)
OutBit ==
  /\ sm.osr # <<>> /\ txf' = txf
  /\ mosi' = sm.osr[1] /\ Len(sm'.osr) = Len(sm.osr) - 1
  /\ \A i \in 1..Len(sm'.osr) : sm'.osr[i] = sm.osr[i + 1]
OutByte ==
  /\ sm.osr = <<>> /\ txf # <<>> /\ Len(txf') = Len(txf) - 1
  /\ \A i \in 1..Len(txf') : txf'[i] = txf[i + 1]
  /\ mosi' = <<txf[1], 0>> /\ Len(sm'.osr) = 7
  /\ \A i \in 1..7 : sm'.osr[i] = <<txf[1], i>>

(* In both cases the hardware stays in its types and the clock falls.       *)
LEMMA OutPinsIs ==
  ASSUME op \in Op, Wires, cs = 0 => Heard, OutPins
  PROVE  /\ Wires' /\ seen' = seen /\ clk' = 0
         /\ sm.on /\ sm.at = 0
         /\ sm'.on /\ sm'.at = 1 /\ sm'.x = sm.x /\ sm'.y = sm.y /\ sm'.top = sm.top
         /\ sm'.isr = sm.isr
         /\ UNCHANGED <<cpu, cs, rxf, txstall, dma, out_dir>>
         /\ OutBit \/ OutByte
<1>1. /\ UNCHANGED <<cpu, cs, rxf, txstall, dma, out_dir>>
      /\ sm.on /\ sm.at = 0 /\ Fall
      /\ sm \in Machines /\ txf \in Seq(ByteSet) /\ Len(sm.isr) < ByteBits
  BY DEF OutPins, At, Wires, MachineOK, FifosOK, write_bits
<1>2. clk' = 0 /\ seen' = seen /\ ChipOK'
  BY <1>1, FallAnswers
<1>3. DmaOK' /\ out_dir' \in BOOLEAN
  BY <1>1 DEF Wires, DmaOK, PinsOK, dma
<1>4. ASSUME NEW osr \in Words, osr # <<>>, Len(osr) <= ByteBits, Shift(osr)
      PROVE  /\ sm'.on /\ sm'.at = 1 /\ sm'.x = sm.x /\ sm'.y = sm.y /\ sm'.top = sm.top
             /\ sm'.isr = sm.isr /\ MachineOK'
             /\ mosi' = osr[1] /\ mosi' \in BitSet
             /\ Len(sm'.osr) = Len(osr) - 1
             /\ \A i \in 1..Len(sm'.osr) : sm'.osr[i] = osr[i + 1]
  <2>1. After(write_bits) = 1
    BY <1>1, Follows DEF write_bits
  <2>2. sm' = [sm EXCEPT !.at = 1, !.osr = Tail(osr)] /\ mosi' = Head(osr)
    BY <1>4, <2>1 DEF Shift
  <2>3. /\ Tail(osr) \in Words /\ Len(Tail(osr)) = Len(osr) - 1 /\ Head(osr) \in BitSet
        /\ Head(osr) = osr[1] /\ \A i \in 1..(Len(osr) - 1) : Tail(osr)[i] = osr[i + 1]
        /\ Len(osr) \in Nat
    BY <1>4 DEF Words
  <2>4. 1 \in 0..8
    OBVIOUS
  <2>5. sm' \in Machines /\ DOMAIN sm = {"on", "at", "x", "y", "top", "osr", "isr"}
    BY <1>1, <2>2, <2>3, <2>4, MachineKept
  <2>6. /\ sm'.osr = Tail(osr) /\ sm'.isr = sm.isr
        /\ sm'.on /\ sm'.at = 1 /\ sm'.x = sm.x /\ sm'.y = sm.y /\ sm'.top = sm.top
    BY <1>1, <2>2, <2>5
  <2>7. Len(osr) - 1 < ByteBits
    BY <1>4, <2>3 DEF ByteBits
  <2> QED
    BY <1>1, <2>2, <2>3, <2>5, <2>6, <2>7 DEF MachineOK
<1>5. CASE sm.osr # <<>> /\ Shift(sm.osr) /\ UNCHANGED txf
  <2>1. sm.osr \in Words /\ Len(sm.osr) <= ByteBits
    BY WiresAre DEF ByteBits
  <2>2. FifosOK'
    BY <1>1, <1>5 DEF Wires, FifosOK
  <2>3. MachineOK' /\ PinsOK' /\ OutBit
    BY <1>3, <1>4, <1>5, <2>1 DEF PinsOK, OutBit
  <2> QED
    BY <1>1, <1>2, <1>3, <1>4, <1>5, <2>1, <2>2, <2>3 DEF Wires
<1>6. CASE sm.osr = <<>> /\ txf # <<>> /\ Shift(Bits(<<Head(txf)>>)) /\ txf' = Tail(txf)
  <2>1. Head(txf) \in ByteSet /\ Head(txf) = txf[1] /\ txf' \in Seq(ByteSet)
        /\ Len(txf') = Len(txf) - 1 /\ \A i \in 1..Len(txf') : txf'[i] = txf[i + 1]
    BY <1>1, <1>6
  <2> DEFINE bits == Bits(<<Head(txf)>>)
  <2>2. bits \in Words /\ Len(bits) = 8 /\ \A n \in 1..8 : bits[n] = <<txf[1], n - 1>>
    BY <2>1, ByteSeq DEF ByteBits, Words
  <2>3. Shift(bits)
    BY <1>6
  <2> HIDE DEF bits
  <2>4. bits # <<>> /\ Len(bits) <= ByteBits
    BY <2>2 DEF ByteBits
  <2>5. /\ sm'.on /\ sm'.at = 1 /\ sm'.x = sm.x /\ sm'.y = sm.y /\ sm'.top = sm.top
        /\ sm'.isr = sm.isr /\ MachineOK' /\ mosi' = bits[1] /\ mosi' \in BitSet
        /\ Len(sm'.osr) = Len(bits) - 1 /\ \A i \in 1..Len(sm'.osr) : sm'.osr[i] = bits[i + 1]
    BY <1>4, <2>2, <2>3, <2>4
  <2>6. /\ mosi' = <<txf[1], 0>> /\ Len(sm'.osr) = 7
        /\ \A i \in 1..7 : sm'.osr[i] = <<txf[1], i>>
    BY <2>2, <2>5
  <2>7. FifosOK'
    BY <1>1, <2>1, WiresAre DEF Wires, FifosOK, FifoSize
  <2> QED
    BY <1>1, <1>2, <1>3, <1>6, <2>1, <2>5, <2>6, <2>7 DEF Wires, PinsOK, OutByte
<1> QED
  BY <1>5, <1>6 DEF OutPins

(* While the access goes on its frame is the same.                          *)
LEMMA FrameStays ==
  ASSUME op' = op
  PROVE  /\ \A j \in Int : FrameByte(j)' = FrameByte(j)
         /\ \A n \in Int : FrameBit(n)' = FrameBit(n)
         /\ \A n \in Int : MemBit(n)' = MemBit(n)
         /\ \A n \in Int : MemByte(n)' = MemByte(n)
         /\ FrameLen' = FrameLen
BY DEF FrameByte, FrameBit, MemBit, MemByte, FrameLen

(* A bit goes from the shift register to the pin.                           *)
LEMMA OutBitFeeds ==
  ASSUME op \in Op, Wires, cs = 0 => Heard, OutPins, OutBit,
         NEW first \in Nat, NEW last \in Nat, NEW p \in Nat, Feeds(first, last, p)
  PROVE  Feeds(first, last, p)'
<1>1. /\ sm.at = 0 /\ sm'.at = 1 /\ sm'.x = sm.x /\ clk' = 0
      /\ UNCHANGED <<seen, op, dma_out, out_dir, txf>>
      /\ Len(sm.osr) \in Nat /\ Len(sm.osr) <= 7 /\ Len(seen) \in Nat /\ sm.osr # <<>>
      /\ Len(sm.osr) > 0 /\ Len(sm'.osr) = Len(sm.osr) - 1
  <2>1. sm.osr # <<>> => Len(sm.osr) > 0
    BY WiresAre DEF Words
  <2> QED
    BY OutPinsIs, WiresAre, <2>1 DEF cpu, dma, OutBit
<1>2. \A j \in Int : FrameByte(j)' = FrameByte(j)
  BY <1>1, FrameStays
<1>3. InShift(p)'
  <2>1. \A i \in 1..Len(sm'.osr) : sm'.osr[i] = <<FrameByte(p), ByteBits - Len(sm'.osr) + i - 1>>
    <3> TAKE i \in 1..Len(sm'.osr)
    <3>1. /\ i + 1 \in 1..Len(sm.osr)
          /\ ByteBits - Len(sm.osr) + (i + 1) - 1 = ByteBits - Len(sm'.osr) + i - 1
      BY <1>1 DEF ByteBits
    <3> QED
      BY <3>1 DEF OutBit, Feeds, InShift
  <2> QED
    BY <1>2, <2>1 DEF InShift
<1>4. ToCome(last, p)'
  <2>1. /\ \A i \in 1..Len(txf) : FrameByte(p + i)' = FrameByte(p + i)
        /\ \A i \in 1..Len(dma_out) : FrameByte(p + Len(txf) + i)' = FrameByte(p + Len(txf) + i)
    BY <1>1, <1>2, WiresAre
  <2> QED
    BY <1>1, <2>1 DEF Feeds, ToCome
<1>5. Place(first, last, p)'
  BY <1>1 DEF Feeds, Place, ByteBits
<1>6. OnPin(p)'
  <2>1. 1 \in 1..Len(sm.osr) /\ ByteBits - Len(sm.osr) + 1 - 1 = ByteBits - 1 - Len(sm'.osr)
    BY <1>1 DEF ByteBits
  <2>2. sm.osr[1] = <<FrameByte(p), ByteBits - 1 - Len(sm'.osr)>>
    BY <2>1 DEF Feeds, InShift
  <2> QED
    BY <1>2, <2>2 DEF OnPin, OutBit
<1> QED
  BY <1>1, <1>3, <1>4, <1>5, <1>6 DEF Feeds

(* A byte goes from the FIFO to the shift register, its first bit to the pin. *)
LEMMA OutByteFeeds ==
  ASSUME op \in Op, Wires, cs = 0 => Heard, OutPins, OutByte,
         NEW first \in Nat, NEW last \in Nat, NEW p \in Nat, Feeds(first, last, p)
  PROVE  Feeds(first, last, p + 1)'
<1>1. /\ sm.at = 0 /\ sm'.at = 1 /\ sm'.x = sm.x /\ clk' = 0
      /\ UNCHANGED <<seen, op, dma_out, out_dir>>
      /\ Len(seen) \in Nat /\ Len(txf) \in Nat /\ Len(dma_out) \in Nat
      /\ Len(sm.osr) = 0 /\ Len(sm'.osr) = 7
      /\ Len(txf) > 0 /\ Len(txf') = Len(txf) - 1
      /\ txf[1] = FrameByte(p + 1)
      /\ p \in first..last /\ Len(txf) + Len(dma_out) = last - p
  <2>1. sm.osr = <<>> /\ txf # <<>> /\ txf \in Seq(ByteSet)
    BY DEF OutByte, Wires, FifosOK
  <2>2. Len(txf) > 0 /\ Len(sm.osr) = 0 /\ 1 \in 1..Len(txf)
    BY <2>1
  <2> QED
    BY OutPinsIs, WiresAre, <2>2 DEF cpu, dma, OutByte, Feeds, ToCome, Place
<1>2. \A j \in Int : FrameByte(j)' = FrameByte(j)
  BY <1>1, FrameStays
<1>3. InShift(p + 1)'
  <2>1. \A i \in 1..Len(sm'.osr) : sm'.osr[i] = <<FrameByte(p + 1), ByteBits - Len(sm'.osr) + i - 1>>
    BY <1>1 DEF OutByte, ByteBits
  <2> QED
    BY <1>2, <2>1 DEF InShift
<1>4. ToCome(last, p + 1)'
  <2>1. \A i \in 1..Len(txf') : txf'[i] = FrameByte((p + 1) + i)'
    <3> TAKE i \in 1..Len(txf')
    <3>0. i \in Int /\ 1 <= i /\ i <= Len(txf) - 1
      BY <1>1
    <3>1. i + 1 \in 1..Len(txf) /\ p + (i + 1) = (p + 1) + i /\ (p + 1) + i \in Int
      BY <1>1, <3>0
    <3> QED
      BY <1>2, <3>1 DEF OutByte, Feeds, ToCome
  <2>2. \A i \in 1..Len(dma_out) : dma_out[i] = FrameByte((p + 1) + Len(txf) + i)'
    <3> TAKE i \in 1..Len(dma_out)
    <3>1. p + Len(txf) + i = (p + 1) + Len(txf') + i /\ (p + 1) + Len(txf') + i \in Int
      BY <1>1
    <3>2. dma_out[i] = FrameByte((p + 1) + Len(txf') + i)
      BY <3>1 DEF Feeds, ToCome
    <3> QED
      BY <1>2, <3>1, <3>2
  <2>3. Len(txf') + Len(dma_out) = last - (p + 1)
    BY <1>1
  <2> QED
    BY <1>1, <2>1, <2>2, <2>3 DEF ToCome
<1>5. Place(first, last, p + 1)'
  BY <1>1 DEF Feeds, Place, ByteBits
<1>6. OnPin(p + 1)'
  BY <1>1, <1>2 DEF OnPin, OutByte, ByteBits
<1> QED
  BY <1>1, <1>3, <1>4, <1>5, <1>6 DEF Feeds

(* Either way the frame goes on where it was.                               *)
LEMMA OutPinsFeeds ==
  ASSUME op \in Op, Wires, cs = 0 => Heard, OutPins,
         NEW first \in Nat, NEW last \in Nat, NEW p \in Nat, Feeds(first, last, p)
  PROVE  \E q \in Nat : Feeds(first, last, q)'
<1>1. p \in Nat /\ p + 1 \in Nat
  OBVIOUS
<1> QED
  BY <1>1, OutPinsIs, OutBitFeeds, OutByteFeeds
-----------------------------------------------------------------------------
(* What each of the other steps of the hardware does.                       *)
Heads == UNCHANGED <<cpu, cs>>
Rests(fields) == \A f \in fields : sm'[f] = sm[f]

(* A stall sets TXSTALL and moves nothing.                                  *)
LEMMA OutStallsIs ==
  ASSUME op \in Op, Wires, cs = 0 => Heard, OutStalls
  PROVE  /\ Wires' /\ Heads /\ seen' = seen /\ clk' = 0 /\ (clk = 0 => miso' = miso)
         /\ sm.on /\ sm.at = 0 /\ sm.osr = <<>> /\ txf = <<>> /\ dma_out = <<>>
         /\ UNCHANGED <<sm, txf, rxf, dma_out, dma_in, buf, mosi, out_dir>>
<1>1. /\ Heads /\ Fall /\ txstall' = TRUE
      /\ sm.on /\ sm.at = 0 /\ sm.osr = <<>> /\ txf = <<>> /\ dma_out = <<>>
      /\ UNCHANGED <<sm, txf, rxf, dma_out, dma_in, buf, mosi, out_dir>>
  BY DEF OutStalls, At, Heads, write_bits, dma
<1>2. ChipOK' /\ seen' = seen /\ clk' = 0 /\ (clk = 0 => miso' = miso)
  BY <1>1, FallAnswers
<1>3. MachineOK' /\ FifosOK' /\ DmaOK' /\ PinsOK'
  BY <1>1 DEF Wires, MachineOK, FifosOK, DmaOK, PinsOK
<1> QED
  BY <1>1, <1>2, <1>3 DEF Wires

(* jmp x: the clock rises and x counts down.                                *)
LEMMA JmpXIs ==
  ASSUME op \in Op, Wires, NEW here \in {1, 6}, NEW target \in {0, 5}, JmpX(here, target)
  PROVE  /\ Wires' /\ Heads /\ clk' = 1 /\ miso' = miso
         /\ cs = 0 /\ clk = 0 =>
              /\ Len(seen') = Len(seen) + 1
              /\ seen'[Len(seen) + 1] = (IF out_dir THEN mosi ELSE Floating)
              /\ \A i \in 1..Len(seen) : seen'[i] = seen[i]
         /\ sm.on /\ sm.at = here /\ Rests({"on", "y", "top", "osr", "isr"})
         /\ sm'.at = (IF sm.x # 0 THEN target ELSE here + 1)
         /\ sm'.x = (IF sm.x = 0 THEN WordMax ELSE sm.x - 1)
         /\ UNCHANGED <<txf, rxf, txstall, dma_out, dma_in, buf, mosi, out_dir>>
<1>1. /\ Heads /\ Rise /\ sm.on /\ sm.at = here
      /\ UNCHANGED <<txf, rxf, txstall, dma_out, dma_in, buf, mosi, out_dir>>
      /\ sm' = [sm EXCEPT !.at = IF sm.x # 0 THEN target ELSE After(here), !.x = Down(sm.x)]
  BY DEF JmpX, At, Heads, fifos, dma
<1>2. sm \in Machines /\ sm.x \in 0..WordMax /\ After(here) = here + 1
      /\ DOMAIN sm = {"on", "at", "x", "y", "top", "osr", "isr"}
  BY WiresAre, Follows
<1> DEFINE at == IF sm.x # 0 THEN target ELSE After(here)
<1>3. at \in 0..8 /\ Down(sm.x) \in 0..WordMax
      /\ Down(sm.x) = (IF sm.x = 0 THEN WordMax ELSE sm.x - 1)
  BY <1>2, SpiAssumption DEF Down
<1>4. sm' = [sm EXCEPT !.at = at, !.x = Down(sm.x)]
  BY <1>1
<1>5. at = (IF sm.x # 0 THEN target ELSE here + 1)
  BY <1>2
<1> HIDE DEF at
<1>6. sm' \in Machines /\ sm'.at = at /\ sm'.x = Down(sm.x)
      /\ Rests({"on", "y", "top", "osr", "isr"})
  BY <1>2, <1>3, <1>4, MachineKept DEF Rests
<1>7. ChipOK' /\ clk' = 1 /\ miso' = miso
  BY <1>1, RiseHears
<1>8. MachineOK' /\ FifosOK' /\ DmaOK' /\ PinsOK'
  BY <1>1, <1>6 DEF Wires, MachineOK, FifosOK, DmaOK, PinsOK, Rests
<1> QED
  BY <1>1, <1>3, <1>5, <1>6, <1>7, <1>8, RiseHears DEF Wires

(* set pins: the data pin goes low after the last bit.                      *)
LEMMA SetPinsIs ==
  ASSUME op \in Op, Wires, cs = 0 => Heard, SetPins
  PROVE  /\ Wires' /\ Heads /\ seen' = seen /\ clk' = 0 /\ (clk = 0 => miso' = miso)
         /\ clk = 1 /\ cs = 0 /\ op.kind \in Reads /\ Len(seen) >= HeaderBits =>
              miso' = MemBit(Len(seen) - HeaderBits)
         /\ sm.on /\ sm.at = 2 /\ Rests({"on", "x", "y", "top", "osr", "isr"})
         /\ sm'.at = (IF sm.top = 2 THEN 0 ELSE 3)
         /\ UNCHANGED <<txf, rxf, txstall, dma_out, dma_in, buf, out_dir>>
<1>1. /\ Heads /\ Fall /\ sm.on /\ sm.at = 2 /\ mosi' = Low
      /\ UNCHANGED <<txf, rxf, txstall, dma_out, dma_in, buf, out_dir>>
      /\ sm' = [sm EXCEPT !.at = After(2)]
  BY DEF SetPins, At, Heads, fifos, dma
<1>2. sm \in Machines /\ After(2) = (IF sm.top = 2 THEN 0 ELSE 3) /\ After(2) \in 0..8
      /\ DOMAIN sm = {"on", "at", "x", "y", "top", "osr", "isr"}
  BY WiresAre, Follows
<1>3. sm' \in Machines /\ sm'.at = After(2) /\ Rests({"on", "x", "y", "top", "osr", "isr"})
  BY <1>1, <1>2, MachineKept DEF Rests
<1>4. ChipOK'
  BY <1>1, FallAnswers
<1>5. MachineOK' /\ FifosOK' /\ DmaOK' /\ PinsOK'
  BY <1>1, <1>3, Levels DEF Wires, MachineOK, FifosOK, DmaOK, PinsOK, Rests
<1> QED
  BY <1>1, <1>2, <1>3, <1>4, <1>5, FallAnswers DEF Wires

(* set pindirs: the data pin is released to the chip.                       *)
LEMMA SetPindirsIs ==
  ASSUME op \in Op, Wires, cs = 0 => Heard, SetPindirs
  PROVE  /\ Wires' /\ Heads /\ seen' = seen /\ clk' = 0 /\ (clk = 0 => miso' = miso)
         /\ sm.on /\ sm.at = 3 /\ Rests({"on", "x", "y", "top", "osr", "isr"}) /\ sm'.at = 4
         /\ UNCHANGED <<txf, rxf, txstall, dma_out, dma_in, buf, mosi>>
<1>1. /\ Heads /\ Fall /\ sm.on /\ sm.at = 3 /\ out_dir' = FALSE
      /\ UNCHANGED <<txf, rxf, txstall, dma_out, dma_in, buf, mosi>>
      /\ sm' = [sm EXCEPT !.at = After(3)]
  BY DEF SetPindirs, At, Heads, fifos, dma
<1>2. sm \in Machines /\ After(3) = 4 /\ 4 \in 0..8
      /\ DOMAIN sm = {"on", "at", "x", "y", "top", "osr", "isr"}
  BY WiresAre, Follows
<1>3. sm' \in Machines /\ sm'.at = 4 /\ Rests({"on", "x", "y", "top", "osr", "isr"})
  BY <1>1, <1>2, MachineKept DEF Rests
<1>4. ChipOK'
  BY <1>1, FallAnswers
<1>5. MachineOK' /\ FifosOK' /\ DmaOK' /\ PinsOK'
  BY <1>1, <1>3 DEF Wires, MachineOK, FifosOK, DmaOK, PinsOK, Rests
<1> QED
  BY <1>1, <1>3, <1>4, <1>5, FallAnswers DEF Wires

(* set x: seven more bits of the byte.                                      *)
LEMMA SetXIs ==
  ASSUME op \in Op, Wires, SetX
  PROVE  /\ Wires' /\ Heads /\ clk' = 1 /\ miso' = miso
         /\ cs = 0 /\ clk = 0 =>
              /\ Len(seen') = Len(seen) + 1
              /\ \A i \in 1..Len(seen) : seen'[i] = seen[i]
         /\ sm.on /\ sm.at = 4 /\ Rests({"on", "y", "top", "osr", "isr"})
         /\ sm'.at = 5 /\ sm'.x = 6
         /\ UNCHANGED <<txf, rxf, txstall, dma_out, dma_in, buf, mosi, out_dir>>
<1>1. /\ Heads /\ Rise /\ sm.on /\ sm.at = 4
      /\ UNCHANGED <<txf, rxf, txstall, dma_out, dma_in, buf, mosi, out_dir>>
      /\ sm' = [sm EXCEPT !.at = After(4), !.x = 6]
  BY DEF SetX, At, Heads, fifos, dma
<1>2. sm \in Machines /\ After(4) = 5 /\ 5 \in 0..8 /\ 6 \in 0..WordMax
      /\ DOMAIN sm = {"on", "at", "x", "y", "top", "osr", "isr"}
  BY WiresAre, Follows, SpiAssumption
<1>3. sm' \in Machines /\ sm'.at = 5 /\ sm'.x = 6 /\ Rests({"on", "y", "top", "osr", "isr"})
  BY <1>1, <1>2, MachineKept DEF Rests
<1>4. ChipOK' /\ clk' = 1 /\ miso' = miso
  BY <1>1, RiseHears
<1>5. MachineOK' /\ FifosOK' /\ DmaOK' /\ PinsOK'
  BY <1>1, <1>3 DEF Wires, MachineOK, FifosOK, DmaOK, PinsOK, Rests
<1> QED
  BY <1>1, <1>3, <1>4, <1>5, RiseHears DEF Wires

(* jmp y: y counts the bytes down.                                          *)
LEMMA JmpYIs ==
  ASSUME op \in Op, Wires, cs = 0 => Heard, JmpY, sm.top = 8
  PROVE  /\ Wires' /\ Heads /\ seen' = seen /\ clk' = 0 /\ (clk = 0 => miso' = miso)
         /\ sm.on /\ sm.at = 8 /\ Rests({"on", "x", "top", "osr", "isr"})
         /\ sm'.at = (IF sm.y # 0 THEN 4 ELSE 0)
         /\ sm'.y = (IF sm.y = 0 THEN WordMax ELSE sm.y - 1)
         /\ UNCHANGED <<txf, rxf, txstall, dma_out, dma_in, buf, mosi, out_dir>>
<1>1. /\ Heads /\ Fall /\ sm.on /\ sm.at = 8
      /\ UNCHANGED <<txf, rxf, txstall, dma_out, dma_in, buf, mosi, out_dir>>
      /\ sm' = [sm EXCEPT !.at = IF sm.y # 0 THEN 4 ELSE After(8), !.y = Down(sm.y)]
  BY DEF JmpY, At, Heads, fifos, dma
<1>2. sm \in Machines /\ sm.y \in 0..WordMax /\ After(8) = 0
      /\ DOMAIN sm = {"on", "at", "x", "y", "top", "osr", "isr"}
  BY WiresAre, Follows
<1> DEFINE at == IF sm.y # 0 THEN 4 ELSE After(8)
<1>3. at \in 0..8 /\ Down(sm.y) \in 0..WordMax
      /\ Down(sm.y) = (IF sm.y = 0 THEN WordMax ELSE sm.y - 1)
      /\ at = (IF sm.y # 0 THEN 4 ELSE 0)
  BY <1>2, SpiAssumption DEF Down
<1>4. sm' = [sm EXCEPT !.at = at, !.y = Down(sm.y)]
  BY <1>1
<1> HIDE DEF at
<1>5. sm' \in Machines /\ sm'.at = at /\ sm'.y = Down(sm.y)
      /\ Rests({"on", "x", "top", "osr", "isr"})
  BY <1>2, <1>3, <1>4, MachineKept DEF Rests
<1>6. ChipOK'
  BY <1>1, FallAnswers
<1>7. MachineOK' /\ FifosOK' /\ DmaOK' /\ PinsOK'
  BY <1>1, <1>5 DEF Wires, MachineOK, FifosOK, DmaOK, PinsOK, Rests
<1> QED
  BY <1>1, <1>3, <1>5, <1>6, <1>7, FallAnswers DEF Wires

(* in pins: a bit is sampled, and the eighth pushes the byte.               *)
LEMMA InPinsIs ==
  ASSUME op \in Op, Wires, cs = 0 => Heard, NEW here \in {5, 7}, InPins(here)
  PROVE  /\ Wires' /\ Heads /\ seen' = seen /\ clk' = 0 /\ (clk = 0 => miso' = miso)
         /\ clk = 1 /\ cs = 0 /\ op.kind \in Reads /\ Len(seen) >= HeaderBits =>
              miso' = MemBit(Len(seen) - HeaderBits)
         /\ sm.on /\ sm.at = here /\ Rests({"on", "x", "y", "top", "osr"}) /\ sm'.at = here + 1
         /\ UNCHANGED <<txf, txstall, dma_out, dma_in, buf, mosi, out_dir>>
         /\ IF Len(sm.isr) = 7
              THEN /\ sm'.isr = <<>> /\ Len(rxf') = Len(rxf) + 1
                   /\ \A i \in 1..Len(rxf) : rxf'[i] = rxf[i]
                   /\ rxf'[Len(rxf) + 1] = Append(sm.isr, miso)
              ELSE /\ Len(sm'.isr) = Len(sm.isr) + 1 /\ rxf' = rxf
                   /\ \A i \in 1..Len(sm.isr) : sm'.isr[i] = sm.isr[i]
                   /\ sm'.isr[Len(sm.isr) + 1] = miso
<1> DEFINE isr == Append(sm.isr, miso)
           full == Len(isr) = 8
<1>1. /\ Heads /\ Fall /\ sm.on /\ sm.at = here
      /\ UNCHANGED <<txf, txstall, dma_out, dma_in, buf, mosi, out_dir>>
      /\ full => Len(rxf) < 4
      /\ sm' = [sm EXCEPT !.at = After(here), !.isr = IF full THEN <<>> ELSE isr]
      /\ rxf' = IF full THEN Append(rxf, isr) ELSE rxf
  BY DEF InPins, At, Heads, dma, ByteBits, FifoSize
<1>2. sm \in Machines /\ After(here) = here + 1 /\ here + 1 \in 0..8
      /\ DOMAIN sm = {"on", "at", "x", "y", "top", "osr", "isr"}
      /\ sm.isr \in Words /\ Len(sm.isr) \in Nat /\ Len(sm.isr) <= 7 /\ miso \in BitSet
      /\ rxf \in Seq(Words) /\ Len(rxf) \in Nat
  BY WiresAre, Follows DEF Wires, ChipOK, FifosOK
<1>3. /\ isr \in Words /\ Len(isr) = Len(sm.isr) + 1 /\ isr[Len(sm.isr) + 1] = miso
      /\ \A i \in 1..Len(sm.isr) : isr[i] = sm.isr[i]
  BY <1>2 DEF Words
<1>4. <<>> \in Words /\ Len(<<>>) = 0
  BY DEF Words
<1> HIDE DEF isr
<1>5. (full <=> Len(sm.isr) = 7) /\ (~full => Len(isr) < 8)
  <2> DEFINE n == Len(sm.isr)
             m == Len(isr)
  <2>1. n \in Nat /\ n <= 7 /\ m = n + 1
    BY <1>2, <1>3
  <2> HIDE DEF n, m
  <2>2. (m = 8 <=> n = 7) /\ (m # 8 => m < 8)
    BY <2>1
  <2> QED
    BY <2>2 DEF n, m
<1> HIDE DEF full
<1>6. (IF full THEN <<>> ELSE isr) \in Words
  BY <1>3, <1>4
<1>7. sm' \in Machines /\ sm'.at = here + 1 /\ sm'.isr = (IF full THEN <<>> ELSE isr)
      /\ Rests({"on", "x", "y", "top", "osr"})
  BY <1>1, <1>2, <1>6, MachineKept DEF Rests
<1>8. Len(sm'.isr) < 8
  BY <1>4, <1>5, <1>7
<1>9. /\ rxf' \in Seq(Words) /\ Len(rxf') <= 4
      /\ full => /\ Len(rxf') = Len(rxf) + 1 /\ rxf'[Len(rxf) + 1] = isr
                 /\ \A i \in 1..Len(rxf) : rxf'[i] = rxf[i]
  BY <1>1, <1>2, <1>3, WiresAre
<1>10. ChipOK'
  BY <1>1, FallAnswers
<1>11. MachineOK' /\ FifosOK' /\ DmaOK' /\ PinsOK'
  BY <1>1, <1>7, <1>8, <1>9 DEF Wires, MachineOK, FifosOK, DmaOK, PinsOK, Rests, ByteBits, FifoSize
<1>12. CASE full
  BY <1>1, <1>5, <1>7, <1>9, <1>10, <1>11, <1>12, FallAnswers DEF Wires, isr
<1>13. CASE ~full
  BY <1>1, <1>3, <1>5, <1>7, <1>10, <1>11, <1>13, FallAnswers DEF Wires
<1> QED
  BY <1>12, <1>13

(* The one DMA channel moves a byte to the state machine.                   *)
LEMMA DmaOutIs ==
  ASSUME Wires, DmaOut
  PROVE  /\ Wires' /\ Heads /\ UNCHANGED <<sm, rxf, txstall, dma_in, buf, clk, mosi, out_dir, seen, miso>>
         /\ dma_out # <<>> /\ Len(txf') = Len(txf) + 1 /\ txf'[Len(txf) + 1] = dma_out[1]
         /\ \A i \in 1..Len(txf) : txf'[i] = txf[i]
         /\ Len(dma_out') = Len(dma_out) - 1
         /\ \A i \in 1..Len(dma_out') : dma_out'[i] = dma_out[i + 1]
<1>1. /\ Heads /\ UNCHANGED <<sm, rxf, txstall, dma_in, buf, clk, mosi, out_dir, seen, miso>>
      /\ dma_out # <<>> /\ Len(txf) < 4
      /\ txf' = Append(txf, Head(dma_out)) /\ dma_out' = Tail(dma_out)
      /\ txf \in Seq(ByteSet) /\ dma_out \in Seq(ByteSet)
  BY DEF DmaOut, Heads, pins, chip, FifoSize, Wires, FifosOK, DmaOK
<1>2. /\ dma_out' \in Seq(ByteSet) /\ Len(dma_out') = Len(dma_out) - 1
      /\ \A i \in 1..Len(dma_out') : dma_out'[i] = dma_out[i + 1]
      /\ Head(dma_out) \in ByteSet /\ Head(dma_out) = dma_out[1]
  BY <1>1
<1>3. /\ txf' \in Seq(ByteSet) /\ Len(txf') = Len(txf) + 1 /\ txf'[Len(txf) + 1] = Head(dma_out)
      /\ \A i \in 1..Len(txf) : txf'[i] = txf[i]
  BY <1>1, <1>2
<1>4. Len(txf') <= 4
  BY <1>1, <1>3
<1>5. MachineOK' /\ FifosOK' /\ DmaOK' /\ PinsOK' /\ ChipOK'
  BY <1>1, <1>2, <1>3, <1>4 DEF Wires, MachineOK, FifosOK, DmaOK, PinsOK, ChipOK, FifoSize
<1> QED
  BY <1>1, <1>2, <1>3, <1>5 DEF Wires

(* The other moves one to the buffer.                                       *)
LEMMA DmaInIs ==
  ASSUME Wires, DmaIn
  PROVE  /\ Wires' /\ Heads /\ UNCHANGED <<sm, txf, txstall, dma_out, clk, mosi, out_dir, seen, miso>>
         /\ rxf # <<>> /\ dma_in > 0 /\ dma_in' = dma_in - 1
         /\ Len(buf') = Len(buf) + 1 /\ buf'[Len(buf) + 1] = rxf[1]
         /\ \A i \in 1..Len(buf) : buf'[i] = buf[i]
         /\ Len(rxf') = Len(rxf) - 1
         /\ \A i \in 1..Len(rxf') : rxf'[i] = rxf[i + 1]
<1>1. /\ Heads /\ UNCHANGED <<sm, txf, txstall, dma_out, clk, mosi, out_dir, seen, miso>>
      /\ rxf # <<>> /\ dma_in > 0 /\ dma_in' = dma_in - 1 /\ dma_in \in 0..MaxLen
      /\ buf' = Append(buf, Head(rxf)) /\ rxf' = Tail(rxf)
      /\ rxf \in Seq(Words) /\ buf \in Seq(Words) /\ Len(rxf) <= 4
  BY DEF DmaIn, Heads, pins, chip, FifoSize, Wires, FifosOK, DmaOK
<1>2. /\ rxf' \in Seq(Words) /\ Len(rxf') = Len(rxf) - 1 /\ Len(rxf') <= 4
      /\ \A i \in 1..Len(rxf') : rxf'[i] = rxf[i + 1]
      /\ Head(rxf) \in Words /\ Head(rxf) = rxf[1]
  BY <1>1
<1>3. /\ buf' \in Seq(Words) /\ Len(buf') = Len(buf) + 1 /\ buf'[Len(buf) + 1] = Head(rxf)
      /\ \A i \in 1..Len(buf) : buf'[i] = buf[i]
  BY <1>1, <1>2
<1>4. dma_in' \in 0..MaxLen
  BY <1>1, SpiAssumption
<1>5. MachineOK' /\ FifosOK' /\ DmaOK' /\ PinsOK' /\ ChipOK'
  BY <1>1, <1>2, <1>3, <1>4 DEF Wires, MachineOK, FifosOK, DmaOK, PinsOK, ChipOK, FifoSize
<1> QED
  BY <1>1, <1>2, <1>3, <1>5 DEF Wires
-----------------------------------------------------------------------------
(* The frame is fed to the chip bit by bit, and none is lost or changed.    *)
LEMMA NothingFed ==
  ASSUME UNCHANGED <<op, sm, txf, dma_out, mosi, out_dir, seen>>, sm.at = 0,
         NEW first \in Nat, NEW last \in Nat, NEW p \in Nat, Feeds(first, last, p)
  PROVE  Feeds(first, last, p)'
BY DEF Feeds, InShift, ToCome, Place, OnPin, FrameByte

(* x counts the bits to come: it is zero at the last one.                   *)
LEMMA BitCount ==
  ASSUME NEW n \in Nat, NEW o \in Nat, NEW p \in Nat, NEW last \in Nat, NEW x \in Nat,
         o <= 7, p <= last, n = ByteBits * p - 1 - o, x = ByteBits * last - 1 - n
  PROVE  /\ n + 1 = ByteBits * p - o
         /\ x = 0 => n + 1 = ByteBits * last /\ p = last /\ o = 0
         /\ x # 0 => n + 1 < ByteBits * last /\ x - 1 = ByteBits * last - 1 - (n + 1)
BY DEF ByteBits

(* The bit on the pin is heard, and it is the next one of the frame.        *)
LEMMA JmpXFeeds ==
  ASSUME op \in Op, Wires, Heard, cs = 0, JmpX(1, 0),
         NEW first \in Nat, NEW last \in Nat, NEW p \in Nat, Feeds(first, last, p)
  PROVE  Feeds(first, last, p)' /\ Heard'
<1>0. 1 \in {1, 6} /\ 0 \in {0, 5}
  OBVIOUS
<1>1. /\ sm.at = 1 /\ sm'.osr = sm.osr /\ clk' = 1 /\ op' = op
      /\ sm'.at = (IF sm.x # 0 THEN 0 ELSE 2)
      /\ sm'.x = (IF sm.x = 0 THEN WordMax ELSE sm.x - 1)
      /\ UNCHANGED <<txf, dma_out, mosi, out_dir>>
  BY <1>0, JmpXIs DEF Rests, Heads, cpu
<1>2. /\ clk = 0 /\ out_dir /\ p > first /\ p \in first..last
      /\ Len(seen) = ByteBits * p - 1 - Len(sm.osr)
      /\ sm.x = ByteBits * last - 1 - Len(seen)
      /\ mosi = <<FrameByte(p), ByteBits - 1 - Len(sm.osr)>>
      /\ Len(txf) + Len(dma_out) = last - p
  BY <1>1 DEF Feeds, Place, OnPin, ToCome
<1>3. /\ Len(seen') = Len(seen) + 1 /\ seen'[Len(seen) + 1] = mosi
      /\ \A i \in 1..Len(seen) : seen'[i] = seen[i]
  BY <1>0, <1>2, JmpXIs
<1>4. /\ Len(sm.osr) \in Nat /\ Len(sm.osr) <= 7 /\ Len(seen) \in Nat
      /\ Len(txf) \in Nat /\ Len(dma_out) \in Nat /\ sm.x \in Nat /\ sm.osr \in Words
  BY WiresAre, SpiAssumption
<1>5. InShift(p)' /\ ToCome(last, p)' /\ OnPin(p)'
  BY <1>1 DEF Feeds, InShift, ToCome, OnPin, FrameByte
<1>6. Place(first, last, p)'
  <2>0. /\ Len(seen) + 1 = ByteBits * p - Len(sm.osr)
        /\ sm.x = 0 => Len(seen) + 1 = ByteBits * last /\ p = last /\ Len(sm.osr) = 0
        /\ sm.x # 0 => /\ Len(seen) + 1 < ByteBits * last
                       /\ sm.x - 1 = ByteBits * last - 1 - (Len(seen) + 1)
    <3> DEFINE n == Len(seen)
               o == Len(sm.osr)
               x == sm.x
    <3>1. /\ n \in Nat /\ o \in Nat /\ x \in Nat /\ o <= 7 /\ p <= last
          /\ n = ByteBits * p - 1 - o /\ x = ByteBits * last - 1 - n
      BY <1>2, <1>4
    <3> HIDE DEF n, o, x
    <3>2. /\ n + 1 = ByteBits * p - o
          /\ x = 0 => n + 1 = ByteBits * last /\ p = last /\ o = 0
          /\ x # 0 => n + 1 < ByteBits * last /\ x - 1 = ByteBits * last - 1 - (n + 1)
      BY <3>1, BitCount
    <3> QED
      BY <3>2 DEF n, o, x
  <2>1. CASE sm.x # 0
    BY <1>1, <1>2, <1>3, <2>0, <2>1 DEF Place
  <2>2. CASE sm.x = 0
    <3>1. Len(seen) + 1 = ByteBits * last /\ p = last /\ Len(sm.osr) = 0
      BY <2>0, <2>2
    <3>2. sm.osr = <<>>
      BY <1>4, <3>1 DEF Words
    <3> QED
      BY <1>1, <1>2, <1>3, <2>2, <3>1, <3>2 DEF Place
  <2> QED
    BY <2>1, <2>2
<1>7. Heard'
  <2> SUFFICES ASSUME NEW i \in 1..Len(seen'), i <= ByteBits * FrameLen'
               PROVE  seen'[i] = FrameBit(i)'
    BY DEF Heard
  <2>1. FrameLen' = FrameLen /\ FrameBit(i)' = FrameBit(i) /\ i \in Int
    BY <1>1, <1>3, <1>4, FrameStays
  <2>2. CASE i \in 1..Len(seen)
    BY <1>3, <2>1, <2>2 DEF Heard
  <2>3. CASE i = Len(seen) + 1
    <3> DEFINE o == Len(sm.osr)
    <3>1. i = ByteBits * p - o /\ o \in Nat /\ o <= 7 /\ p > 0
      BY <1>2, <1>4, <2>3 DEF ByteBits
    <3>2. mosi = <<FrameByte(p), ByteBits - 1 - o>>
      BY <1>2
    <3> HIDE DEF o
    <3>3. o \in 0..(ByteBits - 1)
      BY <3>1 DEF ByteBits
    <3>4. FrameBit(ByteBits * p - o) = <<FrameByte(p), ByteBits - 1 - o>>
      BY <3>1, <3>3, BitAt
    <3> QED
      BY <1>3, <2>1, <2>3, <3>1, <3>2, <3>4
  <2> QED
    BY <1>3, <1>4, <2>2, <2>3
<1> QED
  BY <1>1, <1>2, <1>5, <1>6, <1>7 DEF Feeds

(* After the last bit of a write the state machine is back at the out.      *)
LEMMA SetPinsFeeds ==
  ASSUME op \in Op, Wires, Heard, SetPins, sm.top = 2,
         NEW first \in Nat, NEW last \in Nat, NEW p \in Nat, Feeds(first, last, p)
  PROVE  Feeds(first, last, p)'
<1>1. /\ sm.at = 2 /\ sm'.at = 0 /\ sm'.osr = sm.osr /\ op' = op
      /\ UNCHANGED <<txf, dma_out, out_dir, seen>>
  BY SetPinsIs DEF Rests, Heads, cpu
<1>2. p \in first..last /\ p = last /\ sm.osr = <<>> /\ Len(seen) = ByteBits * last
  BY <1>1 DEF Feeds, Place
<1>3. Place(first, last, p)'
  BY <1>1, <1>2 DEF Place, ByteBits
<1>4. InShift(p)'
  BY <1>1 DEF Feeds, InShift, FrameByte
<1>5. ToCome(last, p)'
  BY <1>1 DEF Feeds, ToCome, FrameByte
<1>6. OnPin(p)'
  BY <1>1 DEF OnPin
<1> QED
  BY <1>1, <1>3, <1>4, <1>5, <1>6 DEF Feeds

(* What the DMA moves is the next byte the frame lacks.                     *)
LEMMA DmaOutFeeds ==
  ASSUME Wires, DmaOut, NEW first \in Nat, NEW last \in Nat, NEW p \in Nat, Feeds(first, last, p)
  PROVE  Feeds(first, last, p)'
<1>1. /\ UNCHANGED <<sm, clk, mosi, out_dir, seen, op>>
      /\ dma_out # <<>> /\ Len(txf') = Len(txf) + 1 /\ txf'[Len(txf) + 1] = dma_out[1]
      /\ \A i \in 1..Len(txf) : txf'[i] = txf[i]
      /\ Len(dma_out') = Len(dma_out) - 1
      /\ \A i \in 1..Len(dma_out') : dma_out'[i] = dma_out[i + 1]
  BY DmaOutIs DEF Heads, cpu
<1>2. Len(txf) \in Nat /\ Len(dma_out) \in Nat /\ Len(dma_out) > 0
  <2>1. dma_out \in Seq(ByteSet)
    BY DEF Wires, DmaOK
  <2>2. Len(dma_out) \in Nat /\ Len(dma_out) > 0
    BY <1>1, <2>1
  <2> QED
    BY <2>2, WiresAre
<1>3. \A j \in Int : FrameByte(j)' = FrameByte(j)
  BY <1>1, FrameStays
<1>4. \A i \in 1..Len(txf') : txf'[i] = FrameByte(p + i)
  <2> TAKE i \in 1..Len(txf')
  <2>1. CASE i \in 1..Len(txf)
    BY <1>1, <2>1 DEF Feeds, ToCome
  <2>2. CASE i = Len(txf) + 1
    <3>1. 1 \in 1..Len(dma_out) /\ p + Len(txf) + 1 = p + i
      BY <1>2, <2>2
    <3> QED
      BY <1>1, <2>2, <3>1 DEF Feeds, ToCome
  <2> QED
    BY <1>1, <1>2, <2>1, <2>2
<1>5. \A i \in 1..Len(dma_out') : dma_out'[i] = FrameByte(p + Len(txf') + i)
  <2> TAKE i \in 1..Len(dma_out')
  <2>1. i + 1 \in 1..Len(dma_out) /\ p + Len(txf) + (i + 1) = p + Len(txf') + i
    BY <1>1, <1>2
  <2> QED
    BY <1>1, <2>1 DEF Feeds, ToCome
<1>6. ToCome(last, p)'
  <2>1. Len(txf') + Len(dma_out') = last - p
    <3>1. Len(txf) + Len(dma_out) = last - p
      BY DEF Feeds, ToCome
    <3>2. Len(txf') = Len(txf) + 1 /\ Len(dma_out') = Len(dma_out) - 1
      BY <1>1
    <3> QED
      BY <1>2, <3>1, <3>2
  <2>2. \A i \in 1..Len(txf') : txf'[i] = FrameByte(p + i)'
    BY <1>1, <1>2, <1>3, <1>4
  <2>3. \A i \in 1..Len(dma_out') : dma_out'[i] = FrameByte(p + Len(txf) + i)'
    BY <1>1, <1>2, <1>3, <1>5
  <2> QED
    BY <2>1, <2>2, <2>3 DEF ToCome
<1> QED
  BY <1>1, <1>6 DEF Feeds, InShift, Place, OnPin, FrameByte

(* A stall means that all of it has been sent.                              *)
LEMMA AllFed ==
  ASSUME Wires, sm.at = 0, sm.osr = <<>>, txf = <<>>, dma_out = <<>>,
         NEW first \in Nat, NEW last \in Nat, NEW p \in Nat, Feeds(first, last, p)
  PROVE  Len(seen) = ByteBits * last
<1>1. Len(txf) = 0 /\ Len(dma_out) = 0 /\ Len(sm.osr) = 0
  OBVIOUS
<1>2. p = last
  BY <1>1 DEF Feeds, ToCome
<1> QED
  BY <1>1, <1>2 DEF Feeds, Place, ByteBits
-----------------------------------------------------------------------------
(* The answer is read bit by bit into the buffer.                           *)
LEMMA EmptySeq ==
  ASSUME NEW S, NEW s \in Seq(S)
  PROVE  s = <<>> <=> Len(s) = 0
OBVIOUS

(* A sequence with one element more, as a function.                         *)
LEMMA AppendIs ==
  ASSUME NEW S, NEW s \in Seq(S), NEW e \in S
  PROVE  Append(s, e) = [i \in 1..(Len(s) + 1) |-> IF i = Len(s) + 1 THEN e ELSE s[i]]
<1> DEFINE q == Append(s, e)
<1>1. q \in Seq(S) /\ Len(q) = Len(s) + 1
  OBVIOUS
<1>2. \A i \in 1..(Len(s) + 1) : q[i] = IF i = Len(s) + 1 THEN e ELSE s[i]
  OBVIOUS
<1> HIDE DEF q
<1>3. DOMAIN q = 1..Len(q) /\ q \in [1..Len(q) -> S]
  BY <1>1
<1>4. q = [i \in 1..Len(q) |-> q[i]]
  BY <1>3
<1>5. q = [i \in 1..(Len(s) + 1) |-> IF i = Len(s) + 1 THEN e ELSE s[i]]
  BY <1>1, <1>2, <1>4
<1> QED
  BY <1>5 DEF q

(* What is heard after the header of a read is of no consequence.           *)
LEMMA HeardOn ==
  ASSUME op \in Op, op.kind \in Reads, op' = op, Wires, Heard,
         Len(seen) >= HeaderBits, Len(seen') = Len(seen) + 1,
         \A i \in 1..Len(seen) : seen'[i] = seen[i]
  PROVE  Heard'
<1> SUFFICES ASSUME NEW i \in 1..Len(seen'), i <= ByteBits * FrameLen'
             PROVE  seen'[i] = FrameBit(i)'
  BY DEF Heard
<1>1. FrameLen' = FrameLen /\ FrameLen = SPI_HEADER_LEN
  BY DEF FrameLen, Reads, Writes
<1>2. i \in Int /\ i >= 1 /\ i <= HeaderBits /\ i <= ByteBits * FrameLen /\ HeaderBits \in Int
  BY <1>1, WiresAre DEF HeaderBits, ByteBits, SPI_HEADER_LEN
<1>3. i \in 1..Len(seen)
  BY <1>2, WiresAre
<1>4. FrameBit(i)' = FrameBit(i)
  BY <1>2, FrameStays
<1> QED
  BY <1>2, <1>3, <1>4 DEF Heard

(* The header is sent: the data pin is released.                            *)
LEMMA SetPindirsReceives ==
  ASSUME op \in Op, Wires, Heard, SetPindirs, NEW d \in Nat, Receives(d)
  PROVE  Receives(d)'
<1>1. /\ UNCHANGED <<op, seen, txf, rxf, dma_out, buf>> /\ clk' = 0 /\ (clk = 0 => miso' = miso)
      /\ sm.at = 3 /\ Rests({"on", "x", "y", "top", "osr", "isr"}) /\ sm'.at = 4
  BY SetPindirsIs DEF Heads, cpu
<1>2. AllSent' /\ Delivered(d)' /\ InIsr(d)'
  BY <1>1 DEF Receives, AllSent, Delivered, InIsr, Rests, MemByte
<1>3. Edge(d)'
  BY <1>1 DEF Receives, Edge, Samples, Rests, MemBit
<1> QED
  BY <1>2, <1>3 DEF Receives

(* The first clock of a byte of the answer.                                 *)
LEMMA SetXReceives ==
  ASSUME op \in Op, op.kind \in Reads, Wires, Heard, cs = 0, SetX, NEW d \in Nat, Receives(d)
  PROVE  Receives(d)' /\ Heard'
<1>1. /\ UNCHANGED <<op, txf, rxf, dma_out, buf, miso>> /\ clk' = 1
      /\ sm.at = 4 /\ Rests({"on", "y", "top", "osr", "isr"}) /\ sm'.at = 5 /\ sm'.x = 6
  BY SetXIs DEF Heads, cpu
<1>2. AllSent' /\ Delivered(d)' /\ InIsr(d)'
  BY <1>1 DEF Receives, AllSent, Delivered, InIsr, Rests, MemByte
<1>3. /\ sm.isr = <<>> /\ clk = 0 /\ Len(sm.isr) = 0
      /\ Len(seen) = ByteBits * (SPI_HEADER_LEN + d) + 0 /\ miso = MemBit(ByteBits * d + 0)
      /\ d < op.len /\ sm.y = op.len - 1 - d
  BY <1>1 DEF Receives, Edge, Samples
<1>4. /\ Len(seen') = Len(seen) + 1 /\ \A i \in 1..Len(seen) : seen'[i] = seen[i]
  BY <1>3, SetXIs
<1>5. Samples(d, 1, 0)'
  BY <1>1, <1>3, <1>4 DEF Samples, MemBit, ByteBits, SPI_HEADER_LEN
<1>6. Edge(d)'
  BY <1>1, <1>3, <1>5 DEF Edge, Rests
<1>7. Len(seen) >= HeaderBits
  BY <1>3 DEF HeaderBits, ByteBits, SPI_HEADER_LEN
<1> QED
  BY <1>1, <1>2, <1>4, <1>6, <1>7, HeardOn DEF Receives

(* One more clock, and the chip has one more bit to show.                   *)
LEMMA JmpXReceives ==
  ASSUME op \in Op, op.kind \in Reads, Wires, Heard, cs = 0, JmpX(6, 5),
         NEW d \in Nat, Receives(d)
  PROVE  Receives(d)' /\ Heard'
<1>0. 6 \in {1, 6} /\ 5 \in {0, 5}
  OBVIOUS
<1>1. /\ UNCHANGED <<op, txf, rxf, dma_out, buf, miso>> /\ clk' = 1
      /\ sm.at = 6 /\ Rests({"on", "y", "top", "osr", "isr"})
      /\ sm'.at = (IF sm.x # 0 THEN 5 ELSE 6 + 1)
      /\ sm'.x = (IF sm.x = 0 THEN WordMax ELSE sm.x - 1)
  BY <1>0, JmpXIs DEF Heads, cpu
<1>2. AllSent' /\ Delivered(d)' /\ InIsr(d)'
  BY <1>1 DEF Receives, AllSent, Delivered, InIsr, Rests, MemByte
<1>3. /\ clk = 0 /\ sm.x <= 6 /\ Len(sm.isr) = 7 - sm.x /\ sm.x \in Nat
      /\ Len(seen) = ByteBits * (SPI_HEADER_LEN + d) + (7 - sm.x)
      /\ miso = MemBit(ByteBits * d + (7 - sm.x))
      /\ d < op.len /\ sm.y = op.len - 1 - d
  BY <1>1, WiresAre, SpiAssumption DEF Receives, Edge, Samples
<1>4. /\ Len(seen') = Len(seen) + 1 /\ \A i \in 1..Len(seen) : seen'[i] = seen[i]
  BY <1>0, <1>3, JmpXIs
<1>5. ASSUME sm.x # 0 PROVE Edge(d)'
  <2>1. /\ sm'.x = sm.x - 1 /\ sm'.x <= 6 /\ Len(sm.isr) = 6 - sm'.x
        /\ 7 - sm'.x = (7 - sm.x) + 1 /\ 6 - sm'.x = 7 - sm.x
    BY <1>1, <1>3, <1>5
  <2>2. Len(seen') = ByteBits * (SPI_HEADER_LEN + d) + (7 - sm'.x)
    <3>1. Len(seen') = (ByteBits * (SPI_HEADER_LEN + d) + (7 - sm.x)) + 1
      BY <1>3, <1>4
    <3> QED
      BY <1>1, <1>3, <1>5, <3>1 DEF ByteBits, SPI_HEADER_LEN
  <2>3. miso' = MemBit(ByteBits * d + (6 - sm'.x))
    BY <1>1, <1>3, <2>1
  <2>4. Samples(d, 7 - sm.x, 6 - sm.x)'
    BY <1>1, <2>2, <2>3 DEF Samples, MemBit
  <2> QED
    BY <1>1, <1>3, <1>5, <2>1, <2>4 DEF Edge, Rests
<1>6. ASSUME sm.x = 0 PROVE Edge(d)'
  <2>1. Samples(d, 8, 7)'
    BY <1>1, <1>3, <1>4, <1>6 DEF Samples, MemBit, ByteBits, SPI_HEADER_LEN
  <2> QED
    BY <1>1, <1>3, <1>6, <2>1 DEF Edge, Rests
<1>7. Len(seen) >= HeaderBits
  BY <1>3 DEF HeaderBits, ByteBits, SPI_HEADER_LEN
<1>8. Heard'
  BY <1>1, <1>4, <1>7, HeardOn
<1> QED
  BY <1>2, <1>5, <1>6, <1>8 DEF Receives

(* The first seven bits of a byte stay in the shift register ...             *)
LEMMA InBitReceives ==
  ASSUME op \in Op, op.kind \in Reads, Wires, Heard, cs = 0, InPins(5),
         NEW d \in Nat, Receives(d)
  PROVE  Receives(d)'
<1>0. 5 \in {5, 7}
  OBVIOUS
<1>1. /\ UNCHANGED <<op, seen, txf, dma_out, buf>> /\ clk' = 0
      /\ sm.at = 5 /\ Rests({"on", "x", "y", "top", "osr"}) /\ sm'.at = 5 + 1
  BY <1>0, InPinsIs DEF Heads, cpu
<1>2. /\ clk = 1 /\ sm.x <= 6 /\ Len(sm.isr) = 6 - sm.x /\ sm.x \in Nat
      /\ Len(seen) = ByteBits * (SPI_HEADER_LEN + d) + (7 - sm.x)
      /\ miso = MemBit(ByteBits * d + (6 - sm.x))
      /\ d < op.len /\ sm.y = op.len - 1 - d
  BY <1>1, WiresAre, SpiAssumption DEF Receives, Edge, Samples
<1>3. Len(sm.isr) # 7
  BY <1>2
<1>4. /\ Len(sm'.isr) = Len(sm.isr) + 1 /\ rxf' = rxf
      /\ \A i \in 1..Len(sm.isr) : sm'.isr[i] = sm.isr[i]
      /\ sm'.isr[Len(sm.isr) + 1] = miso
  BY <1>0, <1>3, InPinsIs
<1>5. AllSent' /\ Delivered(d)'
  BY <1>1, <1>4 DEF Receives, AllSent, Delivered, Rests, MemByte
<1>6. Len(seen) >= HeaderBits /\ Len(seen) - HeaderBits = ByteBits * d + (7 - sm.x)
  BY <1>2 DEF HeaderBits, ByteBits, SPI_HEADER_LEN
<1>7. miso' = MemBit(ByteBits * d + (7 - sm.x))
  BY <1>0, <1>2, <1>6, InPinsIs
<1>8. miso = <<Byte("memory", op.turn, d + 1), 6 - sm.x>>
  <2> DEFINE r == 6 - sm.x
  <2>0. r \in Nat /\ r <= 7 /\ miso = MemBit(ByteBits * d + r)
    BY <1>2
  <2> HIDE DEF r
  <2>1. r \in 0..(ByteBits - 1) /\ miso = MemBit(ByteBits * d + r)
    BY <2>0 DEF ByteBits
  <2>2. miso = <<Byte("memory", op.turn, d + 1), r>>
    BY <2>1, AnswerAt
  <2> QED
    BY <2>2 DEF r
<1>9. InIsr(d)'
  <2>1. \A i \in 1..Len(sm'.isr) : sm'.isr[i] = <<Byte("memory", op.turn, d + 1), i - 1>>
    <3> TAKE i \in 1..Len(sm'.isr)
    <3>1. CASE i \in 1..Len(sm.isr)
      BY <1>4, <3>1 DEF Receives, InIsr
    <3>2. CASE i = Len(sm.isr) + 1
      <4>1. i - 1 = 6 - sm.x
        BY <1>2, <3>2
      <4> QED
        BY <1>4, <1>8, <3>2, <4>1
    <3> QED
      BY <1>2, <1>4, <3>1, <3>2
  <2> QED
    BY <1>1, <2>1 DEF InIsr
<1>10. sm'.x = sm.x /\ sm'.y = sm.y
  BY <1>1 DEF Rests
<1>11. Samples(d, 7 - sm.x, 7 - sm.x)'
  BY <1>1, <1>2, <1>7, <1>10 DEF Samples, MemBit
<1>12. Len(sm'.isr) = 7 - sm.x
  BY <1>2, <1>4
<1>13. Edge(d)'
  BY <1>1, <1>2, <1>10, <1>11, <1>12 DEF Edge
<1> QED
  BY <1>5, <1>9, <1>13 DEF Receives

(* ... and with the eighth it is pushed.                                     *)
LEMMA InByteReceives ==
  ASSUME op \in Op, op.kind \in Reads, Wires, Heard, cs = 0, InPins(7),
         NEW d \in Nat, Receives(d)
  PROVE  Receives(d + 1)'
<1>0. 7 \in {5, 7}
  OBVIOUS
<1>1. /\ UNCHANGED <<op, seen, txf, dma_out, buf>> /\ clk' = 0
      /\ sm.at = 7 /\ Rests({"on", "x", "y", "top", "osr"}) /\ sm'.at = 7 + 1
  BY <1>0, InPinsIs DEF Heads, cpu
<1>2. /\ clk = 1 /\ Len(sm.isr) = 7
      /\ Len(seen) = ByteBits * (SPI_HEADER_LEN + d) + ByteBits
      /\ miso = MemBit(ByteBits * d + 7)
      /\ d < op.len /\ sm.y = op.len - 1 - d /\ op.len \in Nat
      /\ d = Len(buf) + Len(rxf) /\ Len(buf) \in Nat /\ Len(rxf) \in Nat
  BY <1>1, WiresAre, SpiAssumption DEF Receives, Edge, Samples, Delivered, ByteBits, Op
<1>3. /\ sm'.isr = <<>> /\ Len(rxf') = Len(rxf) + 1
      /\ \A i \in 1..Len(rxf) : rxf'[i] = rxf[i]
      /\ rxf'[Len(rxf) + 1] = Append(sm.isr, miso)
  BY <1>0, <1>2, InPinsIs
<1>4. miso = <<Byte("memory", op.turn, d + 1), 7>>
  <2>1. 7 \in 0..(ByteBits - 1)
    BY DEF ByteBits
  <2> QED
    BY <1>2, <2>1, AnswerAt
<1>5. Append(sm.isr, miso) = MemByte(d + 1)
  <2>1. sm.isr \in Seq(BitSet) /\ miso \in BitSet
    BY WiresAre DEF Words, Wires, ChipOK
  <2>2. Append(sm.isr, miso) = [i \in 1..(7 + 1) |-> IF i = 7 + 1 THEN miso ELSE sm.isr[i]]
    <3>1. Append(sm.isr, miso) = [i \in 1..(Len(sm.isr) + 1) |->
                                    IF i = Len(sm.isr) + 1 THEN miso ELSE sm.isr[i]]
      BY <2>1, AppendIs
    <3> QED
      BY <1>2, <3>1
  <2>3. \A i \in 1..(7 + 1) : (IF i = 7 + 1 THEN miso ELSE sm.isr[i])
                                = <<Byte("memory", op.turn, d + 1), i - 1>>
    <3>1. \A i \in 1..7 : sm.isr[i] = <<Byte("memory", op.turn, d + 1), i - 1>>
      BY <1>2 DEF Receives, InIsr
    <3> QED
      BY <1>4, <3>1
  <2> QED
    BY <2>2, <2>3 DEF MemByte, ByteBits
<1>6. Delivered(d + 1)'
  <2>1. \A i \in 1..Len(rxf') : rxf'[i] = MemByte(Len(buf) + i)
    <3> TAKE i \in 1..Len(rxf')
    <3>1. CASE i \in 1..Len(rxf)
      BY <1>3, <3>1 DEF Receives, Delivered
    <3>2. CASE i = Len(rxf) + 1
      <4>1. Len(buf) + i = d + 1
        BY <1>2, <3>2
      <4> QED
        BY <1>3, <1>5, <3>2, <4>1
    <3> QED
      BY <1>2, <1>3, <3>1, <3>2
  <2>2. d + 1 <= op.len /\ d + 1 = Len(buf) + Len(rxf')
    BY <1>2, <1>3
  <2> QED
    BY <1>1, <2>1, <2>2 DEF Receives, Delivered, MemByte
<1>7. InIsr(d + 1)' /\ AllSent'
  BY <1>1, <1>3 DEF InIsr, Receives, AllSent, Rests
<1>8. Len(seen) >= HeaderBits /\ Len(seen) - HeaderBits = ByteBits * (d + 1) + 0
      /\ Len(seen) = ByteBits * (SPI_HEADER_LEN + (d + 1)) + 0
  BY <1>2 DEF HeaderBits, ByteBits, SPI_HEADER_LEN
<1>9. miso' = MemBit(ByteBits * (d + 1) + 0)
  BY <1>0, <1>2, <1>8, InPinsIs
<1>10. Samples(d + 1, 0, 0)'
  BY <1>1, <1>8, <1>9 DEF Samples, MemBit
<1>11. sm'.y = op.len - (d + 1) /\ d + 1 > 0
  BY <1>1, <1>2 DEF Rests
<1>12. Edge(d + 1)'
  BY <1>1, <1>3, <1>10, <1>11 DEF Edge
<1> QED
  BY <1>6, <1>7, <1>12 DEF Receives

(* After a byte: another one, or back to the out.                           *)
LEMMA JmpYReceives ==
  ASSUME op \in Op, Wires, Heard, JmpY, sm.top = 8, NEW d \in Nat, Receives(d)
  PROVE  Receives(d)'
<1>1. /\ UNCHANGED <<op, seen, txf, rxf, dma_out, buf>> /\ clk' = 0 /\ (clk = 0 => miso' = miso)
      /\ sm.at = 8 /\ Rests({"on", "x", "top", "osr", "isr"})
      /\ sm'.at = (IF sm.y # 0 THEN 4 ELSE 0)
      /\ sm'.y = (IF sm.y = 0 THEN WordMax ELSE sm.y - 1)
  BY JmpYIs DEF Heads, cpu
<1>2. /\ clk = 0 /\ sm.isr = <<>> /\ sm.y = op.len - d /\ Samples(d, 0, 0) /\ d <= op.len
      /\ op.len \in Nat
  BY <1>1, SpiAssumption DEF Receives, Edge, Delivered, Op
<1>3. AllSent' /\ Delivered(d)' /\ InIsr(d)'
  BY <1>1 DEF Receives, AllSent, Delivered, InIsr, Rests, MemByte
<1>4. Samples(d, 0, 0)' /\ Len(seen') = ByteBits * (SPI_HEADER_LEN + d)
  BY <1>1, <1>2 DEF Samples, MemBit, ByteBits, SPI_HEADER_LEN
<1>5. ASSUME sm.y # 0 PROVE Edge(d)'
  <2>1. sm'.at = 4 /\ d < op.len /\ sm'.y = op.len - 1 - d
    BY <1>1, <1>2, <1>5
  <2> QED
    BY <1>1, <1>2, <1>4, <2>1 DEF Edge, Rests
<1>6. ASSUME sm.y = 0 PROVE Edge(d)'
  <2>1. sm'.at = 0 /\ d = op.len
    BY <1>1, <1>2, <1>6
  <2> QED
    BY <1>1, <1>2, <1>4, <2>1 DEF Edge, Rests
<1> QED
  BY <1>3, <1>5, <1>6 DEF Receives

(* An answered byte goes on to the buffer.                                  *)
LEMMA DmaInReceives ==
  ASSUME Wires, DmaIn, NEW d \in Nat, Receives(d)
  PROVE  Receives(d)'
<1>1. /\ UNCHANGED <<op, sm, txf, dma_out, clk, seen, miso>> /\ rxf # <<>>
      /\ Len(buf') = Len(buf) + 1 /\ buf'[Len(buf) + 1] = rxf[1]
      /\ \A i \in 1..Len(buf) : buf'[i] = buf[i]
      /\ Len(rxf') = Len(rxf) - 1
      /\ \A i \in 1..Len(rxf') : rxf'[i] = rxf[i + 1]
  BY DmaInIs DEF Heads, cpu
<1>2. Len(rxf) \in Nat /\ Len(rxf) > 0 /\ Len(buf) \in Nat
      /\ d <= op.len /\ d = Len(buf) + Len(rxf)
  <2>1. rxf \in Seq(Words)
    BY DEF Wires, FifosOK
  <2>2. Len(rxf) \in Nat /\ Len(rxf) > 0
    BY <1>1, <2>1
  <2> QED
    BY <2>2, WiresAre DEF Receives, Delivered
<1>3. \A i \in 1..Len(buf') : buf'[i] = MemByte(i)
  <2> TAKE i \in 1..Len(buf')
  <2>1. CASE i \in 1..Len(buf)
    BY <1>1, <2>1 DEF Receives, Delivered
  <2>2. CASE i = Len(buf) + 1
    <3>1. 1 \in 1..Len(rxf)
      BY <1>2
    <3>2. rxf[1] = MemByte(Len(buf) + 1)
      BY <3>1 DEF Receives, Delivered
    <3> QED
      BY <1>1, <2>2, <3>2
  <2> QED
    BY <1>1, <1>2, <2>1, <2>2
<1>4. \A i \in 1..Len(rxf') : rxf'[i] = MemByte(Len(buf) + 1 + i)
  <2> TAKE i \in 1..Len(rxf')
  <2>0. i \in Int /\ 1 <= i /\ i <= Len(rxf) - 1
    BY <1>1, <1>2
  <2>1. i + 1 \in 1..Len(rxf) /\ Len(buf) + (i + 1) = Len(buf) + 1 + i
    BY <1>2, <2>0
  <2>2. rxf[i + 1] = MemByte(Len(buf) + (i + 1))
    BY <2>1 DEF Receives, Delivered
  <2> QED
    BY <1>1, <2>1, <2>2
<1>5. d = Len(buf') + Len(rxf')
  BY <1>1, <1>2
<1>6. Delivered(d)'
  BY <1>1, <1>2, <1>3, <1>4, <1>5 DEF Delivered, MemByte
<1> QED
  BY <1>1, <1>6 DEF Receives, AllSent, InIsr, Edge, Samples, MemBit

(* A state machine that waits keeps all of it.                              *)
LEMMA StillReceives ==
  ASSUME UNCHANGED <<op, sm, txf, rxf, dma_out, buf, seen>>, clk' = 0, sm.at = 0,
         NEW d \in Nat, Receives(d)
  PROVE  Receives(d)'
BY DEF Receives, AllSent, Delivered, InIsr, Edge, MemByte

(* The chip answers from the falling edge after the header.                  *)
LEMMA SetPinsReceives ==
  ASSUME op \in Op, op.kind \in Reads, Wires, Heard, cs = 0, SetPins, sm.top = 8,
         sm.y = op.len - 1, sm.isr = <<>>, rxf = <<>>, buf = <<>>,
         NEW p \in Nat, Feeds(0, SPI_HEADER_LEN, p)
  PROVE  Receives(0)'
<1>1. /\ UNCHANGED <<op, seen, txf, rxf, dma_out, buf>> /\ clk' = 0
      /\ sm.at = 2 /\ Rests({"on", "x", "y", "top", "osr", "isr"}) /\ sm'.at = 3
  BY SetPinsIs DEF Heads, cpu
<1>2. p = SPI_HEADER_LEN /\ clk = 1 /\ sm.osr = <<>> /\ Len(seen) = ByteBits * SPI_HEADER_LEN
  BY <1>1 DEF Feeds, Place
<1>3. txf = <<>> /\ dma_out = <<>>
  <2>1. txf \in Seq(ByteSet) /\ dma_out \in Seq(ByteSet)
    BY DEF Wires, FifosOK, DmaOK
  <2>2. Len(txf) + Len(dma_out) = 0
    BY <1>2 DEF Feeds, ToCome, SPI_HEADER_LEN
  <2>3. Len(txf) = 0 /\ Len(dma_out) = 0
    BY <2>2, WiresAre
  <2> QED
    BY <2>1, <2>3, EmptySeq
<1>4. Len(seen) >= HeaderBits /\ Len(seen) - HeaderBits = 0
      /\ ByteBits * 0 + 0 = 0 /\ Len(seen) = ByteBits * (SPI_HEADER_LEN + 0) + 0
  BY <1>2 DEF HeaderBits, ByteBits, SPI_HEADER_LEN
<1>5. miso' = MemBit(ByteBits * 0 + 0)
  BY <1>2, <1>4, SetPinsIs
<1>6. Samples(0, 0, 0)'
  BY <1>1, <1>4, <1>5 DEF Samples, MemBit
<1>7. AllSent' /\ InIsr(0)'
  BY <1>1, <1>2, <1>3 DEF AllSent, InIsr, Rests
<1>8. Delivered(0)' /\ 0 < op.len /\ sm.y = op.len - 1 - 0
  BY <1>1, SpiAssumption DEF Delivered, Op
<1>9. Edge(0)'
  BY <1>1, <1>6, <1>7, <1>8 DEF Edge, Rests
<1> QED
  BY <1>7, <1>8, <1>9 DEF Receives
-----------------------------------------------------------------------------
(* The hardware, during a write, during a read and between the transfers.    *)
Hardware == Program \/ DmaOut \/ DmaIn

(* Its instructions and its channels.                                       *)
LEMMA HardwareIs ==
  ASSUME Hardware
  PROVE  \/ OutPins \/ OutStalls \/ JmpX(1, 0) \/ SetPins \/ SetPindirs \/ SetX
         \/ InPins(5) \/ JmpX(6, 5) \/ InPins(7) \/ JmpY \/ DmaOut \/ DmaIn
BY DEF Hardware, Program, write_bits

(* An instruction runs only at its own address.                              *)
LEMMA Addresses ==
  /\ OutPins => sm.on /\ sm.at = 0 /\ (sm.osr # <<>> \/ txf # <<>>)
  /\ OutStalls => sm.on /\ sm.at = 0
  /\ JmpX(1, 0) => sm.on /\ sm.at = 1
  /\ SetPins => sm.on /\ sm.at = 2
  /\ SetPindirs => sm.on /\ sm.at = 3
  /\ SetX => sm.on /\ sm.at = 4
  /\ InPins(5) => sm.on /\ sm.at = 5
  /\ JmpX(6, 5) => sm.on /\ sm.at = 6
  /\ InPins(7) => sm.on /\ sm.at = 7
  /\ JmpY => sm.on /\ sm.at = 8
  /\ DmaOut => dma_out # <<>>
  /\ DmaIn => dma_in > 0 /\ rxf # <<>>
BY DEF OutPins, OutStalls, JmpX, SetPins, SetPindirs, SetX, InPins, JmpY, DmaOut, DmaIn,
       At, write_bits

(* What was heard stays heard.                                              *)
LEMMA HeardStays ==
  ASSUME UNCHANGED <<op, seen>>, Heard
  PROVE  Heard'
BY DEF Heard, FrameLen, FrameBit, FrameByte

(* While a write is under way.                                              *)
LEMMA HardwareSends ==
  ASSUME op \in Op, Wires, Heard, cs = 0, Hardware,
         NEW first \in Nat, NEW last \in Nat, Sending(first, last), txstall => Stalled(last)
  PROVE  Wires' /\ Heard' /\ Sending(first, last)' /\ (txstall' => Stalled(last)')
<1>1. sm.on /\ sm.top = 2 /\ dma_in = 0
  BY DEF Sending, StopsAt, write_end
<1>2. PICK p \in Nat : Feeds(first, last, p)
  BY DEF Sending
<1>3. sm.at \in {0, 1, 2}
  BY <1>2 DEF Feeds, Place
<1>4. ASSUME Wires', sm'.on, sm'.top = sm.top, dma_in' = dma_in, \E q \in Nat : Feeds(first, last, q)'
      PROVE  Sending(first, last)'
  BY <1>1, <1>4 DEF Sending, StopsAt, write_end
<1>5. CASE OutPins
  <2>1. ~txstall /\ txstall' = txstall
    BY <1>5, Addresses DEF Stalled, OutPins
  <2>2. \E q \in Nat : Feeds(first, last, q)'
    BY <1>2, <1>5, OutPinsFeeds
  <2>3. Wires' /\ UNCHANGED <<op, seen, dma_in>> /\ sm'.on /\ sm'.top = sm.top
    BY <1>5, OutPinsIs DEF cpu, dma
  <2> QED
    BY <1>4, <2>1, <2>2, <2>3, HeardStays
<1>6. CASE OutStalls
  <2>1. /\ Wires' /\ UNCHANGED <<op, sm, txf, rxf, dma_out, dma_in, buf, mosi, out_dir, seen>>
        /\ sm.at = 0 /\ sm.osr = <<>> /\ txf = <<>> /\ dma_out = <<>> /\ clk' = 0
    BY <1>6, OutStallsIs DEF Heads, cpu
  <2>2. Feeds(first, last, p)'
    BY <1>2, <2>1, NothingFed
  <2>3. Len(seen) = ByteBits * last
    BY <1>2, <2>1, AllFed
  <2> QED
    BY <1>1, <1>4, <2>1, <2>2, <2>3, HeardStays DEF Stalled
<1>7. CASE JmpX(1, 0)
  <2>1. 1 \in {1, 6} /\ 0 \in {0, 5}
    OBVIOUS
  <2>2. ~txstall
    BY <1>7, Addresses DEF Stalled
  <2>3. Wires' /\ UNCHANGED <<op, dma_in, txstall>> /\ sm'.on /\ sm'.top = sm.top
    BY <1>1, <1>7, <2>1, JmpXIs DEF Heads, cpu, Rests
  <2>4. Feeds(first, last, p)' /\ Heard'
    BY <1>2, <1>7, JmpXFeeds
  <2> QED
    BY <1>4, <2>2, <2>3, <2>4
<1>8. CASE SetPins
  <2>1. ~txstall
    BY <1>8, Addresses DEF Stalled
  <2>2. Wires' /\ UNCHANGED <<op, seen, dma_in, txstall>> /\ sm'.on /\ sm'.top = sm.top
    BY <1>1, <1>8, SetPinsIs DEF Heads, cpu, Rests
  <2>3. Feeds(first, last, p)'
    BY <1>1, <1>2, <1>8, SetPinsFeeds
  <2> QED
    BY <1>4, <2>1, <2>2, <2>3, HeardStays
<1>9. CASE DmaOut
  <2>1. ~txstall
    BY <1>9, Addresses DEF Stalled
  <2>2. Wires' /\ UNCHANGED <<op, seen, dma_in, txstall, sm>>
    BY <1>9, DmaOutIs DEF Heads, cpu
  <2>3. Feeds(first, last, p)'
    BY <1>2, <1>9, DmaOutFeeds
  <2> QED
    BY <1>1, <1>4, <2>1, <2>2, <2>3, HeardStays
<1> QED
  BY <1>1, <1>3, <1>5, <1>6, <1>7, <1>8, <1>9, HardwareIs, Addresses

(* While a read is under way: first the header is sent, then the answer comes. *)
LEMMA HardwareReads ==
  ASSUME op \in Op, op.kind \in Reads, Wires, Heard, cs = 0, Hardware, Reading
  PROVE  Wires' /\ Heard' /\ Reading'
<1>1. sm.on /\ sm.top = 8 /\ Len(buf) + dma_in = op.len
  BY DEF Reading, StopsAt, read_end
<1>2. ASSUME sm'.on, sm'.top = sm.top, Len(buf') + dma_in' = op'.len,
             \/ /\ \E p \in Nat : Feeds(0, SPI_HEADER_LEN, p)'
                /\ buf' = << >> /\ rxf' = << >> /\ sm'.isr = << >> /\ sm'.y = op'.len - 1
             \/ \E d \in Nat : Receives(d)'
      PROVE  Reading'
  BY <1>1, <1>2 DEF Reading, StopsAt, read_end
<1>3. ASSUME NEW p \in Nat, Feeds(0, SPI_HEADER_LEN, p),
             buf = << >>, rxf = << >>, sm.isr = << >>, sm.y = op.len - 1
      PROVE  Wires' /\ Heard' /\ Reading'
  <2>0. sm.at \in {0, 1, 2} /\ 0 \in Nat /\ SPI_HEADER_LEN \in Nat
    BY <1>3 DEF Feeds, Place, SPI_HEADER_LEN
  <2>1. CASE OutPins
    <3>1. /\ Wires' /\ UNCHANGED <<op, seen, rxf, dma_in, buf>>
          /\ sm'.on /\ sm'.top = sm.top /\ sm'.isr = sm.isr /\ sm'.y = sm.y
      BY <2>1, OutPinsIs DEF cpu, dma
    <3>2. \E q \in Nat : Feeds(0, SPI_HEADER_LEN, q)'
      BY <1>3, <2>0, <2>1, OutPinsFeeds
    <3> QED
      BY <1>1, <1>2, <1>3, <3>1, <3>2, HeardStays
  <2>2. CASE OutStalls
    <3>1. Wires' /\ UNCHANGED <<op, sm, txf, rxf, dma_out, dma_in, buf, mosi, out_dir, seen>>
          /\ sm.at = 0
      BY <2>2, OutStallsIs DEF Heads, cpu
    <3>2. Feeds(0, SPI_HEADER_LEN, p)'
      BY <1>3, <2>0, <3>1, NothingFed
    <3> QED
      BY <1>1, <1>2, <1>3, <3>1, <3>2, HeardStays
  <2>3. CASE JmpX(1, 0)
    <3>1. 1 \in {1, 6} /\ 0 \in {0, 5}
      OBVIOUS
    <3>2. /\ Wires' /\ UNCHANGED <<op, rxf, dma_in, buf>>
          /\ sm'.on /\ sm'.top = sm.top /\ sm'.isr = sm.isr /\ sm'.y = sm.y
      BY <1>1, <2>3, <3>1, JmpXIs DEF Heads, cpu, Rests
    <3>3. Feeds(0, SPI_HEADER_LEN, p)' /\ Heard'
      BY <1>3, <2>0, <2>3, JmpXFeeds
    <3> QED
      BY <1>1, <1>2, <1>3, <3>2, <3>3
  <2>4. CASE SetPins
    <3>1. /\ Wires' /\ UNCHANGED <<op, seen, dma_in, buf>> /\ sm'.on /\ sm'.top = sm.top
      BY <1>1, <2>4, SetPinsIs DEF Heads, cpu, Rests
    <3>2. Receives(0)' /\ 0 \in Nat
      BY <1>1, <1>3, <2>4, SetPinsReceives
    <3> QED
      BY <1>1, <1>2, <3>1, <3>2, HeardStays
  <2>5. CASE DmaOut
    <3>1. Wires' /\ UNCHANGED <<op, sm, seen, rxf, dma_in, buf>>
      BY <2>5, DmaOutIs DEF Heads, cpu
    <3>2. Feeds(0, SPI_HEADER_LEN, p)'
      BY <1>3, <2>0, <2>5, DmaOutFeeds
    <3> QED
      BY <1>1, <1>2, <1>3, <3>1, <3>2, HeardStays
  <2> QED
    BY <1>3, <2>0, <2>1, <2>2, <2>3, <2>4, <2>5, HardwareIs, Addresses
<1>4. ASSUME NEW d \in Nat, Receives(d) PROVE Wires' /\ Heard' /\ Reading'
  <2>0. /\ sm.osr = <<>> /\ txf = <<>> /\ dma_out = <<>> /\ sm.at \in {0, 3, 4, 5, 6, 7, 8}
        /\ 5 \in {5, 7} /\ 7 \in {5, 7} /\ 6 \in {1, 6} /\ 5 \in {0, 5} /\ d + 1 \in Nat
    BY <1>4 DEF Receives, AllSent, Edge
  <2>1. CASE OutStalls
    <3>1. /\ Wires' /\ UNCHANGED <<op, sm, txf, rxf, dma_out, dma_in, buf, seen>>
          /\ sm.at = 0 /\ clk' = 0
      BY <2>1, OutStallsIs DEF Heads, cpu
    <3>2. Receives(d)'
      BY <1>4, <3>1, StillReceives
    <3> QED
      BY <1>1, <1>2, <3>1, <3>2, HeardStays
  <2>2. CASE SetPindirs
    <3>1. Wires' /\ UNCHANGED <<op, seen, dma_in, buf>> /\ sm'.on /\ sm'.top = sm.top
      BY <1>1, <2>2, SetPindirsIs DEF Heads, cpu, Rests
    <3>2. Receives(d)'
      BY <1>4, <2>2, SetPindirsReceives
    <3> QED
      BY <1>1, <1>2, <3>1, <3>2, HeardStays
  <2>3. CASE SetX
    <3>1. Wires' /\ UNCHANGED <<op, dma_in, buf>> /\ sm'.on /\ sm'.top = sm.top
      BY <1>1, <2>3, SetXIs DEF Heads, cpu, Rests
    <3>2. Receives(d)' /\ Heard'
      BY <1>4, <2>3, SetXReceives
    <3> QED
      BY <1>1, <1>2, <3>1, <3>2
  <2>4. CASE InPins(5)
    <3>1. Wires' /\ UNCHANGED <<op, seen, dma_in, buf>> /\ sm'.on /\ sm'.top = sm.top
      BY <1>1, <2>0, <2>4, InPinsIs DEF Heads, cpu, Rests
    <3>2. Receives(d)'
      BY <1>4, <2>4, InBitReceives
    <3> QED
      BY <1>1, <1>2, <3>1, <3>2, HeardStays
  <2>5. CASE JmpX(6, 5)
    <3>1. Wires' /\ UNCHANGED <<op, dma_in, buf>> /\ sm'.on /\ sm'.top = sm.top
      BY <1>1, <2>0, <2>5, JmpXIs DEF Heads, cpu, Rests
    <3>2. Receives(d)' /\ Heard'
      BY <1>4, <2>5, JmpXReceives
    <3> QED
      BY <1>1, <1>2, <3>1, <3>2
  <2>6. CASE InPins(7)
    <3>1. Wires' /\ UNCHANGED <<op, seen, dma_in, buf>> /\ sm'.on /\ sm'.top = sm.top
      BY <1>1, <2>0, <2>6, InPinsIs DEF Heads, cpu, Rests
    <3>2. Receives(d + 1)'
      BY <1>4, <2>6, InByteReceives
    <3> QED
      BY <1>1, <1>2, <2>0, <3>1, <3>2, HeardStays
  <2>7. CASE JmpY
    <3>1. Wires' /\ UNCHANGED <<op, seen, dma_in, buf>> /\ sm'.on /\ sm'.top = sm.top
      BY <1>1, <2>7, JmpYIs DEF Heads, cpu, Rests
    <3>2. Receives(d)'
      BY <1>1, <1>4, <2>7, JmpYReceives
    <3> QED
      BY <1>1, <1>2, <3>1, <3>2, HeardStays
  <2>8. CASE DmaIn
    <3>1. /\ Wires' /\ UNCHANGED <<op, sm, seen>>
          /\ dma_in' = dma_in - 1 /\ Len(buf') = Len(buf) + 1
      BY <2>8, DmaInIs DEF Heads, cpu
    <3>2. Receives(d)'
      BY <1>4, <2>8, DmaInReceives
    <3>3. Len(buf') + dma_in' = op'.len
      BY <1>1, <3>1, WiresAre
    <3> QED
      BY <1>1, <1>2, <3>1, <3>2, <3>3, HeardStays
  <2> QED
    BY <2>0, <2>1, <2>2, <2>3, <2>4, <2>5, <2>6, <2>7, <2>8, HardwareIs, Addresses
<1> QED
  BY <1>3, <1>4 DEF Reading

(* Between the transfers: an enabled state machine only waits.              *)
LEMMA HardwareRests ==
  ASSUME op \in Op, Wires, cs = 0 => Heard, Hardware, Quiet
  PROVE  Wires' /\ Quiet' /\ UNCHANGED <<seen, buf>>
<1>1. clk = 0 /\ dma_out = <<>> /\ dma_in = 0
  BY DEF Quiet
<1>2. sm.on => /\ txf = <<>> /\ sm.osr = <<>> /\ sm.top = 8
               /\ (sm.at = 0 \/ (sm.at = 8 /\ sm.y = 0))
  BY DEF Quiet, StopsAt, read_end
<1>3. CASE OutStalls
  BY <1>1, <1>2, <1>3, OutStallsIs DEF Quiet
<1>4. CASE JmpY
  <2>1. sm.on /\ sm.at = 8 /\ sm.top = 8 /\ sm.y = 0 /\ txf = <<>> /\ sm.osr = <<>>
    BY <1>2, <1>4, Addresses
  <2>2. /\ Wires' /\ UNCHANGED <<seen, txf, dma_out, dma_in, buf>> /\ clk' = 0
        /\ sm'.at = 0 /\ sm'.top = sm.top /\ sm'.osr = sm.osr
    BY <1>4, <2>1, JmpYIs DEF Rests
  <2> QED
    BY <1>1, <2>1, <2>2 DEF Quiet, StopsAt, read_end
<1> QED
  BY <1>1, <1>2, <1>3, <1>4, HardwareIs, Addresses
-----------------------------------------------------------------------------
(* The bytes a transfer is started with are those the frame lacks.           *)
LEMMA HeaderBytes ==
  ASSUME op \in Op
  PROVE  /\ Header(op) \in Seq(ByteSet) /\ Len(Header(op)) = SPI_HEADER_LEN
         /\ \A i \in 1..Len(Header(op)) : Header(op)[i] = FrameByte(0 + i)
<1>1. /\ DOMAIN Header(op) = 1..3
      /\ \A i \in 1..3 : Header(op)[i] = FrameByte(0 + i) /\ FrameByte(0 + i) \in ByteSet
  BY FrameBytes DEF Header, FrameByte, SPI_HEADER_LEN
<1>2. Header(op) \in [1..SPI_HEADER_LEN -> ByteSet] /\ SPI_HEADER_LEN \in Nat
  BY <1>1 DEF Header, SPI_HEADER_LEN
<1>3. Header(op) \in Seq(ByteSet) /\ Len(Header(op)) = SPI_HEADER_LEN
  BY <1>2
<1> QED
  BY <1>1, <1>3 DEF SPI_HEADER_LEN

(* The data follow the header.                                              *)
LEMMA DataBytes ==
  ASSUME op \in Op
  PROVE  /\ Data(op) \in Seq(ByteSet) /\ Len(Data(op)) = op.len /\ op.len \in Nat \ {0}
         /\ \A i \in 1..Len(Data(op)) : Data(op)[i] = FrameByte(SPI_HEADER_LEN + i)
<1>1. op.len \in Nat \ {0}
  BY SpiAssumption DEF Op
<1>2. \A i \in 1..op.len : Data(op)[i] = FrameByte(SPI_HEADER_LEN + i)
  <2> TAKE i \in 1..op.len
  <2>1. ~(SPI_HEADER_LEN + i <= SPI_HEADER_LEN) /\ (SPI_HEADER_LEN + i) - SPI_HEADER_LEN = i
    BY <1>1 DEF SPI_HEADER_LEN
  <2> QED
    BY <2>1 DEF Data, FrameByte
<1>3. \A i \in 1..op.len : FrameByte(SPI_HEADER_LEN + i) \in ByteSet
  BY <1>1, FrameBytes DEF SPI_HEADER_LEN
<1>4. Data(op) \in [1..op.len -> ByteSet]
  BY <1>2, <1>3 DEF Data
<1> QED
  BY <1>1, <1>2, <1>4

(* A concatenation, by its elements.                                         *)
LEMMA ConcatIs ==
  ASSUME NEW S, NEW s \in Seq(S), NEW t \in Seq(S)
  PROVE  /\ s \o t \in Seq(S) /\ Len(s \o t) = Len(s) + Len(t)
         /\ \A i \in 1..(Len(s) + Len(t)) :
              (s \o t)[i] = IF i <= Len(s) THEN s[i] ELSE t[i - Len(s)]
OBVIOUS

(* The two together, as write_byte sends them.                               *)
LEMMA BothBytes ==
  ASSUME op \in Op
  PROVE  LET both == Header(op) \o Data(op)
         IN /\ both \in Seq(ByteSet) /\ Len(both) = SPI_HEADER_LEN + op.len
            /\ \A i \in 1..Len(both) : both[i] = FrameByte(0 + i)
<1> DEFINE h == Header(op)
           d == Data(op)
<1>1. /\ h \in Seq(ByteSet) /\ Len(h) = 3 /\ \A i \in 1..3 : h[i] = FrameByte(0 + i)
      /\ d \in Seq(ByteSet) /\ Len(d) = op.len /\ op.len \in Nat
      /\ \A i \in 1..op.len : d[i] = FrameByte(3 + i)
  BY HeaderBytes, DataBytes DEF SPI_HEADER_LEN
<1> HIDE DEF h, d
<1>2. /\ h \o d \in Seq(ByteSet) /\ Len(h \o d) = 3 + op.len
      /\ \A i \in 1..(3 + op.len) : (h \o d)[i] = IF i <= 3 THEN h[i] ELSE d[i - 3]
  <2>1. /\ h \o d \in Seq(ByteSet) /\ Len(h \o d) = Len(h) + Len(d)
        /\ \A i \in 1..(Len(h) + Len(d)) :
             (h \o d)[i] = IF i <= Len(h) THEN h[i] ELSE d[i - Len(h)]
    BY <1>1, ConcatIs
  <2>2. Len(h) = 3 /\ Len(d) = op.len
    BY <1>1
  <2> QED
    BY <2>1, <2>2
<1>3. \A i \in 1..(3 + op.len) : (h \o d)[i] = FrameByte(0 + i)
  <2> TAKE i \in 1..(3 + op.len)
  <2>1. i \in Int /\ op.len \in Nat /\ 0 + i = i
    BY <1>1
  <2>2. CASE i <= 3
    <3>1. i \in 1..3
      BY <2>1, <2>2
    <3> QED
      BY <1>1, <1>2, <2>2, <3>1
  <2>3. CASE ~(i <= 3)
    <3>1. i - 3 \in 1..op.len /\ 3 + (i - 3) = 0 + i
      BY <2>1, <2>3
    <3> QED
      BY <1>1, <1>2, <2>3, <3>1
  <2> QED
    BY <2>2, <2>3
<1> QED
  BY <1>2, <1>3 DEF h, d, SPI_HEADER_LEN

(* What the state machine is started with.                                  *)
LEMMA LoadIs ==
  ASSUME NEW bytes \in Seq(ByteSet), Len(bytes) > 0, Len(bytes) <= SPI_HEADER_LEN + MaxLen,
         NEW end \in {write_end, read_end}, NEW y \in 0..MaxLen + SPI_HEADER_LEN,
         sm' = Load(bytes, end, y, write_bits)
  PROVE  /\ MachineOK' /\ sm'.on /\ sm'.at = 0 /\ sm'.y = y /\ sm'.top = StopsAt(end)
         /\ sm'.x = ByteBits * Len(bytes) - 1 /\ sm'.osr = <<>> /\ sm'.isr = <<>>
<1> DEFINE n == Len(bytes)
           x == ByteBits * n - 1
<1>1. n \in Nat /\ n > 0 /\ n <= 3 + MaxLen
  BY DEF SPI_HEADER_LEN
<1>2. sm' = [on |-> TRUE, at |-> 0, x |-> x, y |-> y, top |-> StopsAt(end), osr |-> <<>>, isr |-> <<>>]
  BY DEF Load, write_bits
<1> HIDE DEF n
<1>3. x \in 0..WordMax /\ y \in 0..WordMax
  BY <1>1, SpiAssumption DEF ByteBits, SPI_HEADER_LEN
<1>4. StopsAt(end) \in {2, 8} /\ <<>> \in Words /\ Len(<<>>) < ByteBits
  BY DEF StopsAt, write_end, read_end, Words, ByteBits
<1> HIDE DEF x
<1>5. sm' \in Machines
  BY <1>2, <1>3, <1>4 DEF Machines
<1> QED
  BY <1>2, <1>4, <1>5 DEF MachineOK, x, n

(* So a transfer starts with its first byte still to be pulled.              *)
LEMMA StartFeeds ==
  ASSUME op' = op, NEW first \in Nat, NEW last \in Nat, first < last,
         NEW bytes \in Seq(ByteSet), Len(bytes) = last - first,
         \A i \in 1..Len(bytes) : bytes[i] = FrameByte(first + i),
         sm'.at = 0, sm'.x = ByteBits * Len(bytes) - 1, sm'.osr = <<>>,
         txf' = <<>>, dma_out' = bytes, out_dir' = TRUE, seen' = seen,
         Len(seen) = ByteBits * first
  PROVE  Feeds(first, last, first)'
<1>1. \A j \in Int : FrameByte(j)' = FrameByte(j)
  BY FrameStays
<1>2. Len(txf') = 0 /\ Len(sm'.osr) = 0 /\ Len(dma_out') = last - first
  OBVIOUS
<1>3. ToCome(last, first)'
  <2>1. \A i \in 1..Len(dma_out') : dma_out'[i] = FrameByte(first + Len(txf) + i)'
    <3> TAKE i \in 1..Len(dma_out')
    <3>1. first + Len(txf') + i = first + i /\ first + i \in Int /\ i \in 1..Len(bytes)
      BY <1>2
    <3> QED
      BY <1>1, <3>1
  <2> QED
    BY <1>2, <2>1 DEF ToCome
<1>4. Place(first, last, first)'
  <2>1. sm'.x = ByteBits * last - 1 - Len(seen')
    BY DEF ByteBits
  <2> QED
    BY <1>2, <2>1 DEF Place, ByteBits
<1> QED
  BY <1>2, <1>3, <1>4 DEF Feeds, InShift, OnPin

(* The start of a write.                                                    *)
LEMMA StartTxSends ==
  ASSUME op \in Op, op' = op, Wires, cs = 0 => Heard, dma_in = 0,
         NEW first \in Nat, NEW last \in Nat, first < last, last <= SPI_HEADER_LEN + MaxLen,
         NEW bytes \in Seq(ByteSet), Len(bytes) = last - first,
         \A i \in 1..Len(bytes) : bytes[i] = FrameByte(first + i),
         StartTx(bytes), Len(seen) = ByteBits * first
  PROVE  Wires' /\ Sending(first, last)' /\ ~txstall' /\ seen' = seen
<1>1. /\ sm' = Load(bytes, write_end, Len(bytes) - 1, write_bits)
      /\ txf' = <<>> /\ rxf' = <<>> /\ txstall' = FALSE /\ mosi' = Low /\ out_dir' = TRUE
      /\ dma_out' = bytes /\ Fall /\ dma_in' = dma_in /\ buf' = buf
  BY DEF StartTx
<1>2. Len(bytes) > 0 /\ Len(bytes) <= SPI_HEADER_LEN + MaxLen
      /\ Len(bytes) - 1 \in 0..MaxLen + SPI_HEADER_LEN
  <2> DEFINE n == Len(bytes)
  <2>1. n \in Nat /\ n = last - first
    OBVIOUS
  <2> HIDE DEF n
  <2>2. n > 0 /\ n <= SPI_HEADER_LEN + MaxLen /\ n - 1 \in 0..MaxLen + SPI_HEADER_LEN
    BY <2>1, SpiAssumption DEF SPI_HEADER_LEN
  <2> QED
    BY <2>2 DEF n
<1>3. /\ MachineOK' /\ sm'.on /\ sm'.at = 0 /\ sm'.top = StopsAt(write_end)
      /\ sm'.x = ByteBits * Len(bytes) - 1 /\ sm'.osr = <<>>
  BY <1>1, <1>2, LoadIs
<1>4. ChipOK' /\ seen' = seen
  BY <1>1, FallAnswers
<1>5. FifosOK' /\ DmaOK' /\ PinsOK'
  <2>1. FifosOK'
    <3>1. <<>> \in Seq(ByteSet) /\ <<>> \in Seq(Words) /\ Len(<<>>) <= FifoSize
      BY DEF FifoSize
    <3> QED
      BY <1>1, <3>1 DEF FifosOK
  <2>2. DmaOK'
    BY <1>1 DEF Wires, DmaOK
  <2>3. PinsOK'
    BY <1>1, Levels DEF PinsOK
  <2> QED
    BY <2>1, <2>2, <2>3
<1>6. Feeds(first, last, first)'
  BY <1>1, <1>3, <1>4, StartFeeds
<1> QED
  BY <1>1, <1>3, <1>4, <1>5, <1>6 DEF Wires, Sending

(* The start of a read.                                                     *)
LEMMA StartTxRxReads ==
  ASSUME op \in Op, op' = op, Wires, cs = 0 => Heard,
         NEW bytes \in Seq(ByteSet), Len(bytes) = SPI_HEADER_LEN,
         \A i \in 1..Len(bytes) : bytes[i] = FrameByte(0 + i),
         StartTxRx(bytes, op.len), seen = <<>>
  PROVE  Wires' /\ Reading' /\ seen' = seen
<1>1. /\ sm' = Load(bytes, read_end, op.len - 1, write_bits)
      /\ txf' = <<>> /\ rxf' = <<>> /\ out_dir' = TRUE /\ dma_out' = bytes
      /\ dma_in' = op.len /\ buf' = <<>> /\ Fall /\ txstall' = txstall /\ mosi' = mosi
  BY DEF StartTxRx
<1>2. /\ op.len \in 1..MaxLen /\ op.len - 1 \in 0..MaxLen + SPI_HEADER_LEN
      /\ Len(bytes) > 0 /\ Len(bytes) <= SPI_HEADER_LEN + MaxLen
      /\ 0 < SPI_HEADER_LEN /\ 0 \in Nat /\ SPI_HEADER_LEN \in Nat
      /\ Len(bytes) = SPI_HEADER_LEN - 0 /\ Len(seen) = ByteBits * 0
  BY SpiAssumption DEF Op, SPI_HEADER_LEN, ByteBits
<1>3. /\ MachineOK' /\ sm'.on /\ sm'.at = 0 /\ sm'.y = op.len - 1 /\ sm'.top = StopsAt(read_end)
      /\ sm'.x = ByteBits * Len(bytes) - 1 /\ sm'.osr = <<>> /\ sm'.isr = <<>>
  BY <1>1, <1>2, LoadIs
<1>4. ChipOK' /\ seen' = seen
  BY <1>1, FallAnswers
<1>5. FifosOK' /\ DmaOK' /\ PinsOK'
  BY <1>1, <1>2 DEF Wires, FifosOK, DmaOK, PinsOK, FifoSize
<1>6. Feeds(0, SPI_HEADER_LEN, 0)'
  BY <1>1, <1>2, <1>3, <1>4, StartFeeds
<1>7. Len(buf') + dma_in' = op'.len
  BY <1>1, <1>2
<1> QED
  BY <1>1, <1>2, <1>3, <1>4, <1>5, <1>6, <1>7 DEF Wires, Reading

(* A stall is seen only when the last bit was clocked.                      *)
LEMMA TxDoneRests ==
  ASSUME op \in Op, Wires, cs = 0 => Heard, TxDone, NEW first \in Nat, NEW last \in Nat,
         Sending(first, last), txstall => Stalled(last)
  PROVE  Wires' /\ Quiet' /\ seen' = seen /\ Len(seen) = ByteBits * last
<1>1. /\ txstall /\ sm' = [sm EXCEPT !.on = FALSE] /\ mosi' = Low /\ Fall
      /\ UNCHANGED <<txf, rxf, txstall, dma_out, dma_in, buf, out_dir>>
  BY DEF TxDone, fifos, dma
<1>2. ChipOK' /\ seen' = seen /\ clk' = 0
  BY <1>1, FallAnswers
<1>3. 0 \in 0..8 /\ sm \in Machines
  BY WiresAre
<1>4. /\ sm' \in Machines /\ sm'.on = FALSE /\ sm'.osr = sm.osr /\ sm'.isr = sm.isr
  BY <1>1, <1>3, MachineKept
<1>5. MachineOK' /\ FifosOK' /\ DmaOK' /\ PinsOK'
  BY <1>1, <1>4, Levels DEF Wires, MachineOK, FifosOK, DmaOK, PinsOK
<1> QED
  BY <1>1, <1>2, <1>4, <1>5 DEF Wires, Quiet, Stalled, Sending

(* Both channels are done only when the last byte is in the buffer.         *)
LEMMA RxDoneRests ==
  ASSUME op \in Op, Wires, cs = 0 => Heard, RxDone, Reading
  PROVE  /\ Wires' /\ Quiet' /\ seen' = seen /\ Len(seen) = Clocks(op)
         /\ buf' = Memory(op)
<1>1. /\ dma_out = <<>> /\ dma_in = 0 /\ mosi' = Low /\ Fall
      /\ UNCHANGED <<sm, txf, rxf, txstall, dma_out, dma_in, buf, out_dir>>
  BY DEF RxDone, fifos, dma
<1>2. ChipOK' /\ seen' = seen /\ clk' = 0
  BY <1>1, FallAnswers
<1>3. Wires'
  BY <1>1, <1>2, Levels DEF Wires, MachineOK, FifosOK, DmaOK, PinsOK
<1>4. op.len \in Nat \ {0} /\ Len(buf) = op.len
  <2>1. op.len \in Nat \ {0}
    BY SpiAssumption DEF Op
  <2>2. Len(buf) + 0 = op.len
    BY <1>1 DEF Reading
  <2> QED
    BY <2>1, <2>2, WiresAre
<1>5. buf # <<>>
  BY <1>4
<1>6. PICK d \in Nat : Receives(d)
  BY <1>5 DEF Reading
<1>7. d = op.len
  <2>1. d <= op.len /\ d = Len(buf) + Len(rxf) /\ Len(rxf) \in Nat
    BY <1>6, WiresAre DEF Receives, Delivered
  <2> QED
    BY <1>4, <2>1
<1>8. sm.at \in {0, 8}
  <2>1. sm.at \in {0, 3, 4, 5, 6, 7, 8} /\ (sm.at \in 3..7 => d < op.len)
    BY <1>6 DEF Receives, Edge
  <2> QED
    BY <1>4, <1>7, <2>1
<1>9. /\ Len(seen) = ByteBits * (SPI_HEADER_LEN + d)
      /\ sm.at = 8 => sm.y = 0
      /\ sm.osr = <<>> /\ txf = <<>>
  <2>1. sm.osr = <<>> /\ txf = <<>> /\ Edge(d)
    BY <1>6 DEF Receives, AllSent
  <2>2. CASE sm.at = 0
    BY <2>1, <2>2 DEF Edge
  <2>3. CASE sm.at = 8
    <3>1. Samples(d, 0, 0) /\ sm.y = op.len - d
      BY <2>1, <2>3 DEF Edge
    <3>2. Len(seen) = ByteBits * (SPI_HEADER_LEN + d) + 0
      BY <3>1 DEF Samples
    <3>3. ByteBits * (SPI_HEADER_LEN + d) \in Int
      BY DEF ByteBits, SPI_HEADER_LEN
    <3> QED
      BY <1>4, <1>7, <2>1, <3>1, <3>2, <3>3
  <2> QED
    BY <1>8, <2>2, <2>3
<1>10. Quiet'
  BY <1>1, <1>2, <1>8, <1>9 DEF Quiet, Reading
<1>11. buf = Memory(op)
  <2>1. buf = [i \in 1..op.len |-> buf[i]]
    <3>1. buf \in Seq(Words)
      BY DEF Wires, DmaOK
    <3>2. DOMAIN buf = 1..Len(buf) /\ buf \in [1..Len(buf) -> Words]
      BY <3>1
    <3> QED
      BY <1>4, <3>2
  <2>2. \A i \in 1..op.len : buf[i] = MemByte(i)
    BY <1>4, <1>6 DEF Receives, Delivered
  <2>3. \A i \in 1..op.len : Bits(<<Byte("memory", op.turn, i)>>) = MemByte(i)
    BY ByteIs DEF MemByte
  <2> QED
    BY <2>1, <2>2, <2>3 DEF Memory
<1> QED
  BY <1>1, <1>2, <1>3, <1>7, <1>9, <1>10, <1>11 DEF Clocks
-----------------------------------------------------------------------------
(* The steps of the processor.                                              *)
Rest == Wires /\ Registers /\ Transfer /\ Progress

(* In a frame the chip has heard the frame.                                 *)
LEMMA HeardInFrame == Registers /\ Progress => (cs = 0 => Heard)
BY DEF Registers, Progress

(* A step that touches none of the hardware leaves it as it was.            *)
LEMMA StillKeeps ==
  ASSUME Wires, Quiet, UNCHANGED <<sm, fifos, dma, pins, chip>>
  PROVE  Wires' /\ Quiet' /\ UNCHANGED <<seen, buf, clk>>
BY DEF Wires, MachineOK, FifosOK, DmaOK, PinsOK, ChipOK, Quiet, fifos, dma, pins, chip

(* What the places of an access say of the calls still to be made.          *)
LEMMA CallsLeft ==
  ASSUME HInv
  PROVE  /\ op \in Op /\ op.len \in Nat \ {0} /\ op.len <= MaxLen
         /\ pc = "frame_start" => calls # <<>>
         /\ pc = "call" /\ Kept => Second /\ calls # <<>>
         /\ pc = "buffer" /\ op.kind \in Writes => Tail(calls) = <<>>
         /\ pc = "reading" => Tail(calls) = <<>> /\ op.kind \in Reads
         /\ pc = "buffer" => op.kind \in Writes
         /\ pc = "payload" => op.kind = "write_buffer"
<1>1. op \in Op /\ Phase
  BY DEF HInv
<1>2. op.len \in Nat \ {0} /\ op.len <= MaxLen
  BY <1>1, SpiAssumption DEF Op
<1>3. pc = "frame_start" => calls # <<>>
  BY <1>1, CallsFacts DEF Phase, First
<1>4. pc = "call" /\ Kept => Second /\ calls # <<>>
  BY <1>1, CallsFacts DEF Phase, First, Second, Kept, Finished, SPI_HEADER_LEN
<1>5. pc = "buffer" /\ op.kind \in Writes => Tail(calls) = <<>>
  BY <1>1, CallsFacts DEF Phase, Second
<1>6. pc = "reading" => Tail(calls) = <<>> /\ op.kind \in Reads
  BY <1>1, CallsFacts DEF Phase, Second, Reads
<1>7. pc = "buffer" => op.kind \in Writes
  BY <1>1 DEF Phase
<1>8. pc = "payload" => op.kind = "write_buffer"
  BY <1>1 DEF Phase
<1> QED
  BY <1>1, <1>2, <1>3, <1>4, <1>5, <1>6, <1>7, <1>8

(* The bytes of the second call of a write.                                 *)
LEMMA DataCall ==
  ASSUME NEW o, o.kind = "write_buffer"
  PROVE  Head(Tail(CallsOf(o))).bytes = Data(o)
BY DEF CallsOf, Call, Reads

(* Taking the lock, and setting the chip select.                            *)
LEMMA LockKeeps ==
  ASSUME SInv, HInv', wizchip_critical_section_lock
  PROVE  Rest'
<1>1. /\ pc = "idle" /\ pc' = "frame_start" /\ sem' = sem - 1
      /\ UNCHANGED <<spi_header, spi_header_count, cs>> /\ Still
  BY DEF wizchip_critical_section_lock, Still
<1>2. Wires' /\ Quiet'
  BY <1>1, StillKeeps DEF SInv, Transfer, Still
<1>3. Registers'
  BY <1>1 DEF SInv, Registers
<1>4. Transfer'
  BY <1>1, <1>2 DEF Transfer
<1>5. Progress'
  BY <1>1 DEF Progress
<1> QED
  BY <1>2, <1>3, <1>4, <1>5 DEF Rest

(* The frame starts: the chip has heard nothing yet.                        *)
LEMMA FrameStartKeeps ==
  ASSUME SInv, HInv', wiznet_spi_pio_frame_start
  PROVE  Rest'
<1>1. /\ pc = "frame_start" /\ pc' = "call" /\ cs' = 0 /\ seen' = <<>>
      /\ UNCHANGED <<sem, op, calls, spi_header, spi_header_count, sm, fifos, dma, pins, miso>>
  BY DEF wiznet_spi_pio_frame_start
<1>2. calls' # <<>>
  BY <1>1, CallsLeft DEF SInv
<1>3. Wires'
  <2>1. <<>> \in Words
    BY DEF Words
  <2> QED
    BY <1>1, <2>1 DEF SInv, Wires, MachineOK, FifosOK, DmaOK, PinsOK, ChipOK, fifos, dma, pins
<1>4. Registers'
  BY <1>1 DEF SInv, Registers
<1>5. Transfer'
  BY <1>1 DEF SInv, Transfer, Quiet, fifos, dma, pins
<1>6. Progress'
  <2>1. Len(seen') = 0
    BY <1>1
  <2>2. Heard'
    BY <2>1 DEF Heard
  <2> QED
    BY <1>1, <1>2, <2>2 DEF Progress
<1> QED
  BY <1>3, <1>4, <1>5, <1>6 DEF Rest

(* The header is kept.                                                      *)
LEMMA SaveHeaderKeeps ==
  ASSUME SInv, HInv', SaveHeader
  PROVE  Rest'
<1>1. /\ pc = "call" /\ pc' = "call" /\ calls # <<>> /\ spi_header_count' = SPI_HEADER_LEN
      /\ UNCHANGED <<sem, op, cs>> /\ Still
  BY DEF SaveHeader, Calling, Still
<1>2. Wires' /\ Quiet' /\ UNCHANGED <<seen, buf>>
  BY <1>1, StillKeeps DEF SInv, Transfer, Still
<1>3. Kept'
  BY <1>1, CallsFacts DEF HInv, Phase, First, Finished, SPI_HEADER_LEN
<1>4. op' \in Op /\ calls' # <<>>
  <2>1. op' \in Op /\ Second'
    BY <1>1, <1>3 DEF HInv, Phase, First, Kept, Finished, SPI_HEADER_LEN
  <2>2. \A o \in Op : o.kind # "write_byte" => Tail(CallsOf(o)) # <<>>
    BY CallsFacts
  <2> QED
    BY <2>1, <2>2 DEF Second
<1>5. Registers'
  BY <1>1, <1>3, <1>4, HeaderSeq DEF SInv, Registers, Kept
<1>6. Transfer'
  BY <1>1, <1>2 DEF Transfer
<1>7. Progress'
  <2>1. seen = <<>> /\ Heard
    BY <1>1 DEF SInv, Progress
  <2>2. Heard'
    BY <1>1, <1>2, <2>1, HeardStays
  <2> QED
    BY <1>1, <1>2, <1>4, <2>1, <2>2 DEF Progress
<1> QED
  BY <1>2, <1>5, <1>6, <1>7 DEF Rest

(* It is sent, and with it begins the frame.                                *)
LEMMA WriteHeaderKeeps ==
  ASSUME SInv, HInv', WriteHeader
  PROVE  Rest'
<1>1. /\ pc = "call" /\ pc' = "header" /\ calls # <<>> /\ StartTx(spi_header)
      /\ UNCHANGED <<sem, op, calls, spi_header, spi_header_count, cs>>
  BY DEF WriteHeader, Calling, StartTx
<1>2. op \in Op /\ Quiet /\ seen = <<>> /\ (cs = 0 => Heard) /\ Heard
  BY <1>1, HeardInFrame DEF SInv, HInv, Transfer, Progress
<1>3. spi_header = Header(op)
  BY <1>1 DEF HInv, Phase, Kept
<1>4. Wires' /\ Sending(0, SPI_HEADER_LEN)' /\ ~txstall' /\ seen' = seen
  <2>1. /\ 0 \in Nat /\ SPI_HEADER_LEN \in Nat /\ 0 < SPI_HEADER_LEN
        /\ SPI_HEADER_LEN <= SPI_HEADER_LEN + MaxLen /\ SPI_HEADER_LEN - 0 = SPI_HEADER_LEN
    BY SpiAssumption DEF SPI_HEADER_LEN
  <2>2. Len(seen) = ByteBits * 0 /\ dma_in = 0
    BY <1>2 DEF Quiet, ByteBits
  <2> QED
    BY <1>1, <1>2, <1>3, <2>1, <2>2, HeaderBytes, StartTxSends DEF SInv
<1>5. Registers'
  BY <1>1 DEF SInv, Registers
<1>6. Transfer'
  BY <1>1, <1>4 DEF Transfer, Writing
<1>7. Progress'
  BY <1>1, <1>2, <1>4, HeardStays DEF Progress
<1> QED
  BY <1>4, <1>5, <1>6, <1>7 DEF Rest

(* The header is on the wire.                                               *)
LEMMA HeaderWrittenKeeps ==
  ASSUME SInv, HInv', HeaderWritten
  PROVE  Rest'
<1>1. /\ pc = "header" /\ pc' = "payload" /\ TxDone /\ spi_header_count' = 0
      /\ UNCHANGED <<sem, op, calls, spi_header, cs>>
  BY DEF HeaderWritten, TxDone
<1>2. op \in Op /\ Writing(0, SPI_HEADER_LEN) /\ (cs = 0 => Heard) /\ Heard
  BY <1>1, HeardInFrame DEF SInv, HInv, Transfer, Progress
<1>3. Wires' /\ Quiet' /\ seen' = seen /\ Len(seen) = ByteBits * SPI_HEADER_LEN
  <2>1. 0 \in Nat /\ SPI_HEADER_LEN \in Nat
    BY DEF SPI_HEADER_LEN
  <2> QED
    BY <1>1, <1>2, <2>1, TxDoneRests DEF SInv, Writing
<1>4. Registers'
  BY <1>1 DEF SInv, Registers
<1>5. Transfer'
  BY <1>1, <1>3 DEF Transfer
<1>6. Progress'
  BY <1>1, <1>2, <1>3, HeardStays DEF Progress
<1> QED
  BY <1>3, <1>4, <1>5, <1>6 DEF Rest

(* The buffer starts where the header ended, or with it.                    *)
LEMMA WriteBufferKeeps ==
  ASSUME SInv, HInv', WriteBuffer
  PROVE  Rest'
<1>1. /\ pc' = "buffer" /\ StartTx(Buffer)
      /\ UNCHANGED <<sem, op, calls, spi_header, spi_header_count, cs>>
  BY DEF WriteBuffer, StartTx
<1>2. /\ pc \in {"payload", "call"} /\ (pc = "call" => calls # <<>>)
  BY DEF WriteBuffer, Calling
<1>3. op \in Op /\ op.len \in Nat \ {0} /\ op.len <= MaxLen
  BY CallsLeft DEF SInv
<1>4. Quiet /\ (cs = 0 => Heard) /\ Heard
  BY <1>2, HeardInFrame DEF SInv, HInv, Transfer, Progress
<1>5. op.kind \in Writes /\ (IF op.kind = "write_byte" THEN calls = CallsOf(op) ELSE Second')
  BY <1>1 DEF HInv, Phase
<1>6. \E first \in Nat, last \in Nat :
        /\ first = Base /\ last = SPI_HEADER_LEN + op.len
        /\ Buffer \in Seq(ByteSet) /\ Len(Buffer) = last - first
        /\ \A i \in 1..Len(Buffer) : Buffer[i] = FrameByte(first + i)
        /\ Len(seen) = ByteBits * first
  <2>1. CASE op.kind = "write_byte"
    <3>1. pc = "call"
      BY <1>2, <2>1, CallsLeft DEF SInv
    <3>2. Buffer = Header(op) \o Data(op)
      BY <1>3, <1>5, <2>1, CallsFacts DEF Buffer
    <3>3. seen = <<>>
      BY <1>2, <3>1 DEF SInv, Progress
    <3>4. /\ Base = 0 /\ 0 \in Nat /\ SPI_HEADER_LEN + op.len \in Nat
          /\ SPI_HEADER_LEN + op.len - 0 = SPI_HEADER_LEN + op.len /\ Len(seen) = ByteBits * 0
      BY <1>3, <2>1, <3>3 DEF Base, SPI_HEADER_LEN, ByteBits
    <3>5. /\ Buffer \in Seq(ByteSet) /\ Len(Buffer) = SPI_HEADER_LEN + op.len
          /\ \A i \in 1..Len(Buffer) : Buffer[i] = FrameByte(0 + i)
      BY <1>3, <3>2, BothBytes
    <3>6. 0 = Base /\ Len(Buffer) = SPI_HEADER_LEN + op.len - 0
      BY <3>4, <3>5
    <3> SPI_HEADER_LEN + op.len \in Nat
      BY <3>4
    <3> WITNESS 0 \in Nat, SPI_HEADER_LEN + op.len \in Nat
    <3> QED
      BY <3>4, <3>5, <3>6
  <2>2. CASE op.kind # "write_byte"
    <3>1. op.kind = "write_buffer" /\ Second
      BY <1>1, <1>5, <2>2 DEF Writes, Second
    <3>2. Buffer = Data(op)
      BY <3>1, DataCall DEF Buffer, Second
    <3>3. pc = "payload"
      <4>1. SUFFICES ASSUME pc = "call" PROVE FALSE
        BY <1>2
      <4>2. Kept
        BY <1>2, <3>1, <4>1, <1>3, CallsFacts DEF SInv, HInv, Phase, First, Second, Finished
      <4> QED
        BY <4>1, <4>2 DEF WriteBuffer, Kept
    <3>4. Len(seen) = ByteBits * SPI_HEADER_LEN
      BY <3>3 DEF SInv, Progress
    <3>5. /\ Base = SPI_HEADER_LEN /\ SPI_HEADER_LEN \in Nat /\ SPI_HEADER_LEN + op.len \in Nat
          /\ (SPI_HEADER_LEN + op.len) - SPI_HEADER_LEN = op.len
      BY <1>3, <2>2 DEF Base, SPI_HEADER_LEN
    <3>6. /\ Buffer \in Seq(ByteSet) /\ Len(Buffer) = op.len
          /\ \A i \in 1..Len(Buffer) : Buffer[i] = FrameByte(SPI_HEADER_LEN + i)
      BY <1>3, <3>2, DataBytes
    <3>7. SPI_HEADER_LEN = Base /\ Len(Buffer) = (SPI_HEADER_LEN + op.len) - SPI_HEADER_LEN
      BY <3>5, <3>6
    <3> SPI_HEADER_LEN \in Nat /\ SPI_HEADER_LEN + op.len \in Nat
      BY <3>5
    <3> WITNESS SPI_HEADER_LEN \in Nat, SPI_HEADER_LEN + op.len \in Nat
    <3> QED
      BY <3>4, <3>5, <3>6, <3>7
  <2> QED
    BY <2>1, <2>2
<1>7. PICK first \in Nat, last \in Nat :
        /\ first = Base /\ last = SPI_HEADER_LEN + op.len
        /\ Buffer \in Seq(ByteSet) /\ Len(Buffer) = last - first
        /\ \A i \in 1..Len(Buffer) : Buffer[i] = FrameByte(first + i)
        /\ Len(seen) = ByteBits * first
  BY <1>6
<1>8. Wires' /\ Sending(first, last)' /\ ~txstall' /\ seen' = seen
  <2>1. first < last /\ last <= SPI_HEADER_LEN + MaxLen
    BY <1>3, <1>7, SpiAssumption DEF Base, SPI_HEADER_LEN
  <2>2. dma_in = 0
    BY <1>4 DEF Quiet
  <2> QED
    BY <1>1, <1>3, <1>4, <1>7, <2>1, <2>2, StartTxSends DEF SInv
<1>9. Registers'
  BY <1>1, <1>2 DEF SInv, Registers
<1>10. Transfer'
  <2>1. Base' = Base /\ (SPI_HEADER_LEN + op.len)' = SPI_HEADER_LEN + op.len
    BY <1>1 DEF Base
  <2> QED
    BY <1>1, <1>7, <1>8, <2>1 DEF Transfer, Writing
<1>11. Progress'
  BY <1>1, <1>4, <1>8, HeardStays DEF Progress
<1> QED
  BY <1>8, <1>9, <1>10, <1>11 DEF Rest

(* The buffer is on the wire, and with it all of the frame.                 *)
LEMMA BufferWrittenKeeps ==
  ASSUME SInv, HInv', BufferWritten
  PROVE  Rest'
<1>1. /\ pc = "buffer" /\ pc' = "call" /\ TxDone /\ calls' = Tail(calls)
      /\ UNCHANGED <<sem, op, spi_header, spi_header_count, cs>>
  BY DEF BufferWritten, TxDone
<1>2. op \in Op /\ op.kind \in Writes /\ calls' = <<>>
  BY <1>1, CallsLeft DEF SInv
<1>3. (cs = 0 => Heard) /\ Heard
  BY <1>1, HeardInFrame DEF SInv, Progress
<1>4. PICK first \in Nat, last \in Nat :
        first = Base /\ last = SPI_HEADER_LEN + op.len /\ Writing(first, last)
  BY <1>1 DEF SInv, Transfer
<1>5. Wires' /\ Quiet' /\ seen' = seen /\ Len(seen) = ByteBits * last
  BY <1>1, <1>2, <1>3, <1>4, TxDoneRests DEF SInv, Writing
<1>6. Registers'
  BY <1>1 DEF SInv, Registers
<1>7. Transfer'
  BY <1>1, <1>5 DEF Transfer
<1>8. Progress'
  <2>1. Len(seen') = Clocks(op') /\ op'.kind \notin Reads
    BY <1>1, <1>2, <1>4, <1>5 DEF Clocks, Writes, Reads
  <2> QED
    BY <1>1, <1>2, <1>3, <1>5, <2>1, HeardStays DEF Progress
<1> QED
  BY <1>5, <1>6, <1>7, <1>8 DEF Rest

(* A read sends the header that was kept.                                   *)
LEMMA ReadBufferKeeps ==
  ASSUME SInv, HInv', ReadBuffer
  PROVE  Rest'
<1>1. /\ pc = "call" /\ pc' = "reading" /\ calls # <<>>
      /\ StartTxRx(SubSeq(spi_header, 1, spi_header_count), op.len)
      /\ UNCHANGED <<sem, op, calls, spi_header, spi_header_count, cs>>
  BY DEF ReadBuffer, Calling, StartTxRx
<1>2. op \in Op /\ seen = <<>> /\ (cs = 0 => Heard) /\ Heard
  BY <1>1, HeardInFrame DEF SInv, HInv, Progress
<1>3. Kept
  <2>1. HeaderPairing
    BY HInvPairs DEF SInv
  <2> QED
    BY <2>1 DEF HeaderPairing, ReadBuffer, Kept
<1>4. StartTxRx(Header(op), op.len)
  BY <1>1, <1>2, <1>3, HeaderSeq DEF Kept
<1>5. Wires' /\ Reading' /\ seen' = seen
  BY <1>1, <1>2, <1>4, HeaderBytes, StartTxRxReads DEF SInv
<1>6. Registers'
  BY <1>1 DEF SInv, Registers
<1>7. Transfer'
  BY <1>1, <1>5 DEF Transfer
<1>8. Progress'
  BY <1>1, <1>2, <1>5, HeardStays DEF Progress
<1> QED
  BY <1>5, <1>6, <1>7, <1>8 DEF Rest

(* The answer is in the buffer.                                             *)
LEMMA BufferReadKeeps ==
  ASSUME SInv, HInv', BufferRead
  PROVE  Rest'
<1>1. /\ pc = "reading" /\ pc' = "call" /\ RxDone /\ spi_header_count' = 0
      /\ calls' = Tail(calls) /\ UNCHANGED <<sem, op, spi_header, cs>>
  BY DEF BufferRead, RxDone
<1>2. op \in Op /\ calls' = <<>> /\ Reading
  BY <1>1, CallsLeft DEF SInv, Transfer
<1>3. (cs = 0 => Heard) /\ Heard
  BY <1>1, HeardInFrame DEF SInv, Progress
<1>4. Wires' /\ Quiet' /\ seen' = seen /\ Len(seen) = Clocks(op) /\ buf' = Memory(op)
  BY <1>1, <1>2, <1>3, RxDoneRests DEF SInv
<1>5. Registers'
  BY <1>1 DEF SInv, Registers
<1>6. Transfer'
  BY <1>1, <1>4 DEF Transfer
<1>7. Progress'
  BY <1>1, <1>2, <1>3, <1>4, HeardStays DEF Progress
<1> QED
  BY <1>4, <1>5, <1>6, <1>7 DEF Rest

(* The chip select is released, and the lock.                               *)
LEMMA FrameEndKeeps ==
  ASSUME SInv, HInv', wiznet_spi_pio_frame_end
  PROVE  Rest'
<1>1. /\ pc = "call" /\ pc' = "unlock" /\ calls = <<>> /\ cs' = 1
      /\ UNCHANGED <<sem, op, calls, spi_header, spi_header_count, sm, fifos, dma, pins, chip>>
  BY DEF wiznet_spi_pio_frame_end, chip
<1>2. Wires' /\ Quiet' /\ UNCHANGED <<seen, buf>>
  BY <1>1, StillKeeps DEF SInv, Transfer
<1>3. Registers'
  BY <1>1 DEF SInv, Registers
<1>4. Transfer'
  BY <1>1, <1>2 DEF Transfer
<1>5. Progress'
  BY <1>1, <1>2, HeardStays DEF SInv, Progress
<1> QED
  BY <1>2, <1>3, <1>4, <1>5 DEF Rest

(* The lock is released.                                                    *)
LEMMA UnlockKeeps ==
  ASSUME SInv, HInv', wizchip_critical_section_unlock
  PROVE  Rest'
<1>1. /\ pc = "unlock" /\ pc' = "idle" /\ sem' = sem + 1
      /\ UNCHANGED <<op, calls, spi_header, spi_header_count, cs>> /\ Still
  BY DEF wizchip_critical_section_unlock, Still
<1>2. Wires' /\ Quiet'
  BY <1>1, StillKeeps DEF SInv, Transfer, Still
<1>3. Registers'
  BY <1>1 DEF SInv, Registers
<1>4. Transfer'
  BY <1>1, <1>2 DEF Transfer
<1>5. Progress'
  BY <1>1 DEF Progress
<1> QED
  BY <1>2, <1>3, <1>4, <1>5 DEF Rest

(* A step of the hardware, wherever the processor is.                       *)
LEMMA HardwareKeeps ==
  ASSUME SInv, Hardware
  PROVE  Rest'
<1>1. UNCHANGED <<sem, pc, op, calls, spi_header, spi_header_count, cs>>
  BY DEF Hardware, Program, OutPins, OutStalls, JmpX, SetPins, SetPindirs, SetX, InPins, JmpY,
         DmaOut, DmaIn, cpu
<1>2. op \in Op /\ Wires /\ (cs = 0 => Heard) /\ (pc = "reading" => op.kind \in Reads)
  BY HeardInFrame, CallsLeft DEF SInv
<1>3. Registers'
  BY <1>1 DEF SInv, Registers
<1>4. CASE pc \in {"idle", "frame_start", "call", "payload", "unlock"}
  <2>1. Wires' /\ Quiet' /\ UNCHANGED <<seen, buf>>
    BY <1>2, <1>4, HardwareRests DEF SInv, Transfer
  <2>2. Transfer'
    BY <1>1, <1>4, <2>1 DEF Transfer
  <2>3. Progress'
    BY <1>1, <2>1, HeardStays DEF SInv, Progress
  <2> QED
    BY <1>3, <2>1, <2>2, <2>3 DEF Rest
<1>5. ASSUME pc \in {"header", "buffer", "reading"}
      PROVE  cs = 0 /\ Heard
  BY <1>5 DEF SInv, Registers, Progress
<1>6. CASE pc = "header"
  <2>1. 0 \in Nat /\ SPI_HEADER_LEN \in Nat
    BY DEF SPI_HEADER_LEN
  <2>2. Wires' /\ Heard' /\ Writing(0, SPI_HEADER_LEN)'
    BY <1>2, <1>5, <1>6, <2>1, HardwareSends DEF SInv, Transfer, Writing
  <2>3. Transfer' /\ Progress'
    BY <1>1, <1>6, <2>2 DEF Transfer, Progress
  <2> QED
    BY <1>3, <2>2, <2>3 DEF Rest
<1>7. CASE pc = "buffer"
  <2>1. PICK first \in Nat, last \in Nat :
          first = Base /\ last = SPI_HEADER_LEN + op.len /\ Writing(first, last)
    BY <1>7 DEF SInv, Transfer
  <2>2. Wires' /\ Heard' /\ Writing(first, last)'
    BY <1>2, <1>5, <1>7, <2>1, HardwareSends DEF SInv, Writing
  <2>3. Base' = Base /\ (SPI_HEADER_LEN + op.len)' = SPI_HEADER_LEN + op.len
    BY <1>1 DEF Base
  <2>4. Transfer' /\ Progress'
    BY <1>1, <1>7, <2>1, <2>2, <2>3 DEF Transfer, Progress
  <2> QED
    BY <1>3, <2>2, <2>4 DEF Rest
<1>8. CASE pc = "reading"
  <2>1. Wires' /\ Heard' /\ Reading'
    BY <1>2, <1>5, <1>8, HardwareReads DEF SInv, Transfer
  <2>2. Transfer' /\ Progress'
    BY <1>1, <1>8, <2>1 DEF Transfer, Progress
  <2> QED
    BY <1>3, <2>1, <2>2 DEF Rest
<1> QED
  BY <1>4, <1>6, <1>7, <1>8 DEF SInv, HInv, Phase

(* The whole invariant holds at first and is kept by every step.            *)
LEMMA SInvInit == Init => SInv
<1> SUFFICES ASSUME Init PROVE SInv
  OBVIOUS
<1>1. /\ <<>> \in Words /\ <<>> \in Seq(ByteSet) /\ <<>> \in Seq(Words) /\ Len(<<>>) = 0
      /\ 0 < ByteBits /\ 0 <= FifoSize
  BY DEF Words, ByteBits, FifoSize
<1>2. MachineOK /\ sm.on = FALSE
  <2>1. sm = [on |-> FALSE, at |-> 0, x |-> 7, y |-> 0, top |-> 8, osr |-> <<>>, isr |-> <<>>]
    <3>1. sm = [Load(<<None(0)>>, read_end, 0, write_bits) EXCEPT !.on = FALSE]
      BY DEF Init
    <3>2. ByteBits * Len(<<None(0)>>) - 1 = 7 /\ StopsAt(read_end) = 8 /\ write_bits = 0
      BY DEF ByteBits, StopsAt, read_end, write_bits
    <3> QED
      BY <3>1, <3>2 DEF Load
  <2>2. 7 \in 0..WordMax /\ 0 \in 0..WordMax
    BY SpiAssumption
  <2> QED
    BY <1>1, <2>1, <2>2 DEF MachineOK, Machines
<1>3. FifosOK /\ DmaOK
  <2>1. txf = <<>> /\ rxf = <<>> /\ txstall = FALSE /\ dma_out = <<>> /\ dma_in = 0 /\ buf = <<>>
    BY DEF Init
  <2>2. 0 \in 0..MaxLen
    BY SpiAssumption
  <2> QED
    BY <1>1, <2>1, <2>2 DEF FifosOK, DmaOK
<1>4. PinsOK /\ ChipOK
  <2>1. clk = 0 /\ mosi = High /\ out_dir = FALSE /\ seen = <<>> /\ miso = Low
    BY DEF Init
  <2>2. PinsOK
    BY <2>1, Levels DEF PinsOK
  <2>3. seen \in Words /\ miso \in BitSet
    BY <1>1, <2>1, Levels
  <2> QED
    BY <2>1, <2>2, <2>3 DEF ChipOK
<1>5. Registers
  BY DEF Init, Registers, SPI_HEADER_LEN
<1>6. Transfer
  BY <1>2 DEF Init, Transfer, Quiet
<1>7. Progress
  BY DEF Init, Progress
<1> QED
  BY <1>2, <1>3, <1>4, <1>5, <1>6, <1>7, HInvInit DEF SInv, Wires

(* No step breaks it.                                                       *)
LEMMA SInvNext == SInv /\ [Next]_vars => SInv'
<1> SUFFICES ASSUME SInv, [Next]_vars PROVE SInv'
  OBVIOUS
<1>1. HInv'
  BY HInvNext DEF SInv
<1>2. CASE wizchip_critical_section_lock
  BY <1>1, <1>2, LockKeeps DEF SInv, Rest
<1>3. CASE Access
  BY <1>1, <1>3, FrameStartKeeps, SaveHeaderKeeps, WriteHeaderKeeps, HeaderWrittenKeeps,
     WriteBufferKeeps, BufferWrittenKeeps, ReadBufferKeeps, BufferReadKeeps, FrameEndKeeps,
     UnlockKeeps DEF Access, SInv, Rest
<1>4. CASE Hardware
  BY <1>1, <1>4, HardwareKeeps DEF SInv, Rest
<1>5. CASE UNCHANGED vars
  <2>1. UNCHANGED <<sem, pc, op, calls, spi_header, spi_header_count, cs, sm, fifos, dma, pins, chip>>
    BY <1>5 DEF vars, cpu
  <2>2. UNCHANGED <<txf, rxf, txstall, dma_out, dma_in, buf, clk, mosi, out_dir, seen, miso>>
    BY <2>1 DEF fifos, dma, pins, chip
  <2>3. Wires' /\ Registers'
    BY <2>1, <2>2 DEF SInv, Wires, MachineOK, FifosOK, DmaOK, PinsOK, ChipOK, Registers
  <2>4. Transfer'
    <3>1. Quiet' <=> Quiet
      BY <2>1, <2>2 DEF Quiet
    <3>2. ASSUME NEW first \in Nat, NEW last \in Nat, NEW p \in Nat, Feeds(first, last, p)
          PROVE  Feeds(first, last, p)'
      BY <2>1, <2>2, <3>2 DEF Feeds, InShift, ToCome, Place, OnPin, FrameByte
    <3>3. ASSUME NEW first \in Nat, NEW last \in Nat, Writing(first, last)
          PROVE  Writing(first, last)'
      BY <2>1, <2>2, <3>2, <3>3 DEF Writing, Sending, Stalled
    <3>4. Reading => Reading'
      <4>1. ASSUME NEW d \in Nat, Receives(d) PROVE Receives(d)'
        BY <2>1, <2>2, <4>1 DEF Receives, AllSent, Delivered, InIsr, Edge, Samples, MemByte, MemBit
      <4>2. 0 \in Nat /\ SPI_HEADER_LEN \in Nat
        BY DEF SPI_HEADER_LEN
      <4> QED
        BY <2>1, <2>2, <3>2, <4>1, <4>2 DEF Reading
    <3>5. 0 \in Nat /\ SPI_HEADER_LEN \in Nat
      BY DEF SPI_HEADER_LEN
    <3> QED
      BY <2>1, <2>2, <3>1, <3>3, <3>4, <3>5 DEF SInv, Transfer, Base
  <2>5. Progress'
    BY <2>1, <2>2, HeardStays DEF SInv, Progress, Clocks
  <2> QED
    BY <1>1, <2>3, <2>4, <2>5 DEF SInv
<1> QED
  BY <1>2, <1>3, <1>4, <1>5 DEF Next, Hardware
-----------------------------------------------------------------------------
(* What the properties ask of an access follows.                            *)

(* Type correctness.                                                        *)
LEMMA SInvTypes == SInv => TypeOK
<1> SUFFICES ASSUME SInv PROVE TypeOK
  OBVIOUS
<1>1. op \in Op /\ op.len \in Nat \ {0} /\ op.len <= MaxLen /\ MaxLen \in Nat
  BY CallsLeft, SpiAssumption DEF SInv
<1>2. sem \in 0..1 /\ cs \in 0..1 /\ Len(spi_header) = SPI_HEADER_LEN
      /\ spi_header_count \in {0, SPI_HEADER_LEN}
  BY DEF SInv, Registers
<1>3. pc \in {"idle", "frame_start", "call", "header", "payload", "buffer", "reading", "unlock"}
  BY DEF SInv, HInv, Phase
<1>4. op.kind \in Reads \cup Writes /\ op.len \in 1..MaxLen
  BY <1>1 DEF Op
<1>5. /\ sm.on \in BOOLEAN /\ sm.at \in 0..(read_end - 1) /\ sm.x \in 0..WordMax
      /\ sm.y \in 0..WordMax /\ Len(sm.osr) < ByteBits /\ Len(sm.isr) < ByteBits
  BY WiresAre DEF SInv, Wires, MachineOK, read_end
<1>6. /\ Len(txf) <= FifoSize /\ Len(rxf) <= FifoSize /\ txstall \in BOOLEAN /\ out_dir \in BOOLEAN
      /\ dma_in \in 0..MaxLen /\ clk \in 0..1
  BY DEF SInv, Wires, FifosOK, DmaOK, PinsOK, ChipOK
<1>7. Len(dma_out) <= SPI_HEADER_LEN + MaxLen
  <2>1. ASSUME NEW first \in Nat, NEW last \in Nat, NEW p \in Nat, Feeds(first, last, p),
               last <= SPI_HEADER_LEN + MaxLen
        PROVE  Len(dma_out) <= SPI_HEADER_LEN + MaxLen
    <3>1. Len(txf) + Len(dma_out) = last - p
      BY <2>1 DEF Feeds, ToCome
    <3>2. Len(txf) \in Nat /\ Len(dma_out) \in Nat
      BY WiresAre DEF SInv
    <3> QED
      BY <1>1, <2>1, <3>1, <3>2 DEF SPI_HEADER_LEN
  <2>2. dma_out = <<>> => Len(dma_out) <= SPI_HEADER_LEN + MaxLen
    BY <1>1 DEF SPI_HEADER_LEN
  <2>3. 0 \in Nat /\ SPI_HEADER_LEN \in Nat /\ SPI_HEADER_LEN <= SPI_HEADER_LEN + MaxLen
        /\ SPI_HEADER_LEN + op.len <= SPI_HEADER_LEN + MaxLen
    BY <1>1 DEF SPI_HEADER_LEN
  <2>4. CASE pc = "header"
    BY <2>1, <2>3, <2>4 DEF SInv, Transfer, Writing, Sending
  <2>5. CASE pc = "buffer"
    BY <2>1, <2>3, <2>5 DEF SInv, Transfer, Writing, Sending
  <2>6. CASE pc = "reading"
    BY <2>1, <2>2, <2>3, <2>6 DEF SInv, Transfer, Reading, Receives, AllSent
  <2> QED
    BY <1>3, <2>2, <2>4, <2>5, <2>6 DEF SInv, Transfer, Quiet
<1>8. \A b \in BitSet : Bit(b)
  BY DEF BitSet, ByteSet, Bit
<1>9. Bit(mosi) /\ Bit(miso) /\ \A i \in 1..Len(seen) : Bit(seen[i])
  <2>1. \A i \in 1..Len(seen) : seen[i] \in BitSet
    BY DEF SInv, Wires, ChipOK, Words
  <2> QED
    BY <1>8, <2>1 DEF SInv, Wires, PinsOK, ChipOK
<1> QED
  BY <1>2, <1>3, <1>4, <1>5, <1>6, <1>7, <1>9 DEF TypeOK

(* The frame of the properties, bit by bit.                                 *)
LEMMA FrameIs ==
  ASSUME op \in Op
  PROVE  /\ Len(Frame(op)) = ByteBits * FrameLen
         /\ \A i \in 1..(ByteBits * FrameLen) : Frame(op)[i] = FrameBit(i)
<1> DEFINE bytes == Header(op) \o (IF op.kind \in Writes THEN Data(op) ELSE <<>>)
<1>1. Len(bytes) = FrameLen /\ FrameLen \in Nat /\ \A j \in 1..FrameLen : bytes[j] = FrameByte(j)
  <2>1. CASE op.kind \in Writes
    <3>1. bytes = Header(op) \o Data(op) /\ FrameLen = SPI_HEADER_LEN + op.len
      BY <2>1 DEF FrameLen
    <3>2. FrameLen \in Nat /\ \A j \in 1..FrameLen : 0 + j = j
      BY <3>1, DataBytes DEF SPI_HEADER_LEN
    <3> QED
      BY <3>1, <3>2, BothBytes
  <2>2. CASE op.kind \notin Writes
    <3>1. <<>> \in Seq(ByteSet) /\ Len(<<>>) = 0
      OBVIOUS
    <3>2. bytes = Header(op) \o <<>> /\ FrameLen = SPI_HEADER_LEN
      BY <2>2 DEF FrameLen
    <3>3. Header(op) \o <<>> = Header(op)
      BY HeaderBytes
    <3>4. FrameLen \in Nat /\ \A j \in 1..FrameLen : 0 + j = j
      BY <3>2 DEF SPI_HEADER_LEN
    <3> QED
      BY <3>2, <3>3, <3>4, HeaderBytes
  <2> QED
    BY <2>1, <2>2
<1>2. Frame(op) = Bits(bytes)
  BY DEF Frame
<1> HIDE DEF bytes
<1>3. Frame(op) = [n \in 1..(ByteBits * FrameLen) |->
                     <<bytes[(n - 1) \div ByteBits + 1], (n - 1) % ByteBits>>]
  BY <1>1, <1>2 DEF Bits
<1>4. ByteBits * FrameLen \in Nat
  BY <1>1 DEF ByteBits
<1>5. \A i \in 1..(ByteBits * FrameLen) : (i - 1) \div ByteBits + 1 \in 1..FrameLen
  BY <1>1 DEF ByteBits
<1> QED
  BY <1>1, <1>3, <1>4, <1>5 DEF FrameBit

(* A transfer clocks no more bits than it has bytes for.                    *)
LEMMA ClocksFit ==
  ASSUME SInv, pc \notin {"idle", "frame_start"}
  PROVE  Len(seen) <= Clocks(op)
<1>1. op.len \in Nat \ {0} /\ Len(seen) \in Nat /\ Len(sm.osr) \in Nat /\ sm.x \in Nat
  BY CallsLeft, WiresAre, SpiAssumption DEF SInv
<1>2. Clocks(op) = 8 * (3 + op.len)
  BY DEF Clocks, ByteBits, SPI_HEADER_LEN
<1>3. ASSUME NEW first \in Nat, NEW last \in Nat, NEW p \in Nat, Feeds(first, last, p),
             last <= 3 + op.len
      PROVE  Len(seen) <= Clocks(op)
  <2>1. sm.at \in {0, 1, 2} /\ p <= last
    BY <1>3 DEF Feeds, Place
  <2>2. Len(seen) <= 8 * last
    BY <1>1, <1>3, <2>1 DEF Feeds, Place, ByteBits
  <2> QED
    BY <1>1, <1>2, <1>3, <2>2
<1>4. ASSUME NEW d \in Nat, Receives(d)
      PROVE  Len(seen) <= Clocks(op)
  <2>1. Edge(d) /\ d <= op.len
    BY <1>4 DEF Receives, Delivered
  <2>2. sm.at \in {0, 3, 4, 5, 6, 7, 8} /\ (sm.at \in 3..7 => d < op.len)
    BY <2>1 DEF Edge
  <2>3. sm.at \in {3, 4, 8} => Len(seen) = 8 * (3 + d) + 0
    BY <2>1 DEF Edge, Samples, ByteBits, SPI_HEADER_LEN
  <2>4. sm.at = 0 => Len(seen) = 8 * (3 + d)
    BY <2>1 DEF Edge, ByteBits, SPI_HEADER_LEN
  <2>5. sm.at \in {5, 6} => Len(seen) = 8 * (3 + d) + (7 - sm.x)
    BY <2>1 DEF Edge, Samples, ByteBits, SPI_HEADER_LEN
  <2>6. sm.at = 7 => Len(seen) = 8 * (3 + d) + 8
    BY <2>1 DEF Edge, Samples, ByteBits, SPI_HEADER_LEN
  <2> QED
    BY <1>1, <1>2, <2>1, <2>2, <2>3, <2>4, <2>5, <2>6
<1>5. 0 \in Nat /\ SPI_HEADER_LEN \in Nat /\ SPI_HEADER_LEN = 3 /\ SPI_HEADER_LEN <= 3 + op.len
      /\ SPI_HEADER_LEN + op.len \in Nat /\ SPI_HEADER_LEN + op.len <= 3 + op.len
  BY <1>1 DEF SPI_HEADER_LEN
<1>6. CASE pc = "call" /\ calls # <<>>
  BY <1>1, <1>2, <1>6 DEF SInv, Progress
<1>7. CASE (pc = "call" /\ calls = <<>>) \/ pc = "unlock"
  BY <1>1, <1>2, <1>7 DEF SInv, Progress
<1>8. CASE pc = "payload"
  <2>1. Len(seen) = ByteBits * SPI_HEADER_LEN
    BY <1>8 DEF SInv, Progress
  <2>2. Len(seen) = 24
    BY <2>1 DEF ByteBits, SPI_HEADER_LEN
  <2> QED
    BY <1>1, <1>2, <2>2
<1>9. CASE pc = "header"
  BY <1>3, <1>5, <1>9 DEF SInv, Transfer, Writing, Sending
<1>10. CASE pc = "buffer"
  BY <1>3, <1>5, <1>10 DEF SInv, Transfer, Writing, Sending
<1>11. CASE pc = "reading"
  BY <1>3, <1>4, <1>5, <1>11 DEF SInv, Transfer, Reading
<1> QED
  BY <1>6, <1>7, <1>8, <1>9, <1>10, <1>11 DEF SInv, HInv, Phase

(* The wire.                                                                *)
LEMMA SInvFrames == SInv => FrameOnTheWire
<1> SUFFICES ASSUME SInv PROVE FrameOnTheWire
  OBVIOUS
<1>1. op \in Op
  BY DEF SInv, HInv
<1>2. ASSUME pc \notin {"idle", "frame_start"}, NEW i \in 1..Len(seen), i <= Len(Frame(op))
      PROVE  seen[i] = Frame(op)[i]
  <2>1. i <= ByteBits * FrameLen /\ seen[i] = FrameBit(i)
    BY <1>1, <1>2, FrameIs DEF SInv, Progress, Heard
  <2>2. i \in 1..(ByteBits * FrameLen)
    BY <2>1
  <2> QED
    BY <1>1, <2>1, <2>2, FrameIs
<1>3. pc = "unlock" => Len(seen) = Clocks(op)
  BY DEF SInv, Progress
<1>4. cs = 1 => clk = 0
  BY DEF SInv, Registers, Transfer, Quiet
<1> QED
  BY <1>2, <1>3, <1>4, ClocksFit DEF FrameOnTheWire

(* The answer.                                                              *)
LEMMA SInvReads == SInv => ReadsWhatTheChipSent
BY DEF SInv, Progress, ReadsWhatTheChipSent
-----------------------------------------------------------------------------
(* The invariant of the wire, in every behaviour.                           *)
LEMMA SInvAlways == Spec => []SInv
<1>1. Init => SInv
  BY SInvInit
<1>2. SInv /\ [Next]_vars => SInv'
  BY SInvNext
<1> QED
  BY <1>1, <1>2, PTL DEF Spec

(* For every length of a buffer: the registers of the state machine stay in *)
(* range, no FIFO takes a fifth entry and no shift register a ninth bit.    *)
THEOREM TypesHold == Spec => []TypeOK
BY SInvAlways, SInvTypes, PTL

(* For every length of a buffer: what the chip is clocked in a frame is the *)
(* header and then the data of the access, though each is a transfer of its *)
(* own; no bit is missing when the frame ends, none is too many, and the    *)
(* clock rests low outside the frames.                                      *)
THEOREM FrameAlwaysOnTheWire == Spec => []FrameOnTheWire
BY SInvAlways, SInvFrames, PTL

(* For every length of a buffer: a read returns the bytes the chip sent for *)
(* this access, all of them, in order, with no bit shifted.                 *)
THEOREM ReadsAreAnswers == Spec => []ReadsWhatTheChipSent
BY SInvAlways, SInvReads, PTL
=============================================================================
