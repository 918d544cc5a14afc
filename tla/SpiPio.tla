-------------------------------- MODULE SpiPio --------------------------------
(***************************************************************************)
(* How the firmware reaches the W5500: the functions that w5x00_spi.c      *)
(* registers with the WIZnet library, the buffered header and the          *)
(* transfers of wiznet_spi_pio.c, the state machine that runs              *)
(* wiznet_spi_pio.pio, its two DMA channels, and the chip.                 *)
(*                                                                         *)
(* The processor, the state machine and each DMA channel take steps of     *)
(* their own.  Bytes are values without content and a bit is a byte with   *)
(* a number: what matters is which bit is on the wire at which edge.       *)
(***************************************************************************)
EXTENDS Integers, Sequences

CONSTANTS
  MaxLen,     (* bound: bytes of a buffer the library reads or writes       *)
  WordMax     (* an x or y register of all ones, 2^32 - 1                   *)

ASSUME SpiAssumption ==
  /\ MaxLen \in Nat \ {0}
  /\ WordMax \in Nat /\ WordMax > 8 * (MaxLen + 4)

SPI_HEADER_LEN == 3
FifoSize == 4          (* entries of each PIO FIFO *)
ByteBits == 8          (* threshold of autopull and autopush *)

VARIABLES
  sem,         (* count of wizchip_critical_sem                             *)
  pc,          (* where the processor is                                    *)
  op, calls,   (* the access under way; its burst calls still to be made    *)
  spi_header, spi_header_count,
  cs,          (* the level of the chip select pin: 1 outside a frame       *)
  sm,          (* the state machine                                         *)
  txf, rxf,    (* its FIFOs                                                 *)
  txstall,     (* its TXSTALL bit in fdebug                                 *)
  dma_out,     (* what the one DMA channel has still to write to txf        *)
  dma_in,      (* number of bytes the other has still to read from rxf      *)
  buf,         (* the caller's buffer, as far as it is filled               *)
  clk, mosi,   (* the level of the clock pin, the bit on the data pin       *)
  out_dir,     (* whether the state machine drives the data pin             *)
  seen, miso   (* the chip: bits clocked in during this frame, its answer   *)

cpu == <<sem, pc, op, calls, spi_header, spi_header_count>>
fifos == <<txf, rxf, txstall>>
dma == <<dma_out, dma_in, buf>>
pins == <<clk, mosi, out_dir>>
chip == <<seen, miso>>
vars == <<cpu, cs, sm, fifos, dma, pins, chip>>
-----------------------------------------------------------------------------
(* Bytes and bits.  turn tells the bytes of an access from those of the    *)
(* one before it.                                                          *)

Byte(kind, turn, i) == <<kind, turn, i>>
Header(o) == [i \in 1..SPI_HEADER_LEN |-> Byte(o.kind, o.turn, i)]
Data(o) == [i \in 1..o.len |-> Byte("data", o.turn, i)]

Bits(bytes) ==
  [n \in 1..(ByteBits * Len(bytes)) |->
     <<bytes[(n - 1) \div ByteBits + 1], (n - 1) % ByteBits>>]

None(i) == Byte("none", 0, i)
Low == <<None(0), 0>>
High == <<None(1), 0>>
Floating == <<None(2), 0>>

Reads == {"read_byte", "read_buffer"}
Writes == {"write_byte", "write_buffer"}

Down(word) == IF word = 0 THEN WordMax ELSE word - 1
-----------------------------------------------------------------------------
(* The program.  An address is an index of its nine instructions.          *)

write_bits == 0
write_end == 3
read_end == 9
StopsAt(end) == end - 1    (* pio_sm_set_wrap *)

After(here) == IF here = sm.top THEN write_bits ELSE here + 1

(* The chip follows the clock: it takes a bit at a rising edge, and at a   *)
(* falling one puts out the next bit of what it was asked for.             *)
Rise ==
  /\ clk' = 1
  /\ seen' = IF cs = 0 /\ clk = 0
               THEN Append(seen, IF out_dir THEN mosi ELSE Floating) ELSE seen
  /\ UNCHANGED miso

HeaderBits == ByteBits * SPI_HEADER_LEN

Answer ==
  LET control == seen[HeaderBits][1]
      n == Len(seen) - HeaderBits
  IN IF cs = 0 /\ n >= 0 /\ control[1] \in Reads
       THEN <<Byte("memory", control[2], n \div ByteBits + 1), n % ByteBits>> ELSE Low

Fall ==
  /\ clk' = 0
  /\ miso' = IF clk = 1 THEN Answer ELSE miso
  /\ UNCHANGED seen

At(here) == sm.on /\ sm.at = here

(* out pins, 1 side 0: a new byte is pulled when the last one is used up.  *)
Shift(osr) ==
  /\ sm' = [sm EXCEPT !.at = After(write_bits), !.osr = Tail(osr)]
  /\ mosi' = Head(osr)

OutPins ==
  /\ At(write_bits)
  /\ \/ sm.osr # <<>> /\ Shift(sm.osr) /\ UNCHANGED txf
     \/ /\ sm.osr = <<>> /\ txf # <<>>
        /\ Shift(Bits(<<Head(txf)>>)) /\ txf' = Tail(txf)
  /\ Fall
  /\ UNCHANGED <<cpu, cs, rxf, txstall, dma, out_dir>>

(* It stalls on an empty FIFO.  The DMA writes a byte in a few cycles and  *)
(* the state machine takes 32 for one: it never waits for the DMA.         *)
OutStalls ==
  /\ At(write_bits) /\ sm.osr = <<>> /\ txf = <<>> /\ dma_out = <<>>
  /\ txstall' = TRUE
  /\ Fall
  /\ UNCHANGED <<cpu, cs, sm, txf, rxf, dma, mosi, out_dir>>

JmpX(here, target) ==
  /\ At(here)
  /\ sm' = [sm EXCEPT !.at = IF sm.x # 0 THEN target ELSE After(here), !.x = Down(sm.x)]
  /\ Rise
  /\ UNCHANGED <<cpu, cs, fifos, dma, mosi, out_dir>>

SetPins ==
  /\ At(2)
  /\ sm' = [sm EXCEPT !.at = After(2)]
  /\ mosi' = Low
  /\ Fall
  /\ UNCHANGED <<cpu, cs, fifos, dma, out_dir>>

SetPindirs ==
  /\ At(3)
  /\ sm' = [sm EXCEPT !.at = After(3)]
  /\ out_dir' = FALSE
  /\ Fall
  /\ UNCHANGED <<cpu, cs, fifos, dma, mosi>>

SetX ==
  /\ At(4)
  /\ sm' = [sm EXCEPT !.at = After(4), !.x = 6]
  /\ Rise
  /\ UNCHANGED <<cpu, cs, fifos, dma, mosi, out_dir>>

(* in pins, 1 side 0: the bit is sampled as the clock falls, before the    *)
(* chip puts out the next one; eight bits are pushed as a byte.            *)
(* Mutant: autopush is off.                                                *)
InPins_unpushed(here) ==
  /\ At(here)
  /\ sm' = [sm EXCEPT !.at = After(here), !.isr = Append(sm.isr, miso)]
  /\ Fall
  /\ UNCHANGED <<cpu, cs, fifos, dma, mosi, out_dir>>

InPins(here) ==
  LET isr == Append(sm.isr, miso)
      full == Len(isr) = ByteBits
  IN /\ At(here)
     /\ full => Len(rxf) < FifoSize
     /\ sm' = [sm EXCEPT !.at = After(here), !.isr = IF full THEN <<>> ELSE isr]
     /\ rxf' = IF full THEN Append(rxf, isr) ELSE rxf
     /\ Fall
     /\ UNCHANGED <<cpu, cs, txf, txstall, dma, mosi, out_dir>>

JmpY ==
  /\ At(8)
  /\ sm' = [sm EXCEPT !.at = IF sm.y # 0 THEN 4 ELSE After(8), !.y = Down(sm.y)]
  /\ Fall
  /\ UNCHANGED <<cpu, cs, fifos, dma, mosi, out_dir>>

Program ==
  \/ OutPins \/ OutStalls \/ JmpX(1, write_bits) \/ SetPins
  \/ SetPindirs \/ SetX \/ InPins(5) \/ JmpX(6, 5) \/ InPins(7) \/ JmpY

DmaOut ==
  /\ dma_out # <<>> /\ Len(txf) < FifoSize
  /\ txf' = Append(txf, Head(dma_out)) /\ dma_out' = Tail(dma_out)
  /\ UNCHANGED <<cpu, cs, sm, rxf, txstall, dma_in, buf, pins, chip>>

DmaIn ==
  /\ dma_in > 0 /\ rxf # <<>>
  /\ rxf' = Tail(rxf) /\ buf' = Append(buf, Head(rxf)) /\ dma_in' = dma_in - 1
  /\ UNCHANGED <<cpu, cs, sm, txf, txstall, dma_out, pins, chip>>
-----------------------------------------------------------------------------
(* The transfers (pio_spi_transfer).  While the state machine is off       *)
(* nothing but the DMA moves: all up to the write that turns it on is one  *)
(* step.                                                                   *)

Load(bytes, end, y, at) ==
  [on |-> TRUE, at |-> at, x |-> ByteBits * Len(bytes) - 1, y |-> y,
   top |-> StopsAt(end), osr |-> <<>>, isr |-> <<>>]

(* Mutant: TXSTALL is left as the last transfer set it.                    *)
StartTx_stale(bytes) ==
  /\ sm' = Load(bytes, write_end, Len(bytes) - 1, write_bits)
  /\ txf' = <<>> /\ rxf' = <<>>
  /\ mosi' = Low /\ out_dir' = TRUE
  /\ dma_out' = bytes
  /\ Fall
  /\ UNCHANGED <<cs, txstall, dma_in, buf>>

StartTx(bytes) ==
  /\ sm' = Load(bytes, write_end, Len(bytes) - 1, write_bits)
  /\ txf' = <<>> /\ rxf' = <<>>
  /\ txstall' = FALSE
  /\ mosi' = Low /\ out_dir' = TRUE
  /\ dma_out' = bytes
  /\ Fall
  /\ UNCHANGED <<cs, dma_in, buf>>

(* Mutant: the wrap of the other branch.                                   *)
StartTxRx_writes(bytes, rx_length) ==
  /\ sm' = Load(bytes, write_end, rx_length - 1, write_bits)
  /\ txf' = <<>> /\ rxf' = <<>>
  /\ out_dir' = TRUE
  /\ dma_out' = bytes /\ dma_in' = rx_length /\ buf' = <<>>
  /\ Fall
  /\ UNCHANGED <<cs, txstall, mosi>>

StartTxRx(bytes, rx_length) ==
  /\ sm' = Load(bytes, read_end, rx_length - 1, write_bits)
  /\ txf' = <<>> /\ rxf' = <<>>
  /\ out_dir' = TRUE
  /\ dma_out' = bytes /\ dma_in' = rx_length /\ buf' = <<>>
  /\ Fall
  /\ UNCHANGED <<cs, txstall, mosi>>

(* while (!(fdebug & fDebugTxStall)), and what follows it.                 *)
TxDone ==
  /\ txstall
  /\ sm' = [sm EXCEPT !.on = FALSE]
  /\ mosi' = Low
  /\ Fall
  /\ UNCHANGED <<cs, fifos, dma, out_dir>>

(* Both channels have finished.  The state machine stays enabled.          *)
(* Mutant: only the first is waited for.                                   *)
RxDone_early ==
  /\ dma_out = <<>>
  /\ mosi' = Low
  /\ Fall
  /\ UNCHANGED <<cs, sm, fifos, dma, out_dir>>

RxDone ==
  /\ dma_out = <<>> /\ dma_in = 0
  /\ mosi' = Low
  /\ Fall
  /\ UNCHANGED <<cs, sm, fifos, dma, out_dir>>
-----------------------------------------------------------------------------
(* The calls of the library.                                               *)

Still == UNCHANGED <<cs, sm, fifos, dma, pins, chip>>
Call(f, bytes) == [f |-> f, bytes |-> bytes]

CallsOf(o) ==
  CASE o.kind = "write_byte" -> <<Call("write", Header(o) \o Data(o))>>
    [] o.kind = "write_buffer" -> <<Call("write", Header(o)), Call("write", Data(o))>>
    [] o.kind \in Reads -> <<Call("write", Header(o)), Call("read", <<>>)>>

wizchip_critical_section_lock ==
  /\ pc = "idle" /\ sem > 0
  /\ sem' = sem - 1
  /\ \E kind \in Reads \cup Writes, len \in 1..MaxLen :
       /\ kind \in {"read_byte", "write_byte"} => len = 1
       /\ op' = [kind |-> kind, len |-> len, turn |-> 1 - op.turn]
  /\ calls' = CallsOf(op')
  /\ pc' = "frame_start"
  /\ UNCHANGED <<spi_header, spi_header_count>>
  /\ Still

wiznet_spi_pio_frame_start ==
  /\ pc = "frame_start"
  /\ cs' = 0 /\ seen' = <<>>
  /\ pc' = "call"
  /\ UNCHANGED <<sem, op, calls, spi_header, spi_header_count, sm, fifos, dma, pins, miso>>

Buffer == Head(calls).bytes
Calling(f) == pc = "call" /\ calls # <<>> /\ Head(calls).f = f

(* wiznet_spi_pio_write_buffer keeps a header for the next call ...        *)
IsHeader == Len(Buffer) = SPI_HEADER_LEN /\ spi_header_count = 0

SaveHeader ==
  /\ Calling("write") /\ IsHeader
  /\ spi_header' = SubSeq(Buffer, 1, SPI_HEADER_LEN) /\ spi_header_count' = SPI_HEADER_LEN
  /\ calls' = Tail(calls)
  /\ UNCHANGED <<sem, pc, op>>
  /\ Still

(* ... writes the one it kept ...                                          *)
WriteHeader ==
  /\ Calling("write") /\ ~IsHeader /\ spi_header_count = SPI_HEADER_LEN
  /\ StartTx(spi_header)
  /\ pc' = "header"
  /\ UNCHANGED <<sem, op, calls, spi_header, spi_header_count>>

HeaderWritten ==
  /\ pc = "header"
  /\ TxDone
  /\ spi_header_count' = 0
  /\ pc' = "payload"
  /\ UNCHANGED <<sem, op, calls, spi_header>>

(* ... and then the buffer.                                                *)
WriteBuffer ==
  /\ \/ pc = "payload"
     \/ Calling("write") /\ ~IsHeader /\ spi_header_count # SPI_HEADER_LEN
  /\ StartTx(Buffer)
  /\ pc' = "buffer"
  /\ UNCHANGED <<sem, op, calls, spi_header, spi_header_count>>

BufferWritten ==
  /\ pc = "buffer"
  /\ TxDone
  /\ calls' = Tail(calls) /\ pc' = "call"
  /\ UNCHANGED <<sem, op, spi_header, spi_header_count>>

(* wiznet_spi_pio_read_buffer, and read_byte with a length of one.         *)
ReadBuffer ==
  /\ Calling("read")
  /\ StartTxRx(SubSeq(spi_header, 1, spi_header_count), op.len)
  /\ pc' = "reading"
  /\ UNCHANGED <<sem, op, calls, spi_header, spi_header_count>>

(* Mutant: the header stays.                                               *)
BufferRead_kept ==
  /\ pc = "reading"
  /\ RxDone
  /\ calls' = Tail(calls) /\ pc' = "call"
  /\ UNCHANGED <<sem, op, spi_header, spi_header_count>>

BufferRead ==
  /\ pc = "reading"
  /\ RxDone
  /\ spi_header_count' = 0
  /\ calls' = Tail(calls) /\ pc' = "call"
  /\ UNCHANGED <<sem, op, spi_header>>

wiznet_spi_pio_frame_end ==
  /\ pc = "call" /\ calls = <<>>
  /\ cs' = 1
  /\ pc' = "unlock"
  /\ UNCHANGED <<sem, op, calls, spi_header, spi_header_count, sm, fifos, dma, pins, chip>>

wizchip_critical_section_unlock ==
  /\ pc = "unlock"
  /\ sem' = sem + 1
  /\ pc' = "idle"
  /\ UNCHANGED <<op, calls, spi_header, spi_header_count>>
  /\ Still
-----------------------------------------------------------------------------
(* After wiznet_spi_pio_open, wizchip_cris_initialize and the frame_end of *)
(* wizchip_initialize.                                                     *)
Init ==
  /\ sem = 1 /\ pc = "idle" /\ calls = <<>>
  /\ op = [kind |-> "read_byte", len |-> 1, turn |-> 0]
  /\ spi_header = <<None(0), None(0), None(0)>> /\ spi_header_count = 0
  /\ cs = 1
  /\ sm = [Load(<<None(0)>>, read_end, 0, write_bits) EXCEPT !.on = FALSE]
  /\ txf = <<>> /\ rxf = <<>> /\ txstall = FALSE
  /\ dma_out = <<>> /\ dma_in = 0 /\ buf = <<>>
  /\ clk = 0 /\ mosi = High /\ out_dir = FALSE
  /\ seen = <<>> /\ miso = Low

Access ==
  \/ wiznet_spi_pio_frame_start
  \/ SaveHeader \/ WriteHeader \/ HeaderWritten \/ WriteBuffer \/ BufferWritten
  \/ ReadBuffer \/ BufferRead
  \/ wiznet_spi_pio_frame_end \/ wizchip_critical_section_unlock

Next == wizchip_critical_section_lock \/ Access \/ Program \/ DmaOut \/ DmaIn

Spec == Init /\ [][Next]_vars

(* The processor does nothing else meanwhile, and the hardware runs.       *)
Fairness == WF_vars(Access) /\ WF_vars(Program) /\ WF_vars(DmaOut) /\ WF_vars(DmaIn)
FairSpec == Spec /\ Fairness
=============================================================================
