------------------------------ MODULE SpiPioProps ------------------------------
(***************************************************************************)
(* What the accesses to the W5500 promise.                                 *)
(***************************************************************************)
EXTENDS SpiPio

(* What an access has to put on the wire, how many clocks it takes, and    *)
(* what the chip answers to a read.                                        *)
Frame(o) == Bits(Header(o) \o (IF o.kind \in Writes THEN Data(o) ELSE <<>>))
Clocks(o) == ByteBits * (SPI_HEADER_LEN + o.len)
Memory(o) == [i \in 1..o.len |-> Bits(<<Byte("memory", o.turn, i)>>)]

Bytes == {"none", "data", "memory"} \cup Reads \cup Writes
Bit(b) == b[1][1] \in Bytes /\ b[2] \in 0..(ByteBits - 1)

(* Type correctness: the registers stay in range, the FIFOs keep to their  *)
(* four entries and the shift registers to eight bits.                     *)
TypeOK ==
  /\ sem \in 0..1 /\ cs \in 0..1 /\ clk \in 0..1
  /\ pc \in {"idle", "frame_start", "call", "header", "payload", "buffer", "reading", "unlock"}
  /\ op.kind \in Reads \cup Writes /\ op.len \in 1..MaxLen
  /\ Len(spi_header) = SPI_HEADER_LEN /\ spi_header_count \in {0, SPI_HEADER_LEN}
  /\ sm.on \in BOOLEAN /\ sm.at \in 0..(read_end - 1)
  /\ sm.x \in 0..WordMax /\ sm.y \in 0..WordMax
  /\ Len(sm.osr) < ByteBits /\ Len(sm.isr) < ByteBits
  /\ Len(txf) <= FifoSize /\ Len(rxf) <= FifoSize
  /\ txstall \in BOOLEAN /\ out_dir \in BOOLEAN
  /\ dma_in \in 0..MaxLen /\ Len(dma_out) <= SPI_HEADER_LEN + MaxLen
  /\ Bit(mosi) /\ Bit(miso) /\ \A i \in 1..Len(seen) : Bit(seen[i])

(* In every frame the chip is clocked the header and then the data of the  *)
(* access, bit by bit, though the write is two transfers with the state    *)
(* machine restarted between them, and the processor learns of the end of  *)
(* each only by a stall of the state machine; when the frame ends not a bit*)
(* is missing and not a clock is too many.  Outside the frames the clock   *)
(* rests low, though a read leaves its state machine enabled               *)
(* (pio_spi_transfer, wiznet_spi_pio_write_buffer, frame_end).             *)
FrameOnTheWire ==
  /\ pc \notin {"idle", "frame_start"} =>
       /\ \A i \in 1..Len(seen) : i <= Len(Frame(op)) => seen[i] = Frame(op)[i]
       /\ Len(seen) <= Clocks(op)
  /\ pc = "unlock" => Len(seen) = Clocks(op)
  /\ cs = 1 => clk = 0

(* When a read returns, the caller's buffer holds the bytes the chip sent  *)
(* for this access, all of them, in order and with no bit shifted, though  *)
(* the state machine goes on running (pio_spi_transfer).                   *)
ReadsWhatTheChipSent ==
  pc = "unlock" /\ op.kind \in Reads => buf = Memory(op)

(* The header kept for the next call is the one of this access when a read *)
(* uses it, and none is left when the frame ends: a later buffer of three  *)
(* bytes is data after a header and never taken for a header, nor written  *)
(* behind a stale one.  These are the asserts of read_buffer and           *)
(* write_buffer.                                                           *)
HeaderPairing ==
  /\ Calling("read") => spi_header_count = SPI_HEADER_LEN /\ spi_header = Header(op)
  /\ pc \in {"payload", "buffer"} => spi_header_count = 0
  /\ cs = 1 => spi_header_count = 0

(* Every access ends: the wait for the stall, which has no timeout, and    *)
(* those for the two DMA channels are always answered.                     *)
AccessEnds == pc = "frame_start" ~> pc = "idle"
=============================================================================
