# CAN-to-Ethernet converter: specifications, model checks and proofs

This directory is a TLA+ development beside the firmware of a W55RP20 (RP2040
core, W5500 Ethernet chip) that forwards frames of a CAN bus to a TCP peer,
sends frames on its behalf, and lets itself be configured by a web page.
`PROJECT.json` lists components, runs, mutants, hazards, findings and theorems,
and maps every definition to the lines of C it stands for.

Contents: 1 inventory, 2 modules and abstractions, 3 runs, 4 fairness,
5 proofs, 6 findings, 7 what is not modelled, 8 plan.

## 1. Inventory

One program on one core: `main` initializes everything and loops over
`can_to_eth` and the four HTTP sockets. The only interrupt is that of the PIO
block, `can2040_pio_irq_handler`. There are no threads, but the interrupt
preempts the main loop anywhere except where interrupts are disabled (the copy
in `pop_rbuf`, and the whole of a flash write, which takes tens of milliseconds).

| component (source) | state it keeps | operations | interacts with |
|---|---|---|---|
| CAN driver `port/board/can/can.c`, `can.h` | `struct can2040`: parser state and message, `report_state`, `tx_state`, `tx_queue` with push and pull positions | the interrupt handler (rx words, ACKDONE, MATCHED, MAYTX, TXPENDING), `can2040_transmit`, `can2040_check_transmit`, start, stop | PIO registers below; callback `can2040_cb` and `send_can_msg` above |
| PIO state machines, `can.c`, `can.pio` | flags, interrupt mask, fifos, shift register, match key, the state of sync, rx, match, tx | register helpers `pio_*` of `can.c` | the wire; the driver |
| Ring of received frames, `canHandler.c` | `can_rx_rbuf` (2048 slots, two indices, `rx_flag`), `can_filter` | `can2040_cb` and `push_rbuf` (interrupt); `pop_rbuf`, `set_can_filter` (main loop) | reset by the bridge |
| Bridge, `can_to_eth.c` | socket state in the chip, `g_rx_buf`, `g_tx_buf` | `process_tcp_client`, `process_tcp_server`, `can_to_eth` | pops the ring, calls `send_can_msg` |
| Command parser, `can_parser.c`, `send_can_msg` | the saved pointer of `custom_strtok`, and the receive buffer, which it cuts | split a text command into a CAN message | bridge, `can2040_transmit` |
| HTTP server, `httpServer.c`, `httpUtil.c` | per socket: `sock_status`, `file_start`, `file_len`, `file_offset`; one rx and one tx buffer for all | `httpServer_run`, header, body in parts, CGI | chip, request parser, configuration |
| Request parser and device info, `httpParser.c`, `httpHandler.c` | `dev_config` (in place) | `parse_http_request`, `set_devinfo`, `make_json_devinfo` | HTTP server, configuration |
| Configuration store, `configData.c`, `flashHandler.c` | `dev_config` in RAM and one flash sector | load with a size check, save = erase + program | boot, `set_devinfo` |
| SPI access to the chip, `w5x00_spi.c`, `wiznet_spi_pio.c`, `wiznet_spi_pio.pio` | the kept header of three bytes, a semaphore, a PIO state machine with two fifos, two DMA channels | read or write a byte or a buffer, one access at a time | every socket call |
| GPIO interrupt, 1 ms timer | a callback each | never initialized by `main` | none |
| `main.c` | none | start-up order, main loop | everything |

What is hard, by component, and what makes it correct:

* **CAN driver.** The end of one frame is seen by the parser (late, through a
  fifo), by the MATCHED flag and by MAYTX, in any order; each may report the
  frame. `can2040_transmit` and `tx_schedule_transmit` share the queue without
  a lock. Transmissions fail and are tried again. When the handler is kept out,
  the rx fifo overruns and all state machines are restarted in mid-frame; when the
  line is idle for 2^28 bits a counter overflows, and they are restarted as well.
  Correct means: a frame is reported once, in order, only if valid; the echo of
  an own frame is never a received frame; what was acknowledged is delivered;
  the queue is first-in first-out over wrap-around; no wakeup is lost, and every
  accepted message is confirmed in the end, unless a restart has stranded it.
* **Ring.** The interrupt pushes without looking at the pop index, so a lap
  empties the ring; the pop tests outside its critical section; the reset is
  four unprotected steps. Correct means: indices in range, order kept, nothing
  twice, nothing that the filter rejects.
* **HTTP server.** A page is sent in parts over many turns of the main loop,
  with one buffer for four sockets, while clients come and go, and the chip may
  refuse a part without the server noticing. Correct means: a page is sent once, in
  order and to its end, to the client that asked; no page state leaks into another
  request; every request ends.
* **Configuration.** One sector, no second copy, only its size is checked.
  Correct means: the device runs on what is stored; what was answered to have
  been saved survives restart and power failure.
* **Bits of a frame.** Stuff bits fall anywhere in the ten-bit pushes and the
  32-bit words, the crc is taken from a table by bytes, and each chip has its own
  bit functions. Correct means: what is sent is a frame of CAN 2.0, what is
  reported is what was sent, and one wrong bit never gives a wrong message.
* **Bridge and command parser.** Receive comes before send and returns at once;
  the receive buffer is neither cleared nor terminated; the ring is reset when
  the server starts to listen, not when a peer connects; every call of the socket
  library can fail. Correct means: the command that arrived is the one that is
  sent, a peer gets no frames of an earlier connection, nobody starves.
* **SPI access.** A header is kept back until its payload is known, by its length
  alone; a write is two transfers and its end is learned from a stall of the state
  machine; a read leaves the state machine running. Correct means: the chip is
  clocked header and data, not a bit more or less, and the caller gets what the
  chip sent.

## 2. Modules and abstractions

```
CanPio <- Can2040 <- Can2040Props <- MCCan2040          TxFifo (abstract queue)
                                  <- Can2040Proofs <- Can2040QueueProofs
                                                   <- Can2040FrameProofs
                                  Can2040FrameProofs <- Can2040WakeProofs
WireBits <- WireBitsProps <- MCWireBits
RxRing <- RxRingProps <- MCRxRing                       OverrunFifo (abstract ring)
                      <- RxRingProofs
CanParser <- CanToEth <- CanToEthProps <- MCCanToEth    instance of RxRing
                                       <- CanToEthProofs
ConfigStore <- HttpServer <- HttpServerProps <- MCHttpServer
                                             <- HttpServerProofs
SpiPio <- SpiPioProps <- MCSpiPio
                      <- SpiPioProofs
```

`X <- Y` reads "Y extends X". `*Props` holds the properties, `MC*` the small
instances, `*Proofs` the theorems. Definitions have the names of the C functions
they stand for. A definition commented "Mutant" is a plausible bug; it takes
part in no specification, and exists to show that a property would notice it.

### CanPio: the hardware and the wire

`line` is what is on the wire: the phase of the current frame, the list of all
frames with what happened to them (sender, ack, whether bits 6 and 7 of the end
of frame were recessive), and the budgets of the environment. `pio` is the PIO
block: flags `irqs`, enabled set `inte`, rx fifo, shift register `isr`, match
key, the state of "tx" and "sync", and `stall` (rx overran).

* **One token per field.** Bits are in `WireBits`. Here a token stands for all the
  bits the parser consumes in one call: start, header and data, CRC, ack, first
  and last part of the end of frame, and the error, passive and idle patterns.
* **Lag.** "rx" pushes every ten bits, so the end of a field may wait in `isr`
  while the wire goes on. Tokens are sampled into `isr` and moved to `fifo` by
  `Push`, at any time; the guards of the wire steps bound the lag by the number
  of bits between two fields. This is what makes the three ends of a frame race.
* **Restarts.** `pio_sm_setup` runs after an overrun of the rx fifo, and when the line
  has been idle for so long that the counter of "sync" overflows (`CounterWraps`):
  "sync" then samples an idle line, and the word with the 32nd passive bit
  (`LongIdle`) makes `data_state_line_passive` restart the block. The words of "tx"
  stay in their fifo (`pio_tx_setup` does not flush it; `flevel` says whether there are
  any), and so does the address it has stopped at. An overflow at a start of frame
  may also spoil the bit phase of that frame, which is a fault like any other.
* **Match keys** are the frame number and the place in the frame; the C code uses
  the raw bit position, and an overrun makes positions disagree, so nothing
  matches after it until the restart.
* **Other nodes** start frames (also at the same time as this node, winning the
  arbitration), acknowledge or not, disturb any phase with an error flag, send
  overload flags in bits 6 and 7 of the end of frame, or fall silent.
* The padding after an own frame is recessive: at a dominant ack "tx" goes to
  the conflict state or, if the message ended on a word boundary, is drained.
  Which of the two depends on the message, and is chosen freely.

### Can2040: the driver

`cd` is `struct can2040`, `irq` the program counter of the handler, `app` that
of the main loop in `can2040_transmit`, `log` the calls of the callback. A
driver function is an operator on a *world* `[cd, pio, log]`; the actions are
the turns of the handler's loop, so each is one whole C call tree. They are
split only where something else can come in between: `tx_schedule_transmit` at
its reads of `tx_push_pos` and its clearing of TXPENDING, `can2040_transmit` at
its test, copy, submit and wake-up.

* `SameCore = TRUE` is this firmware: the handler preempts the main loop and
  not the other way round. `SameCore = FALSE` lets both run at once, which the
  driver's barriers are made for.
* The wire goes on while the handler runs. After the rx fifo is drained a flag is
  served in less than a bit time, so at most `Slack` wire steps come in between.
* `parse_msg` is the number of the frame the parser reads; MS_HEADER,
  MS_EXT_HEADER, MS_DATA0 and MS_DATA1 are one parser state, HEADER.
* Positions are taken modulo `PosMod` (2^32 in the code).

`TxFifo` is what a caller of `can2040_transmit` is promised. `FifoSpec` in
`Can2040Props` maps driver to queue: the slots from pull to push, the message
under way, and the frames that were confirmed.

### RxRing: the ring and its filter

`can2040_cb` is one step (it is the interrupt). The main loop is split at every
access made with the interrupt enabled: `set_can_filter`, `push_idx = 0`,
`pop_idx = 0`, each half slot of `memset`, `rx_flag = 1`, the test and the copy
of `pop_rbuf`. Connecting and disconnecting are one step each, in the order of
`process_tcp_client` and `process_tcp_server`. A message's data is the number of
its frame, so that order and duplication can be seen; an identifier is the set
of its one bits, so that masking is intersection. `OverrunFifo` is the promise:
a queue that forgets what it holds when a frame comes to a full ring.

### WireBits: the bits of a frame

A word is the set of its one bits, so that shifts and masks are set operations.
Two messages go through `can2040_transmit` (fields, `crc_bytes`, `bitstuff`,
padding), over the line, and through `process_rx` in pushes of ten bits
(`unstuf_*`, every `data_state_update_*`), with the functions of either chip
(`IS_RP2350`). At most one sampled bit is wrong. What the driver does about the
messages, and about the flags of the PIO block, is in `Can2040`, which has the
same parser with one token for a field. The two share no definition: a field is
the level at which the races happen, and a bit the level at which sums are made.

### CanParser and CanToEth: the bridge

`CanParser` has `custom_strtok`, the conversions and `send_can_msg` as functions
of the receive buffer; they return the buffer they leave, since tokens are cut in
place and the next `recv` overwrites only as much as it brings. A number is the
sequence of its hexadecimal digits, which is all that the range checks and the
truncation to a byte need.

`CanToEth` is `process_tcp_server` and `process_tcp_client`. The ring is an
instance of `RxRing`: every step of the bridge that touches it is a step of
that module, so that its theorems apply (section 5). The main loop makes one
call of the socket library, or one access to the ring, per step; peer, chip and
CAN interrupt act in between, and every call can fail. `send` may report
`SOCK_BUSY`, which is not negative, passes for success and loses the frame.
`recv` takes up to `BufSize` characters, the whole of `g_rx_buf`, and neither clears
nor terminates it; a parser that finds no NUL there reads on in what lies behind
(`InMemory`, any of the texts in `Behind`). The working mode is the one loaded at
boot: `set_devinfo.cgi` restarts the device, which is in `HttpServer`. The queue of
the driver appears as the last message handed to `can2040_transmit`: the bridge
ignores its result.

### SpiPio: the way to the chip

The functions of `w5x00_spi.c`, the kept header and the two kinds of transfer of
`wiznet_spi_pio.c`, the nine instructions of `wiznet_spi_pio.pio`, both fifos, both
DMA channels and the chip, each with steps of its own. The values of bytes do not
matter; a bit is the number of its byte, of its place and of the access it belongs
to, so that a lost, repeated, shifted or stale bit is seen. What `pio_spi_transfer`
does while the state machine is off is one step. The calls of the library are
external: header and payload in one buffer, or one after the other.
One timing is assumed: a DMA channel writes a byte in less than the 32 cycles the
state machine takes to send one, so the state machine only stalls at the end
(`OutStalls`). The code relies on it, since it takes the first stall for the end.

### ConfigStore and HttpServer

`ConfigStore` has the copy in RAM, the sector, the progress of `write_flash`, and
a power failure at any point: inside an erase or a program the sector becomes
any mixture of old, new and half-written fields whose size field is old or new
(`Mixtures`). Members of `DevConfig` that the code treats alike are one field.
`set_devinfo` is an operator with the ranges and defaults of the code. Where it
stores `atoi` in a `uint8_t` it does so modulo 256 (`ToByte`): mode 257 is mode 1.

`HttpServer` has the sockets of the chip, `HTTPSock_Status` per socket, and the
main loop. A call of `httpServer_run` is one step except where it waits: for the
transmit buffer to drain, and for the flash. Headers and texts are abstract; a
part of a page is its page, offset and length. A client asks once per connection
(the server hangs up after the first answer); the kinds of request are those
that `parse_http_request` and `http_process_handler` tell apart. The chip's
sockets are external: they are modelled from how the code uses them, and a
connection that ends leaves an empty transmit buffer. While the chip still sends,
`send` may return `SOCK_BUSY` and drop what it was given. The code ignores its result
and advances `file_offset`: `sent` is what `send` was called with, and `busy` the
calls that were refused.

## 3. Runs

| run | bounds | distinct states | shows |
|---|---|---|---|
| `can_faults` | 1 own message, 1 foreign frame (of higher priority), 1 fault of any kind or 1 overflow of the idle counter | 0.91 M | `RxOnceAndValid`, `OwnFrameNotReceived`, `AckedIsDelivered`, `NoLostWakeup`, `EveryMessageConfirmed` |
| `can_queue` | 5 calls of `can2040_transmit` on the other core, 2 slots, positions modulo 4 | 1.00 M | `FifoSpec`, `TypeOK`, `QueueSound`, `WakeupPending` |
| `can_overrun` | 1 own message, 2 foreign frames (same id, other data), 1 rx overrun and its restart, no faults | 2.67 M | `RxOnceAndValid`, `AckedIsDelivered` |
| `bits` | both chips; 256 one-byte frames, 128 ids, lengths 0 to 8, dlc 15, longest runs, most stuff bits; one wrong bit anywhere in 13 of the pairs | 58 k | `TypeOK`, `TransmitsCanFrame`, `ReceivesWhatWasSent`, `PredictsCrcDelimiter` |
| `ring_reconnect` | 3 slots, 8 frames, 2 connections | 0.14 M | `TypeOK`, `DeliveredInOrder`, `FirstConnectionPassesFilter`, `RingIsFifo` |
| `bridge` | either mode, 2 connections, 2 slots, 2 frames, 2 pieces of commands, 19 characters in chip and buffer, 2 texts behind it | 0.83 M | `TypeOK`, `FirstCommandDecidesUnheard`, `FramesOfThisConnection`, `ClearedOnlyByReset`, `Served` |
| `http_pages` | 2 sockets, 3 connections, pages of 3 and 7 bytes in parts of 3, 1 power failure | 1.06 M | `TypeOK`, `FileStateSound`, `PageInParts`, `RunsOnStoredConfig`, `AnsweredIsStored`, `RequestEnds` |
| `spi` | buffers of 1 to 6 bytes, any number of accesses | 74 k | `TypeOK`, `FrameOnTheWire`, `ReadsWhatTheChipSent`, `HeaderPairing`, `AccessEnds` |
| `can_stale_match`, `can_overrun_queued`, `ring_filter`, `http_stale` | see section 6 | | one counterexample each |

Why the bounds are enough to be interesting:

* Two slots and positions modulo four make the queue full and its positions wrap
  with five calls. The driver is uniform in the number of slots.
* The races of the end of a frame are between a frame and its successor: one
  own and two foreign frames give every order of own and foreign neighbours. One
  fault is enough for a retry and for a restart of the parser; every kind of
  fault in every phase is tried. One overrun leads to one restart, before,
  inside or after each frame.
* `FifoCap` 6 tokens is less than two frames: the fifo fills up.
* The frames of `bits` use every entry of the crc table, put stuff bits at every
  place of a push and of a word, including behind the last bit of the crc, and end
  in every bit of a word. One wrong bit moves the destuffer by one from any place.
* Three ring slots are the fewest with a first, a middle and a last one; eight
  frames make two laps. Messages that pass the filter and messages that do not
  alternate in every way.
* In `bridge` the pieces are a command of ten characters that lacks seven bytes and
  its newline, and one of nine with a wrong length. Both fit together into the 19
  cells of the buffer, so that after them a short one, and each command of ten
  characters that the property tries, meets their remains; and they fill it, so that
  the parser looks for the missing bytes in the text behind it. The second connection
  meets what the first left in ring, buffer and chip.
  `FirstCommandDecidesUnheard` is `FirstCommandDecides` in the states before the
  first frame: it depends on the receive buffer alone, whose every value is
  reached there.
* `spi` tries every pair of accesses in a row. Six bytes are more than a fifo
  holds, and three are the length that is taken for a header.
* Page lengths 3 and 7 in parts of 3 are exactly one part, and two parts and a byte:
  either side of the tests for the end of a file, and a third part, which the chip may
  refuse. Every other length is in the proof. Two sockets share the buffers; a third
  connection meets what the first left.

Every run but `spi` has `CHECK_DEADLOCK FALSE`: when the budgets of environment
and main loop are used up and the bus is quiet the system has nothing left to do.
That it does not stop with work undone is what `NoLostWakeup`,
`AckedIsDelivered`, `EveryMessageConfirmed`, `Served` and `RequestEnds` are for.
`spi` never has to stop, and its deadlocks are checked.

Each property of a passing run has a mutant in `PROJECT.json`: a plausible bug in
one definition, under which TLC finds the property violated.

## 4. Fairness

* **Can2040** (`can_faults`). A frame that was started goes on, and sampled bits
  are pushed while it does (the bit clock). An idle line is sensed and an armed
  "tx" starts (PIO programs). The handler runs when an enabled flag is up (the
  interrupt). A call of `can2040_transmit` returns (straight-line code). These
  are weak fairness conditions. Nothing is assumed of other nodes: they may be
  silent for ever, and win an arbitration or fail to acknowledge as often as the
  budget allows. With unbounded rivals a message may starve, as on any CAN bus.
* **CanToEth** (`bridge`). The main loop runs on, and reads when it finds something
  to read (the second is weak fairness of `Recv` with ENABLED written out, since
  what `Recv` does is costly to evaluate). Nothing is assumed of peer, chip and bus.
* **SpiPio** (`spi`). The processor has nothing else to do during an access, and
  state machine and DMA channels are clocked: weak fairness of each.
* **HttpServer** (`http_pages`). The main loop runs on. Whoever was sent something
  acknowledges it, or the chip gives up its retransmissions and closes. The
  second is needed because the code waits for an empty transmit buffer with a
  timeout on `httpServer_tick_1s`, which nothing increments. No client has to
  ask, to finish or to connect.

## 5. Proofs

TLAPS checks the following for every value of the constants, under the named
assumptions `PioAssumption`, `Can2040Assumption`, `RxRingAssumption`,
`ConfigAssumption`, `HttpAssumption`, `CanToEthAssumption`, `SpiAssumption`. They say what the constants are (message
ids and budgets are naturals; `PosMod` is a multiple of `QueueLen` and at least
twice that; a ring has more than one slot; each buffer has room for its contents and
their zero; a register counts further than a transfer has bits).
TLC evaluates them in the runs.

* `Can2040Proofs!TypeCorrect` (`TypeOK`) and `WakeupKept` (`WakeupPending`).
  Inductive invariant `DriverInv`: types; the wire is idle or there is a frame;
  and `HandlerInv`. `WakeupPending` alone is not inductive. TXPENDING is cleared
  when the parser has set a mask without it, or when `pio_sm_setup` restarts the
  block, and a message under confirmation changes both positions and
  `tx_state`. So `HandlerInv` relates parser, reporting and transmit state:
  while a transmission is reported `tx_state` is CONFIRM_TX, nothing is reported
  before the CRC, the mask in each parser state excludes the flags whose service
  would break that, and no step of the parser takes `tx_state` to IDLE or drops
  TXPENDING. Each driver function has a lemma saying what it does to the world;
  each action has a lemma saying that it keeps `DriverInv`.
* `Can2040QueueProofs!QueueKept` (`QueueSound`) and `DriverImplementsFifo` (`FifoSpec`),
  for every queue length, counter width, either value of `SameCore` and any faults.
  `QueueInv` is `DriverInv` with `Sent` and `QueueFits`. A message is confirmed
  because of what the parser, the report and the match key say of a frame, so
  `Sent` relates them: whose frame the parser reads, which slot an own frame was
  taken from, what the key was set for, and which tokens are still on their way.
  `QueueFits` bounds the distance of the positions in modular arithmetic, while
  `can2040_transmit` is between its test and its submit as well. For the
  refinement a turn of the handler is a `Confirm` of the abstract queue or a
  stutter, the advance of the push position its `Submit`, and the rest stutters.
* `Can2040FrameProofs!ReceivedInOrder` (the first half of `RxOnceAndValid`) without any
  condition, and `OnceAndValid` (`RxOnceAndValid`) for all states in which overruns of
  the rx fifo and faults of the bus have not both happened; `ReceivedOnceAndValid` is
  the same for a node without overruns or a bus without faults. `FrameInv` adds to
  `QueueInv`: what is sampled and not parsed yet tells of the frames in the order of
  the wire, nothing of a frame follows the field that ends it, and each field is true
  of its frame (`Tidy`); a frame that is over without having ended will be followed by
  an error flag or a passive line that the parser has still to read (`Told`); the
  parser is never ahead of its words and never waits for a frame it has reported
  (`Follow`, `Reported`); and while the driver waits for an interrupt about the ack or
  the end of a frame, match key, mask, flags and "tx" machine speak of that very frame
  (`Registers`, `Acks`). So the three ways to end a report agree: the parser has read
  the end, MATCHED has seen it, and MAYTX is served only with an empty fifo on an idle
  line, when an error flag, had there been one, would have been read.
  Where both have happened, validity is false: an overrun may lose the words behind an
  ack, and with them the error flag; the parser is still in RX_EOF when the line
  falls idle, and MAYTX reports a frame that was disturbed after its ack.
* `Can2040WakeProofs!ParserInStep` (the parser keeps step with the wire until the
  PIO block is restarted), and on it the three promises of the driver that relate
  parser, masks, "tx" machine and wire. `Unbroken` says that neither an overrun nor an
  overflow of the idle counter has happened so far; the handler may be as late as it
  likes and the bus as faulty. The invariants are layers:
  `FlowInv` adds to `FrameInv` that rx fifo and shift register hold the fields of the
  wire without a gap, `LockInv` that these lead on from the state of the parser to where
  the wire is, `PendInv` that TXPENDING is up for a message under way, `HandInv` who
  holds the message, `WakeInv` that the mask of each parser state contains a flag that
  will be raised. Each step of the driver has its effect on parser, mask and flags
  stated once (`Moves`), so that a layer argues about a dozen kinds of step.
  * `WakeupNeverLost` and, with `Overruns = 0` and `Wraps = 0`, `NoWakeupLost` (`NoLostWakeup`). On a quiet
    bus every word is read, so the parser is where the end of the last frame leads; its
    mask then has MAYTX or TXPENDING, which a waiting message and an idle line raise, so
    the handler would not be at rest unless "tx" was armed. The restart after an overrun
    breaks this (`can_overrun_queued`), and so does the one after an overflow of the
    idle counter, so the condition is needed.
  * `AcksDelivered` (`AckedIsDelivered`), until the idle counter overflows: `DeliverInv` adds that a
    frame this node drives the ack of is delivered or being reported, until it is seen
    to be broken. An overrun, which alone could lose it, stays visible in `stall` until
    the parser notes it in `log.err`.
  * `OwnNotReceived` and, with `Overruns = 0` and `Wraps = 0`, `NoOwnReceived` (`OwnFrameNotReceived`), for
    `Slack <= 5` and `PeerMsgs \cap AppMsgs = {}`. An ack asked for too late would be
    injected into the next frame, this node's own. `EchoInv` counts what must happen
    between the moment the handler decides for an ack and the ack bit of an own frame:
    the rest of the received frame, the idle line, MAYTX, the start of the frame and its
    first field each cost a step of the wire (`Prompt`). A flag is served in less than a bit
    time, and the runs allow two steps; TLC finds no violation at seven steps and one at
    nine, so some bound is necessary. The second condition is CAN's rule that two nodes
    never send the same data frame (section 7, "Equal frames"); all runs of the driver
    satisfy it.
* `RxRingProofs!TypeCorrect` (`TypeOK`), `OrderKept` (`DeliveredInOrder`) and
  `FirstConnectionFiltered` (`FirstConnectionPassesFilter`). `OrderInv` adds that
  the slots between pop and push index hold increasing frame numbers, all later
  than what was delivered, where cleared slots do not count; `FilterInv` that the
  ring is untouched while `rx_flag` is down, which during the first connection it
  is until the reset is over. Both hold for every ring size, through laps.
* `RxRingProofs!RingImplementsFifo` (`RingIsFifo`): the ring implements `OverrunFifo`
  during the first connection. The abstract queue is what lies from the pop to the
  push index. `FifoInv` adds to `OrderInv` that all slots around the array are in
  the order of their frames, the unused ones first, and that the slot to be popped
  is newer than the last one popped. A push appends, or finds the queue full and
  takes the place of all it held; a pop takes the head; the rest stutters.
* `CanToEthProofs!OrderInBridge`: in the bridge frames are popped in order and none
  twice. Each step of the bridge is a step of the ring or leaves it alone (by the
  way `CanToEth` is written; lemma `UsesRing`), so what is proved of `RxRing` holds.
  `NoOldFrames` (`FramesOfThisConnection`) needs `FreshInv`: `memset` leaves
  behind it only messages that were cleared or came after `mark`, and so does the
  interrupt, so that after the reset every slot of the ring is of that kind.
* `CanToEthProofs!ClearedAreCounted` (`ClearedOnlyByReset`). `ClearInv` counts: the cleared
  slots that a pop can still reach, the cleared message about to be sent and the
  ones sent are together no more than the frames that came since the reset began.
  `memset` clears a slot that can be popped only if a frame was put there since the
  indices went back to zero, and a later frame overwrites a slot or adds one that is
  not cleared.
* `SpiPioProofs!HeaderPaired` (`HeaderPairing`) for every length of a buffer. `HInv`
  ties the program counter and the calls still to be made to the kept header.
  It is `IsHeader`'s second conjunct that makes a buffer of three bytes data.
* `SpiPioProofs!TypesHold` (`TypeOK`), `FrameAlwaysOnTheWire` (`FrameOnTheWire`) and
  `ReadsAreAnswers` (`ReadsWhatTheChipSent`), for every length of a buffer and depth of
  a fifo. `SInv` adds to `HInv`: the levels of the wires at each instruction (`Wires`),
  what the registers of the state machine hold (`Registers`), that what the DMA has
  still to write, the fifo, the shift register and the bits the chip has seen add up to
  the frame, in order, and likewise for what it sends (`Transfer`), and where in a
  transfer the processor can be (`Progress`). Between transfers the block is quiet
  with both fifos empty, and a stall means that the last bit is out, so that no
  bit of one access is left over for the next.
* `HttpServerProofs!RunsOnStored` (`RunsOnStoredConfig`) and `AnsweredStays`
  (`AnsweredIsStored`). `ConfigInv` adds that a copy with an acceptable size has
  its settings in range or is a known mixture, that the store is busy only while
  the main loop waits for it, and that nothing counts as answered while it is.
* `HttpServerProofs!FileStateKept` (`FileStateSound`), `PagesInParts` (`PageInParts`) and
  `HttpTypeCorrect` (`TypeOK`), for all pages, lengths, buffer sizes and numbers of
  sockets. `PageInv` adds to the types how a socket's page state hangs together
  with what the client was sent (`Linked`), that nothing was sent where nothing was
  asked (`Unsent`), and that the socket that waits for the flash was not asked for a
  page (`SetKept`). The lemmas `BodyFirst` and `BodyNext` say what one part does,
  `FollowsOn` that it begins where the last ended, `OneSocket` that sockets do not
  disturb each other though they share the buffers. `BusyInv` says that the chip is
  idle when the header and the second part of a page are handed to it, and so cannot
  refuse them.

Only model-checked: the properties of the bits and the types of
`WireBits` (recursive functions over data, out of the prover's reach for want of
induction); `FirstCommandDecides` and the types of the bridge, which rest on what `atoi`
and the cutting of a buffer into tokens yield, recursive over characters as well; and
all liveness properties, which are out of its reach in any case.

## 6. Findings

Each is the counterexample of one run; `PROJECT.json` has the lines.

* `can_stale_match`. MATCHED of a received frame that this node acknowledged may
  be served after the parser has reported that frame and the next own frame has
  enabled it: the own frame is confirmed before its ack was seen, and is not
  tried again when it then fails.
* `can_overrun_queued`. The restart after an overrun turns "tx" off and leaves
  `tx_state` at QUEUED. With a frame right behind, or with the words of the message
  still in the tx fifo, `pio_tx_did_fail` says no, and nobody holds the message on an
  idle line until there is other traffic. An overrun is not needed: the restart after
  an overflow of the idle counter (`can.c:1073`) does the same to a message that is
  queued at that moment. `Stranded` is this state; `NoLostWakeup` and
  `EveryMessageConfirmed` say that there is no other way for a message to be stuck.
* `ring_filter`. `rx_flag` stays set from the second connection on, so a frame that
  comes inside the reset is cleared by `memset` and delivered as a message with
  id 0, which the configured filter rejects.
* `http_stale`. A client that leaves in the middle of a page leaves
  `sock_status`, `file_len` and `file_offset`; the next client of the socket gets
  the rest of that page without having asked.

## 7. Not modelled

* **The phase of the bit clock** (state machine "sync"): `WireBits` begins with
  sampled bits. The delays of the PIO programs are in the guards of `CanPio`.
* **What lies behind `g_rx_buf`** is read by the model but not written: a NUL that
  `custom_strtok` puts there, and what that does, is up to the linker.
* **A part of a page that the chip refused**: no property promises that it arrives,
  since the code does not send it again.
* **Equal frames.** A frame of another node that equals the head of the queue is
  taken for this node's own, since it is recognized by its content. CAN forbids two
  senders of one data frame, so no property is stated; remote frames may be equal.
* **`can2040_stop`, `can_restart`, `can2040_get_statistics`, `getInputString`,
  `string_to_hex64`, `reset_eth`, `httpServer_time_handler`, `erase_flash_sector`,
  `set_DevConfig_value`, `wizchip_1ms_timer_initialize`**: no caller.
* **`main`'s endless loop** on an error of `can_to_eth` is never reached, since
  `can_to_eth` always returns 0.
* **The local port `any_port`** of the TCP client: the model's socket has no number.
* **The search for parameters** in the text of a request: the page sends all of
  them in one order, in which the search for "ip" finds the first one.
* **Claiming and closing** in `wiznet_spi_pio.c`, the reset pulse and the checks of
  version and link at start-up: hardware set-up, before the first access.
* **GPIO interrupt and timer**: not initialized by the program.
* **Texts of headers, pages and JSON; clock set-up; the web page, the viewer,
  build files, vendored headers**: no control state of the device.

## 8. Plan

In order, and why:

1. *Done:* `CanPio`, `Can2040` and `TxFifo` (most of the program's concurrency), and
   `WireBits` (its arithmetic).
2. *Done:* `RxRing`, `OverrunFifo` (shared by interrupt and main loop), and `CanToEth`
   with `CanParser` on top of them.
3. *Done:* `ConfigStore`, `HttpServer` (state across turns, crash recovery).
4. *Done:* `SpiPio` (the protocol below every socket call).
5. *Done:* proofs of `QueueSound`, of `FifoSpec`, of the properties of the SPI access, of
   `ClearedOnlyByReset` and of `RxOnceAndValid`.
6. *Done:* proofs of `NoLostWakeup`, `AckedIsDelivered` and `OwnFrameNotReceived`
   (`Can2040WakeProofs`). The first two need no bound on `Slack`, the third does.
7. Left: what only TLC checks (section 5). The bits and the text parser wait for a
   prover that can do induction over data. `OwnFrameNotReceived` is proved up to a
   `Slack` of 5 and known to fail at 9; what lies between was not worth a finer count.
