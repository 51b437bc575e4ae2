# White Rabbit RF distribution demo: TLA+ models and proofs

The repository is the gateware (VHDL and Verilog) and host software of a demo in
which a master node measures a radio frequency with a DDS locked to it and sends
the tuning words, time-stamped, over White Rabbit Ethernet; slave nodes replay
them with a fixed delay. This directory holds TLA+ models of its streaming core,
`src/rtl/streamers`, through which every sample goes, of the way of a sample
from the master's clock to the slave's output, and of the host software that
configures the cards, loads their processors, and closes the control loop; the
TLC runs that check them; and TLAPS proofs. `PROJECT.json` lists the components, the runs, the
mutants, the source lines behind every definition, the findings, the hazards and
the theorems.

## 1. The system

| Part | State | Operations | Talks to |
|---|---|---|---|
| Dropping buffer, `dropping_buffer.vhd` | write, read and boundary pointers, memory, delayed empty flag | store a word, accept or drop the words since the last accept, read | written by the receive streamer, read by the user |
| Escape inserter and detector, `gc_escape_*.vhd` | two-state machines, the word owed after an escape code | turn words marked as control into `0xcafe` + word, and back | between the streamers' state machines and the fabric |
| Transmit streamer, `xtx_streamer.vhd` | transmit buffer, count of blocks, timeout counter, flush latch, frame state machine, CRC controls | collect data words, cut them into subframes and frames | user, escape inserter, fabric source |
| Receive streamer, `xrx_streamer.vhd` | header filter, sequence number, packing registers, buffer controls | unpack frames, accept or drop each subframe by its CRC | fabric sink, detector, dropping buffer |
| DDS transmit path, `dds_tx_path.vhd` | snapshot of a sample (reference clock), block state machine (system clock) | one block of four words a sample | DDS, transmit streamer |
| DDS receive path, `dds_rx_path.vhd` | block parser, clock-crossing FIFO, delay adder, comparator, drive state machine | apply each sample at its time plus the delay | receive streamer, DDS |
| Time stamp adder and comparator | pipelines of 4 and 2 stages | sum, compare | DDS receive path |
| PI controller, ADC and SPI interfaces, DAC serializer and arbiter, PLL sequencer, reset generator | registers and small state machines | control loop, serial transfers | DDS core, top level |
| DDS data path | phase accumulators, tables | sample synthesis | DDS core |
| Board access library, `software/speclib` | open card, its mapped areas | find and map a card, configure its FPGA (`spec-fwloader`), load its processor (`spec-cl`), terminal on its UART (`spec-vuart`) | the driver's files, the card's registers |
| Host software, `rf-lib.c`, `rf-test.c` | registers, GPIO pins and chips of two boards | bring the boards into slave and master mode, bit-bang three chips | register block, board access library |
| Filters and control loop, `filters.c`, `rf-lib.c:492-515` | delay ring, low-pass output, two FIFOs of the gateware | low-pass, FIR filter, limit, tuning word | phase detector FIFO, tuning FIFO |
| Generator model in C, `c/dds-test.c` | phase accumulator | interpolate and round a sample | none |

Not part of the repository, used by it and modelled from that use: the fabric
source and sink, the synchronous FIFO, the CRC generator. Generated files
(register block, CIC filter, tables), the vendored gn4124 model, simulation
scripts and constraint files are left aside.

What is hard here: signals are answered a cycle later than they are asked for
(every `dreq`), stalls can fall in any cycle, the receiver must forget words it
has stored already when a CRC is wrong, accept and drop come on different
pipeline delays, frames are cut and damaged, timeouts are one-cycle pulses, and
counters and pointers wrap. On the host, programs that share a card meet only in
its registers, nothing locks it, waits have no time-out, and a program may be
killed between any two register accesses and started again on the card as it
is. The hazard list in `PROJECT.json` names them by line.

What makes each part correct: the buffer is a FIFO of accepted blocks; the codec
returns the words it was given; the transmitter's frames parse and carry the
user's words once and in order, and no word stays in its buffer for ever; the
receiver hands out exactly the words of undamaged blocks, marked first and last;
a slave applies each sample of its master that arrives in time whole, once, and
the same number of cycles after it was taken; a program uses the card it was
asked for, and a processor never executes half a firmware; a board is in its
mode only when everything the mode needs is set; each chip takes the words sent
to it; the ring of the FIR filter is a sliding window.

## 2. The modules

| Module | Models | Notes |
|---|---|---|
| `BlockFifo` | what the dropping buffer promises | abstract: committed and pending words |
| `DroppingBuffer` | `dropping_buffer.vhd` | one definition per process; a step is a clock edge |
| `DroppingBufferProofs` | | theorems, section 5 |
| `EscapeInserter`, `EscapeDetector` | `gc_escape_inserter.vhd`, `gc_escape_detector.vhd` | combinational outputs are operators of the inputs, `Edge` is the process |
| `EscapeLink` | producer, inserter, stalling fabric, detector | the codec end to end |
| `EscapeLinkProofs` | | theorems, section 5 |
| `StreamerFrame` | the words and the grammar of a frame | from the sender's and the receiver's state machines |
| `XtxStreamer` | `xtx_streamer.vhd` | uses `EscapeInserter`; an observer on the wire uses `EscapeDetector` and `StreamerFrame` |
| `XtxStreamerProofs` | | theorems, section 5 |
| `XrxStreamer` | `xrx_streamer.vhd` but its buffer, and the network | |
| `XrxReceiver` | `XrxStreamer` over `BlockFifo` | the receiver with an ideal buffer |
| `XrxReceiverProofs` | | theorems, section 5 |
| `XrxRing` | `XrxStreamer` over `DroppingBuffer` | the receiver as built; implements `XrxReceiver` |
| `XrxRingProofs` | | theorems, section 5; instances of the two proof modules above |
| `Timestamps` | `timestamp_adder.vhd`, `timestamp_compare.vhd` | a pipeline stage is a function of the registers before it |
| `DdsTxPath` | `dds_tx_path.vhd` | `TakeTags` at an edge of `clk_ref_i`, `TxSysEdge` at one of `clk_sys_i` |
| `DdsRxPath` | `dds_rx_path.vhd` but its streamer | `RxSysEdge` and `RxRefEdge` |
| `DdsLink` | a master, a channel of whole blocks, a slave | both paths, over one time |
| `DdsLinkProofs` | | theorems about it and about `Timestamps`, section 5 |
| `SpecCard` | the cards; `spec_scan`, `spec_map_area`, `spec_open` of `speclib.c` | the scan is a recursive function over the listing, in every order of the directory |
| `Lm32Load` | `spec-fwloader` and `spec-cl` | one action per loop turn of `spec_load_lm32` |
| `VuartConsole` | `spec-vuart` | |
| `Host` | these programs on the cards of one computer | composes `Lm32Load` and `VuartConsole` over `SpecCard` |
| `RfBoard` | registers, GPIO pins and bit-banged chips of a board | what a chip shifts in when the host writes the pins |
| `RfLib` | `rf-lib.c`, `rf-test.c` | a program is the sequence of its accesses, a step is one access |
| `RfLibProofs` | | theorems, section 5 |
| `SlidingWindow` | what a FIR filter promises | abstract |
| `FirFilter`, `TestLoop` | `filters.c`; the loop of `rf-lib.c:492-515` with ADC and CIC | `FirFilter` implements `SlidingWindow` |
| `DdsTest` | `c/dds-test.c` | the synthesizer; it has theorems and no run |
| `HostProofs` | | theorems about `Host`, the filter, the loop and the synthesizer, section 5 |
| `MC...` | the instances TLC checks | values of the constants |

Every process of an entity runs at the same edge, so a step of a model is one
rising edge of `clk_sys_i`: the conjunction of one action per process, each
reading the old values. A state machine is a disjunction of one action per
state. A reset is a step of its own that assigns what the reset branches assign
and lets the processes without one run (`MemRead` and `MemWrite` of the buffer,
the word counter and the CRC generator of the transmitter). Inputs are chosen by
`\E`.

In `DdsLink` a step is an edge of the reference clocks (125 MHz); `clk_sys_i` has
an edge in every second one, for both come from one PLL (`spec_top.vhd:437-442`),
in either phase at the slave. `now` is White Rabbit's time, the same at both
nodes. A sample's phase and tuning value are known by the cycle they were snapped
in, so that a word is a role and a time stamp, and the identifier of the clock a
field of its own. The channel stands for the two streamers and the network: it
delivers a block whole, in order and in bounded time, or loses it; that is what
the runs of `XtxStreamer` and `XrxReceiver` show of the streamers, apart from the
time. The pulse synchronizer takes any of `SyncEdges` edges, an entry of the
clock-crossing FIFO becomes visible after `FifoLatency` edges or one less.

In `Host` a program is a record with its step, arguments and variables; killing it
forgets the record and leaves the card. The gateware at the other end is external:
the processor obeys its reset, takes a byte from the UART, prints. A word of
firmware is kept, or damaged, by the memory. A card whose FPGA is blank is not
touched by `spec-cl` and `spec-vuart` (`speclib.h:19`: it "will freeze the
computer"), and nobody reconfigures an FPGA under a running program (`Ready`,
`Quiet`): that is the user's order of things in `load.sh`, not something the
programs ensure.

In `RfLib` the value of a register is the name of what is written to it. A read of
an SPI register is a transfer like a write; what comes back, the identity and the
lock bit, is a choice, and so is what PLL_SDIO reads as, because it reads the
SDO line of the AD9510 whichever chip is addressed. `spi_txrx` gives `gpio_set` the
bit as it masks it out, 0 or `1 << n_bits` (`Mask`); any value but 0 sets a pin. `rf_init` is run by
`rf-test.c`; the main program of `rf-lib.c` is compiled out (`#if 0`, line 414)
and, like `ad9510_init`, which no main program calls, belongs to another build:
`Builds` chooses which programs exist. `spec_open` has succeeded when a program
starts. The registers written keep no time: `sleep` and `udelay` are left out.

In `TestLoop` a sample is its number, and the low-pass (in floating point) may give
any integer between its last output and its input, which contains the truncated
result for every `alpha` in 0 .. 1. Coefficients are integers over a common
`Scale`. C's division and conversion round towards zero (`Quot`). `AdcSample`
and `CicTick` are the hardware's ends of the FIFOs.

Words are abstract: `StreamerFrame` has one word for each role in a frame. The
CRC of the sender is the number of words it covers since its restart, which
tells whether it covers exactly the words of its subframe; at the receiver it is
the match flag after an undamaged CRC word. A sender's CRC may also look like
the escape code. Left out: the latency measurement (time stamp latch and
`rx_latency_o`), `tx_fifo_valid`, which nothing reads, and `rx_lost_o`, which
nothing drives.

Variables that are no part of the design say so in their comment: `owed`,
`inflight`, `frame`, `expected`, `block`, `net`, `open`, `may_write`,
`asked` are what the user, the wire or the network has seen.

A definition commented "Faulty" is a variant of the one below it with a likely
mistake; `PROJECT.json` pairs each with a property that notices it.

## 3. The runs

Passing runs:

| Run | Question | Bounds |
|---|---|---|
| `MCDroppingBuffer` | Does the ring implement the FIFO of accepted blocks, from every memory content, with resets at any time? Does each accepted word come out? | 4 slots, 2 words: all pointer positions, full and empty at every wrap |
| `MCEscapeLink` | Does the detector return what the inserter took under every pattern of stalls, and all of it? When is a word lost that the inserter asked for? | the escape code, zero, three other words: every case of the two machines |
| `MCXtxStreamer` | Are the frames well formed and do they carry the user's words? Is a word on the wire that nobody asked for always a repeated one? Do counters and requests agree with the buffer? Does every buffered word leave? | threshold 2, so a buffer of 4; blocks of at most 2 words of 2 fabric words, at most one of them the escape code and that not at the end of a block; a header of 2 words, a minimum frame of 8; timeout 2 of a counter of 4; a block counter of 3; resets and flushes at any time; stalls in every state and in the middle of an escape |
| `MCXrxReceiver` | Does the user get exactly the good words of the frames the filter takes, with the right marks, and all of them? Is a word ever written to a full buffer? Does the receiver keep asking? | buffer of 3, blocks of up to 2 words, one less than the buffer, of 3 fabric words, 2 values; damage to data and CRC words; frames cut in the payload and behind a CRC; frames to this station, to another one and of another ethertype; reset between frames and in a header |
| `MCXrxRing` | Does the receiver over the real ring implement the receiver over the abstract buffer? Do accept and drop ever meet, and are the words it hands out the good ones? | buffer of 3, blocks of up to 2 words; damaged control words; frames cut in every phase, but not right after a subframe header; reset between frames |
| `MCDdsLink` | Is each sample that arrives in time applied whole, once, and exactly `Delay + 3` cycles after it was snapped? Is the CIC filter reset with the first one and no other? | a second of 61 cycles, seconds of 2 bits, samples every 28 cycles, 122 cycles of time; one stall a block, one foreign block, every block may be lost; slave mode switched on in any cycle; FIFO of 2, counters of 3 |
| `MCHost` | Do programs hold the card asked for? Does a processor only execute whole firmware, and does exit 0 mean it does? Do typed keys reach the processor once and in order while a loader stops it, and does the exit key work? | 2 cards and a foreign directory entry in every order; a memory of 2 words, a firmware file of 2; one loader, one console, `spec-fwloader`; kills at any step, any number of times; 2 keys and the exit key, at most 2 waiting; a UART of 1 character |
| `MCRfLib` | Is a board in its mode only when all the mode needs is set? Does each chip on the shared lines take exactly its words? Do both modes come on in the end? | 2 boards, chip words of 3 bits (2 for the AD9516, 3 for the ADF4002), 2 kills at any access, loads that fail, wrong identity, no lock |
| `MCTestLoop` | Is the filter in the loop a sliding window? Is everything in its range? | 3 taps with coefficients 5, -6, 7 halves, an ADC of 4 values, both limits reached, FIFOs of 2, 1 discarded sample |

Why the bounds suffice: the buffers are small enough to fill, empty and wrap many
times within a frame's worth of words, and blocks reach the largest size the
buffer takes. No state machine compares words other than with the constants that
have a value of their own in the models. Widths are constants. In the runs the
pointers of the dropping buffer, the timeout counter (`TimerSize` 4), the block
counter (`FrameCountSize` 3 for a buffer of 4), the position in the FIR ring and
the cycles of a second wrap; the count of words in a subframe does not
(`CountSize` 4, blocks of 2), and the sequence numbers have one value (`SeqSize`
1), since no word's fate depends on them. The theorems of section 5 hold for
every size of these.

In `MCDdsLink` the time covers five samples, of which three are applied, and the
adder and the time base carry into the next second. `MaxTransport` is 12 cycles
against a delay of 54: the samples arrive in time, as the programmed delay is
meant to ensure. Up to 18 cycles `InTime` holds and at 20 it does not (without
blocks of others at 24 and 26), because the rest of the delay goes into the clock
crossings, the words of the block and the wait for the sample before.
`tm_time_valid_i` is up throughout, master mode is switched on shortly before the
first sample and slave mode at most once.

The receiver is checked with three fabric words per data word, because with two
it does not mark the last word (section 4); the designs here use four and eight.

`MCXtxStreamer` stalls everywhere. A stall in CRC_WORD repeats the last data word
and one within an escape may lose a word (section 4); the grammar of the frame is
then checked again from the next frame on (`LostFrame` in `StreamerFrame`,
`GivesUp` in `XtxStreamer`); the requests, the counters and the progress of the
user's words are checked all the same.

The passing runs leave out what section 4 shows to fail: blocks that end in the
escape code (`SafeEntry`), frames that break right after a subframe header
(`BreaksAtHeader`), blocks as large as the receiver's buffer, resets within a
subframe, two loaders at once (`Loaders`), cards with different device numbers
(`Slots`); and samples that come too late, or faster than their blocks.

`MCHost` needs no larger firmware: a loader has nothing done, something done, all
done. In `MCRfLib` two kills let a program meet what two earlier ones left behind;
three bits let a word be cut before, within and after it. `MCTestLoop` turns the
ring, and the theorems of section 5 cover every other size.

Fairness. The clock runs (weak fairness of a clock edge). The fabric asks again and
again (strong fairness of an edge with its request): Ethernet flow control is
finite. In the receiver the user reads again and again (strong fairness of an
edge with a read): in `dds_rx_path.vhd` the request is constantly up.
Nothing is assumed of the state machines themselves, nor of the network, which may
be silent for ever. `BufferedWordsLeave` also needs that the fabric is not stalled
in just the cycle in which the one-cycle latch of the timeout is up, each time
anew: a stall in step with the timer would put a frame off for ever.

On the host the operating system runs each program (weak fairness of each loader,
of the console, of the program in `RfLib` and its restart by the shell). A processor obeys its reset (weak) and, running, comes back to its UART
(strong: it may be stopped by a loader in between); the card does not talk faster
than the console prints for ever (strong fairness of `NothingToPrint`), without
which the inner loop of `spec-vuart.c` never returns to the keyboard. Nothing is assumed of
kills; in `MCRfLib` they are bounded by `MaxKills`, which is what "in the end"
means there. `TestLoop` has no liveness property and no fairness.

## 4. Where code and documentation disagree

Each of these runs ends in a violation, of a statement made in the code's own
comments:

| Run | What happens |
|---|---|
| `MCXtxEscapeEnd` | A block whose last fabric word equals the escape code stops the transmitter for ever: CRC_WORD holds the word while it waits for the request, and the inserter holds the request while it sees the word. |
| `MCXtxCrcStall` | CRC_WORD holds the last data word valid while it waits for the request: a stall there sends it once more, in a cycle that answers no request, against `gc_escape_inserter.vhd:80`. `UnaskedWordIsRepeated`, which holds of every stall, says that this is all that can happen. |
| `MCXrxRingCut` | A frame that ends right after a subframe header brings the drop in the cycle of the delayed accept; the ring's pointers cross, and words that were never accepted are handed out. |

Others met while reading, without a run of their own; constants of the models
reach most of them:

- the escape inserter's request depends on the word at its input, not on its state:
  after a stall in the middle of an escape it asks for a word and then misses it
  (`gc_escape_inserter.vhd:103`; `~Overrun` as an invariant of `MCEscapeLink`
  fails; `LosesOnlyAfterStall` says that it happens in no other case);
- a slave decides whether a sample is a miss by a comparison made for the sample
  before, and one that asks whether the time is still to come: it never counts a
  miss, and a sample that arrives too late is waited for, with all behind it,
  until the time comes round (`dds_rx_path.vhd:305-315`; `MCDdsLink` with
  `MaxTransport = 40`, `MaxStall = 0`, `MaxForeign = 0` and the invariant
  `LateSamplesAreMissed` fails);
- the request drops when unaccepted words fill the receive buffer, and only more
  words can bring the accept: a block of `g_buffer_size` words, which
  `xrx_streamer.vhd:36` lets one expect to fit, stops reception for ever
  (`dropping_buffer.vhd:71`; `MaxBlock = 3` in `MCXrxReceiver` and `NeverWedged`
  fails);
- the filter's `a /= b nor (c and d)` accepts every destination when broadcasts
  are accepted, against "1: accept all broadcast packets" (`xrx_streamer.vhd:334`
  and 96), and when they are not, every destination but the receiver's own,
  against "0: accept only unicasts" (97). `Own` is what the filter takes, and the
  properties of the receiver are about those frames: `MCXrxReceiver` sends it
  frames to another station, and their words are handed out;
- `tx_cnt` counts the edges spent in TX_TIMESTAMP, stalled ones included, not the
  samples sent (`dds_tx_path.vhd:137`);
- a frame may start, and a block be closed, before the block is complete
  (`xtx_streamer.vhd:487`), although blocks "can't be currently split" (42-44);
- `tx_flush_i` is forgotten outside IDLE (380-384) and `tx_reset_seq_i` is
  overridden by the increment of SUBFRAME_HEADER (402, 475); no design here
  connects either;
- `buf_frame_count` wraps at 64 blocks (208), below the default buffer size;
- with 32-bit words the receiver never marks the last word
  (`xrx_streamer.vhd:474`; `Subwords = 2` and `DeliversWholeBlocks` fails);
- a reset in PAYLOAD leaves `fifo_dvalid` up and a stale word in the buffer
  (306-309; put `PAYLOAD` in `ResetStates` and `DeliversWholeBlocks` fails);
- `seq_no` resynchronises to the number received instead of the next (398, 432), so
  one loss flags everything after it; `fifo_lost` reaches no output;
- the words that `write_tune` puts into the tuning FIFO are taken from it
  (`dds_core.vhd:489`) but go nowhere: the line that hands them to the CIC filter is
  commented out (478-479).

On the host:

- `spec_scan` settles a wildcard by the first entry it sees, so that a card on the
  bus asked for is missed when an entry before it has another device number
  (`speclib.c:51-54`, against "takes first available card", 32; `rf-test.c:12-13`
  asks with a wildcard; `Slots <- OtherDevice`, `FwRequests <- AnyCard` in `MCHost`
  and `FindsRequestedCard` fails);
- two loaders on a card let a processor run a mixture (`speclib.c:229-251`; a second
  member of `Loaders` in `MCHost` and `CpuRunsWholeFirmware` fails);
- `load.sh` goes on to `rf-test` when `spec-fwloader` failed;
- an area that could not be mapped is NULL in a handle that is not, and the first
  access ends the program (`Segfault`, `ConsoleSegfault`), in `spec-vuart` with the
  terminal left raw; "Returns a handle to the card or NULL in case of failure"
  (`speclib.h:6-7`);
- `vuart_tx` waits without a time-out (`speclib.c:149`): while a loader has left the
  processor stopped the console cannot be left by its key, and the terminal sends
  no signals (`LeftStopped` in `ExitKeyWorks`);
- `rf_init` turns the mode on whatever the load did (`rf-lib.c:359`; `cpu = "failed"`);
- a chip that a killed program left selected takes the words meant for the other
  until its next reset (`left` in `RfBoard`);
- the identity and the lock bit of the AD9516 are read from the AD9510's line
  (`dds_core.vhd:541-560`); the wait for the lock is measured by the wall clock
  (`rf-lib.c:196-209`);
- `gpio_set` logs the PLL pins by a variable `bit` that other pins leave unset
  (`rf-lib.c:47-60`); `read_adc` returns -1 (291-301);
- `fir_load` stores a number before it looks whether there is room, so that a 1025th
  goes past the array (`filters.c:29`); a file without numbers gives a filter
  whose ring has no place;
- the limits of `rf-lib.c:510-511` are never reached with `fir_compensator.dat`, the
  absolute values of whose coefficients sum up to about 2.2;
- the rounding of `dds-test.c:66-71` adds the lowest bit kept, not the highest bit
  dropped, and so clears the lowest bit of every sample (`OutputAlwaysEven`).

## 5. The proofs

All theorems hold for every value of the constants under the named assumptions of
the modules; several have hypotheses of their own besides, each a definition
beside the theorem, and outside of them the property fails or is open:

| Hypothesis | Theorems | What it asks |
|---|---|---|
| `HandledTraffic` | `WireIsFrames`, `TransmitterTypeCorrect` | no stall in CRC_WORD, none while an escape is on the inserter's input, no block that ends in the escape code |
| `AsDeployed` | `AcceptIsAlone`, `NothingOverruns`, `WholeBlocksDelivered`, `RingImplementsReceiver`, `RingDelivers` | data words of three fabric words or more, a buffer of two or more, resets between frames or in a header, no frame that breaks right after a subframe header |
| `Paced`, `SwitchedOnce` | `SamplesAreWhole` and the four below | a block is sent before the next sample is taken; slave mode is switched on and left on |
| `NoWrap` | `AppliesOnTime`, `ResetsWithFirst` and the two below | the time has not wrapped |
| `Deliverable`, `Roomy` | `ArrivesInTime`, `NoneForgotten` | the delay exceeds what the way can take; the FIFO holds the samples of a delay |
| `OneLoader` | `FirmwareIsWhole`, `SuccessIsALoadedCard` | one `spec-cl` at a time |
| `Widths`, `calc_lut` | `OutputAlwaysEven` | positive widths, a table of integers |

`DroppingBufferProofs`, from `SizeAssumption` (at least two slots):

- `TypeCorrect`, `RingOrderHolds`: the inductive invariant is `TypeOK /\
  RingOrder`. `RingOrder` says that going round from the read pointer the
  boundary never comes after the write pointer. Without it the slots between
  read and write pointer are no queue.
- `BufferImplementsBlockFifo`: under the mapping that reads the ring from the read
  pointer to the boundary (committed) and on to the write pointer (pending), the
  initial states map to initial states and every clock or reset edge to a step of
  `BlockFifo`. The lemmas say what a step of each pointer does to the two
  sequences of slots: a slot read leaves the first, a slot written joins the last,
  and accepting moves the boundary between them. The writer is assumed never to accept and drop in one cycle
  (`NeverBoth` in `ClockEdge`); that the receiver keeps to it is the theorem
  `AcceptIsAlone`, and `MCXrxRingCut` shows where it does not.

`EscapeLinkProofs`, from `CodecAssumption` (the escape code is not zero):

- `CodecTypeCorrect`, `CodecDecodesInOrder`, `CodecOutputOnlyOnRequest`: the
  inductive invariant `CodecInv` adds to the types that the two machines are in
  step (the detector checks an escape exactly while the inserter owes its second
  half) and that at most one word is under way: the one on the input, or the one
  the escape code stood for.
- `CodecLosesOnlyAfterStall`, an action property, for every pattern of stalls: a word
  the inserter asked for is lost only after a stall between the two halves of an
  escape, and never two in a row.

`XtxStreamerProofs`, from the assumptions on threshold and counter sizes of
`XtxStreamer`:

- `RequestedWordsFit`, `FrameCountCorrect`: the inductive invariant `BufferInv` holds
  both and that the buffer is a sequence of entries no longer than its depth. The
  margin is that of one promised word: whoever saw the request a cycle ago may
  write now. The count needs that one edge may add an end and take one away, and
  lemmas about the remainder (`CountUp`, `CountDown`), for the counter wraps.
- `WireIsFrames`, under `HandledTraffic`, which names what section 4 shows to go
  wrong (with the other stalls the run checks more than is proved). The inductive
  invariant `FrameInv` says for each state of `p_fsm` where the observer on the
  wire is in its frame and which word is still on its way through the inserter
  (`StageInv`), what the registers hold (`RegsOK`) and what the wire may show
  (`WireInv`). The frame on the wire is behind the state machine by up to two
  words, and by one more while an escape code is put in: that is what the parts
  of `StageInv` tell apart.
- `UnaskedIsRepeated`, an action property under no hypothesis: the invariant
  `AskInv` says that a valid word of `p_fsm` answers a request of the fabric in every
  state but CRC_WORD, and that the request which lets the inserter put out the
  second half of an escape was the fabric's.
- `TransmitterTypeCorrect`, also under `HandledTraffic`: the only hard part is how many words a CRC covers, for a
  frame may start before its block is complete. `BlockInv` says that what the
  buffer holds of a block and the part of it already sent stay within the
  largest block together; the subframe ends with the block.

`XrxReceiverProofs`, the receiver over `BlockFifo`:

- `ReceiverTypeCorrect`: under the assumptions of the modules alone.
- `AcceptIsAlone`, `NothingOverruns`, `WholeBlocksDelivered`: under `AsDeployed`, for
  all addresses and either setting of the filter. Of two fabric words a data word's
  last mark comes too late; section 4 shows what fails with a reset in PAYLOAD and
  with a frame that breaks right after a subframe header. The invariant `Inv` has nine
  parts: where the state machine is relative to the wire (`SyncInv`), which of
  the pulses on the two pipeline delays may be up together (`FlagInv`), that what
  the network was promised still fits (`RoomInv`), what the packer holds of
  the word being built and held back (`CountInv`, `PackInv`, `TailInv`), and that
  delivered, committed and pending words and those in the packer are together the
  words of the good subframes (`BookInv`). A step is taken in two stages: the
  state machine catches up with the word on the wire (`SyncCaught`,
  `PackCaught` say where it then is), then the network chooses the next one.

`XrxRingProofs`, the receiver as built, over the ring, under the same `AsDeployed`:

- `RingImplementsReceiver`: with the words the ring holds for those committed and
  pending, every step of `XrxRing` is one of `XrxReceiver`. Neither
  of the two proofs it rests on is enough by itself. The ring is a queue only
  while its writer never accepts and drops in one cycle, which is a theorem of a
  receiver whose buffer is a queue. So `Inv` is the invariants of both, each an
  instance of the module that proves it, and a step keeps them together: from
  `Receiver!Inv` the writer's signals do not meet (`SignalsTyped`), so the ring takes
  a step of the queue (`BufferStep`), so the receiver takes a step of
  `XrxReceiver` (`TickIsStep`), so `Receiver!Inv` holds again. `MCXrxRingCut` takes
  one of the hypotheses away (a frame breaks right after a subframe's
  header): accept and drop meet, and a block that was to be dropped is delivered.
- `RingDelivers`: what `XrxReceiverProofs` shows, of the receiver as built.

`DdsLinkProofs`, the time stamp pipelines and the link of master and slave:

- `SumIsExact`, from `TimeAssumption` (a second of cycles fits twice in the width
  of a cycle count): for two normal time stamps the four stages of the adder
  give the normal time stamp of the sum, the seconds wrapping at their width. The
  delay added is one of them, for it is shorter than a second.
- `CompareIsTimeOrder`: `equal_o` and `a_great_o` are equality and order of the
  times in cycles.
- `TypeCorrect`: under the assumptions of the modules alone. `TypeInv` says of the
  time stamps in every word, register and block that they are past ones.
- `SamplesAreWhole`, under `Paced` (the pulse synchronizer and the stalls of a block
  take less than the time between two samples, 1024 cycles in the hardware; else
  `snap` is overwritten in the middle of a block) and `SwitchedOnce` (slave mode is
  switched on and left on, as `slave_main` does; `p_rx_fsm` keeps its state while
  it is off, a hazard of the list). `Pacing` counts the cycles
  from a sample to each state of `p_tx_fsm`, so that the next one comes too late to
  disturb it; `BlockUnderWay` says which words are out by then, `BlocksInAir` what
  the network carries, `Receiving` that `p_rx_fsm` has the words of the block coming in
  from its first. `Reading` is there because the FIFO's output may change
  only when no sample is at it.
- `AppliesOnTime`, an action property, and `ResetsWithFirst`, under these and `NoWrap`
  (2^32 seconds have not passed). `AddersBehind` says of each of the adder's four
  registers that its result is due for the sample at the output or past, that is, that
  the comparators can no longer meet it. So a hit is the present sample's
  (`ComparesSample`), and while `p_drive_fsm` still waits for the pipelines to fill
  they have not hit already (`NotSeenYet`). `NoMissYet` and `FirstHit` follow, the
  latter because `cic_reset_o` is not gated by `p_drive_fsm`'s state. These parts were
  checked with TLC on the instance of `MCDdsLink` before they were proved. The clocks
  start later than a cycle and a delay (`LinkAssumption`): the
  registers reset to time zero are past then.
- `ArrivesInTime` and `NoneForgotten`, under these and two conditions on the delay that
  is programmed. `Deliverable`: the pulse synchronizer, the stalls of a block, the
  transport, eight cycles for each block of another master and the FIFO's latency
  take, with 19 cycles of registers and state machines, no longer than the delay (on
  the instance of `MCDdsLink` 50 of 54 cycles, and runs with a transport 8 cycles
  longer fail). `Roomy`: the FIFO holds the samples of a delay (with the 64 entries of
  the hardware, delays up to 65536 cycles). `DeadlineInv` has a deadline for each place a
  sample can be in, from `p_tx_fsm` (`MasterDue`) over the network (`AirDue`) and the
  FIFO (`SlaveDue`) to the adder's pipeline (`Filled`), each counted from the time stamp
  the sample carries; and an order: the samples are a period apart wherever they are
  (`MasterOrder`, `AirOrder`, `SlaveOrder`), so that the one before has left the output
  when the next must be read and the FIFO never holds more than a delay's worth
  (`HasRoom`). In the network a deadline is the latest of several dates
  (`Ends`): a block comes in when it is due itself, or when one before it was due and the
  words of those in between have followed. `Backlog` bounds them all by
  what has been sent so far: while the master sends a block the slave could have
  got one, so only others' blocks add to it. `Settled` says that slave mode has gone
  through its two registers before the first sample comes, and `Counted` is the count
  itself, from which hits move nothing away. The parts were checked with TLC on
  the instance of `MCDdsLink` before they were proved.

`HostProofs`, from the assumptions of `SpecCard`, `Lm32Load` and `VuartConsole`:

- `HostTypeCorrect`, `RequestedCardIsOpened`: the invariant `TypeInv` says of each
  program what its variables hold at each of its steps, and of an open card that
  it is one of the computer's and meets the request. That `spec_scan` finds no other
  is an induction over the directory: the library's induction theorems cannot be
  used here, so the set of the lengths for which a claim holds is shown to be all of
  `Nat` from its least missing member (`NatSetInduction`), first that the
  recursion has a solution (`ScanEnds`), then what stays true of it (`Knows`,
  `ScanKnows`).
- `KeysStayInOrder`, an action property: of all the steps only the console's
  touch the keys, and the processor takes a byte only from a full register.
- `FirmwareIsWhole`, under `OneLoader` (at most one `spec-cl` at a time, without
  which the property is false): the inductive invariant `HostInv` adds to the
  types what the loader has established at each of its steps (`Progress`):
  the processor has stopped when it writes, the words compared so far are those of
  the file when it reads back, all are when it releases; that `spec-fwloader`
  runs alone (`Alone`); and that a processor which is not stopped has a whole
  firmware (`AllWhole`). A killed loader takes `Progress` with it and leaves a
  stopped processor, about which nothing is claimed.
- `SuccessIsALoadedCard`, under `OneLoader`, an action property: from `Progress` at
  the release and the card that `TypeInv` knows to be the one asked for.

`HostProofs`, last part, on the control loop, from `FilterAssumption` (at least one
coefficient) and `LoopAssumption`:

- `FirTypeCorrect`: no access outside of the ring.
- `FirImplementsWindow`: read from `pos` on, the ring is the window; `fir_process`
  writes where the oldest sample is and slides by moving `pos`. The lemmas say
  which places `Idx` visits before and after.
- `LoopTypeCorrect`: the tuning words keep within their limits; the hardware fills
  only the one FIFO and empties only the other, so what was polled is still so at
  the access (`FlagsHold` in the invariant).
- `LoopImplementsWindow`: every step of the loop, the ADC or the CIC is an input to
  the window or a stutter; it takes the ranges in `LoopInv`, which keep the
  low-pass's output among the filter's inputs.
- `OutputAlwaysEven`, from the widths of `dds-test.c` (`Widths`, any positive
  numbers): every look-up falls into the table, and adding a number's lowest bit
  makes it even.

`RfLibProofs`, from the assumptions of `RfBoard` and `RfLib` (words of one bit or more,
lists that are not empty, two boards):

- How a program whose length depends on its lists is reasoned about: it is put
  together from transfers, one per word, with `FlattenSeq`. That the result is
  what it seems is an induction over the list of words (`Flattening`, `ChainsFlatten`), by the
  same detour as in `HostProofs`, and gives one fact for all programs: they are
  `Chains`. After an access inside a transfer comes the next access of that
  transfer; nothing jumps into one. An access says in the field `at` where in its
  transfer it is, and what happens within one is shown for all programs at once.
- `TypeCorrect`: that a program is at one of its accesses needs that its jumps,
  forward over the accesses that a condition skips and back to the start of a
  wait, stay in it.
- `WordsReach`, an action property: the inductive invariants speak of the access to come.
  `AdfInv`: before access `j` of a transfer the ADF4002 has shifted in the bits sent by
  then, behind whatever was in it, so that a whole word has pushed that out when LE
  rises. `OwnInv`: the chip that a program resets and then talks to
  has since taken the bits sent to it and nothing else, so that it starts every word at
  its first bit. `IdleInv`: no other chip listens, unless a program killed within a
  transfer has left it selected. The last is what keeps the two chips on
  the shared lines apart, and why the property excepts the chips in `left`.
- `ModeConfigured`: `ModeInv` says what the board of an `rf_init` has before access `i` of
  it: every register, pin and word written before `i`, and a mode that is off between
  the first write and the last. A board no `rf_init` is at is off or has everything.
  The two `rf_init` of `rf_test` lie one behind the other at positions that depend on
  the lists, and the reads that follow change nothing.

So there is a theorem for every invariant, action property and refinement of the
passing runs, but not in every case about all that the run explores: under the
hypotheses of the table, and `FramesWellFormed` and the transmitter's `TypeOK` for
less than the stalls of `MCXtxStreamer`. Only model-checked are the liveness properties
(`AcceptedWordsComeOut`, `EveryWordArrives`, `BufferedWordsLeave`,
`GoodBlocksArrive`, `NeverWedged`, `ExitKeyWorks`, `ModesComeOn`), which are out of
TLAPS's reach. What fails in the violating runs fails, of course, outside of the
hypotheses.

## 6. Not modelled

- Mode switching in `DdsLink`: master mode left within a block
  (`dds_tx_path.vhd:119`), slave mode left within one (`dds_rx_path.vhd:173`),
  `tm_time_valid_i` lost, resets of both paths. They would be the next to add.
- Transmitter and receiver over a lossy network in one model: each has an
  observer with the grammar of `StreamerFrame` at the wire instead, the one
  checking what the other assumes; the product of the two is too large.
- `PiControl`, `spi_master.vhd`, `ad7980_if.vhd`, the DAC arbiter, the PLL sequencer,
  the reset generator: small sequential machines, or arithmetic without control.
- The DDS data path (arithmetic on wide words), generated code (register block, CIC
  filter, tables), top-level wiring, test benches.
- `boot_mdsp` (`rf-lib.c:312-338`), whose only call is commented out and whose
  processor the gateware here does not have; `fdelay_bus.c`, whose headers are
  missing, and `specmem.c`, which the Makefile leaves out; the bitstream loader
  `loader_low_level`, outside this repository.
