# Tick_Replayer in TLA+

Tick_Replayer replays captured or synthetic traffic from an FPGA with the
timing of the original trace.  A trace is either loaded once into the DDR of
the board (PRELOAD and LOOP mode) or streamed through a ring in that DDR while
it is being replayed (STREAM mode).  This directory models the parts of the
system that move data and agree on pointers, the file tools that prepare a
trace, and the command line tools on a board that nobody resets between them.
TLC checks them; TLAPS proves the safety of both STREAM loaders, of the two ways
a striped stream is loaded, of the ring's reader, of the FIFO and of the
scheduler, that the file tools keep time and lose nothing, and that the verdicts
of the board tools are true.  Every safety property of the passing runs is proved.

Contents: [parts](#the-system), [modules](#modules), [runs](#runs),
[fairness](#fairness), [proofs](#proofs), [findings](#findings),
[not modelled](#not-modelled), [plan](#plan).

## The system

| Part | Source | State | Operations | Hard part |
| --- | --- | --- | --- | --- |
| STREAM loader | `software/xdma_stream_ring_fast.cpp` | chunk queue, H2C jobs, `reserved_count`, `write_count`, `packet_count`, `started` | pop, issue a job, commit, poll STREAM_RD, start, EOF, wait, abort | jobs finish in any order; the counters it polls move while it reads them |
| Striped loading | the same: `StripedReadState`, `ChunkQueue`, `DirectJobQueue`, `DirectCompletionQueue` | blocks being read or copied, two queues, seven condition variables, main's ledger of blocks | take, read or copy a block, put in order, push, pop, commit, fail, finish, join | blocks complete in any order; every thread waits for some other one |
| BAR registers | `rtl/axi_lite_regs.sv` | configuration words, pointer shadow, pulses | 32-bit AXI-Lite reads and writes | 64-bit values in two halves |
| Stream reader | `rtl/ddr_stream_reader.sv` | state, issue window pipeline, command FIFO, response counters | start, issue a burst, take a beat, finish, stop/clear | everything it decides on is one or more clocks old; AXI answers outlive stop/clear |
| Prefetch FIFO | `rtl/axis_sync_fifo.sv` | RAM, latency pipe, output buffer | accept, write, read, output, clear | ready is registered: what is in flight must still fit |
| Replay core | `rtl/trace_replay_core.sv` | `replay_running`, prefetch gate, preload warm-up, TX watchdog | start/stop/clear, gate, auto-drop, done | done needs three facts that come at different times |
| Parser, scheduler, TX engine | `rtl/host_stream_parser.sv`, `replay_scheduler.sv`, `replay_tx_engine.sv` | record state, target time, packet in flight | header, metadata, payload; release at target time | backpressure, zero lengths, late packets |
| Trace reader | `rtl/ddr_trace_reader.sv` | descriptor FIFO, payload FIFO, loop counters | descriptor fetch, payload fetch, loop restart | two fetch engines over one AXI port |
| Clock crossings | `rtl/axis_async_fifo.v`, `scheduled_axis_async_fifo.sv`, `replay_global_timebase.sv`, `replay_time_sync.sv` | Gray pointers, synchronisers | push, pop, clear from either side | each side sees an old pointer of the other |
| TX/RX adapters | `rtl/axis_to_lbus_512.sv`, `lbus_to_axis_512.sv` | frame FIFO, segment state | collect a frame, send it without gaps | a frame may only start when it is whole |
| RX capture | `rtl/rx_capture_bd_core.sv` | record FIFO, AXI writer, statistics | record, write, clear | statistics clear across clocks, writes in flight |
| Python STREAM loader | `software/xdma_stream_ring.py` | `write_count`, `packet_count`, `started`, the record at hand | configure, read a record, poll, copy, commit, start, EOF, wait, abort | started again and again on a board a killed session left running |
| File tools | `software/gen_synthetic_pcap.py`, `pcap2trace.py`, `gen_synthetic_trace.py`, `trace_to_stream.py`, `stream_stripe.py` | files on disk | capture, convert, pack into records, deal out over disks | rounding must not add up; files an earlier run left |
| Command line tools | `software/xdma_load_trace.py`, `traffic_replay_cli.py`, `tick_replay.py` | the registers of the board | load, start, stop, pause, synchronized start, RX control | registers keep what the last tool set |
| Checks | `software/rx_trace_interval_check.py`, `preload_rx_precision_check.py`, `loopback_rx_verify.py`, `preload_mixed_test.py`, `dual_port_preload_test.py` | the same, and the RX statistics and capture ring | prepare the RX block, replay, wait, compare | a verdict must be about this replay and no earlier one |

How they interact.  The host and the board share the DDR ring and the BAR
registers, nothing else.  The host owns STREAM_WR (committed bytes), the packet
count, EOF and the control pulses; the reader owns STREAM_RD (consumed bytes)
and the status bits.  Inside the board everything is a valid/ready stream:
reader -> prefetch FIFO -> parser -> scheduler and TX engine -> clock-crossing
FIFO -> CMAC adapter; on the way back CMAC adapter -> capture -> DDR.

What makes each part correct:

* loader and ring: a beat is in the ring before it is committed, stays until it
  has been delivered, and the stream comes out once, in order and to its end;
* striped loading: out of order reading and copying never reorders the stream or
  publishes a block that is not whole, and no thread sleeps for ever;
* reader: it fetches exactly the committed bytes in order, across the wrap and
  the bank switch, never finishes early, and never hangs when EOF arrives at an
  awkward clock;
* FIFOs: nothing lost, duplicated or reordered, no overflow in spite of
  registered ready signals and pointer latency, clear leaves nothing behind;
* replay pipeline: one packet out for each record in, not before its time, and
  `replay_done` exactly when the last has left;
* capture: a record per captured frame, no torn statistics;
* file tools: every packet keeps its payload and its time, and a finished block
  list holds the stream;
* tools and checks: what a tool reports is true of what it did, whatever was
  done to the board before.

PROJECT.json lists every component with its status, and under `hazards` every
place in the code where one of these could go wrong unseen by a test.

## Modules

| Module | Models | Relation |
| --- | --- | --- |
| `RingConsumer` | what `ddr_stream_reader` promises and what it asks of the owner of STREAM_WR | abstract specification |
| `StreamRing` | the staged loader, its H2C jobs, the ring, the registers, the prefetch FIFO and gate, `replay_done` | EXTENDS `RingConsumer`, implements `ConsumerSpec` |
| `MCStreamRing` | the chunk sequences of the runs | EXTENDS `StreamRing` |
| `ModLemmas` | facts on `\div` and `%`, torn reads, least number and induction over the naturals | lemmas |
| `StreamRing_proofs` | the theorems about `StreamRing` | EXTENDS `StreamRing`, `ModLemmas` |
| `StripeBlocks` | the list of blocks and the threads | shared by the next two |
| `StagedStripes` | reader threads, producer and chunk queue of `--staged-stripe` | EXTENDS `StripeBlocks` |
| `DirectStripes` | the direct path: main, workers, ring and registers | EXTENDS `StripeBlocks`, `RingConsumer`, implements `ConsumerSpec` |
| `StripedLoader` | either path, as the option chooses, and that it ends | EXTENDS both |
| `MCStripedLoader` | the blocks and threads of the run | EXTENDS `StripedLoader` |
| `StripedLoader_proofs` | the theorems about both paths | EXTENDS `StripedLoader`, `ModLemmas` |
| `DdrStreamReader` | `rtl/ddr_stream_reader.sv` clock by clock, with its AXI slave | EXTENDS `RingConsumer`, implements `ConsumerSpec` |
| `DdrStreamReader_proofs` | the theorems about the reader | EXTENDS `DdrStreamReader`, `ModLemmas` |
| `AxisChannel` | what every valid/ready FIFO of the design promises | abstract specification |
| `AxisSyncFifo` | `rtl/axis_sync_fifo.sv` clock by clock | implements `AxisChannel` |
| `AxisSyncFifo_proofs` | the theorems about the FIFO | EXTENDS `AxisSyncFifo`, `ModLemmas` |
| `ReplayScheduler` | `rtl/replay_scheduler.sv` clock by clock | implements `AxisChannel` |
| `MCReplayScheduler` | the settings of the runs | EXTENDS `ReplayScheduler` |
| `XdmaStreamRing` | the Python loader over sessions that complete, fail or are killed | EXTENDS `RingConsumer`, implements its host side |
| `MCXdmaStreamRing` | the stream files of the run | EXTENDS `XdmaStreamRing` |
| `XdmaStreamRing_proofs` | the theorems about `XdmaStreamRing` | EXTENDS `XdmaStreamRing`, `ModLemmas` |
| `TraceFiles` | the file tools, one loop iteration a step | |
| `MCTraceFiles` | the sources of the run | EXTENDS `TraceFiles` |
| `ReplayTiming_proofs` | the theorems about the file tools and the scheduler, where a packet's time is fixed and where it is kept | EXTENDS `TraceFiles`, `ReplayScheduler`, `ModLemmas` |
| `ReplayBoard` | the board as the tools see it: TX ports, cable, RX block | |
| `ReplayTools` | the loader, commands, synchronized start and checks on that board | EXTENDS `ReplayBoard` |
| `MCReplayTools` | the trace of the runs | EXTENDS `ReplayTools` |
| `ReplayTools_proofs` | the theorems about `ReplayTools` | EXTENDS `ReplayTools`, `ModLemmas` |

The two halves of the ring meet in `RingConsumer`: `StreamRing` is checked to
keep its host side and `DdrStreamReader` its reader side, so that the loader's
properties hold with the RTL in place of the contract; so does `DirectStripes`,
and `XdmaStreamRing` keeps it over any number of sessions.  `StagedStripes` ends
at `queue.pop`, where `StreamRing` begins: what it delivers in order is the
sequence of chunks `StreamRing` takes.  In the same way
`AxisSyncFifo` bounds what `StreamRing` may assume of the prefetch FIFO
(`FifoMax`).

### RingConsumer

Amounts are 64-byte beats: `reader` and loader move both pointers by whole
beats only (`--ring-size`, chunk and record sizes are 64-byte multiples).  The
reader is idle, runs or is done; it may deliver a beat only below the committed
pointer (`ConsumeBeat`), may finish only with everything delivered and EOF, or
with an error (`FinishReader`), and raises its error flag on a pointer it does
not accept (`PointerFault`).  The register side may move the pointer forward to
at most one capacity ahead (`CommitWindow`), raise EOF, and clear a stopped
reader.

### StreamRing

`pc` is the position of the feeding thread in the staged loop of `main`
(`xdma_stream_ring_fast.cpp:1728-1806`); `phase` is the loop a commit was called
from.  One action is one step another thread or the board can come between:

* `PopChunk`, `SourceFails`: `queue.pop`, the size check, the producer's
  exception and the manifest check;
* `TakeFront`, `WriteLo`, `WriteHi`, `StartReplay`: `commit_ready_jobs`, with
  `write64` as two register writes;
* `EnterPoll`, `ReadLo`, `ReadHi`, `PollAbort`, `IssueJob`, `NoRoom`: the inner
  loop, with `read64` as two register reads;
* `WritePktCount`, `WriteEof`, `WaitDone`, `WriteStop`, `WriteClear`: the end of
  the stream, the wait and the abort;
* `JobWrites`, `JobFails`: an asynchronous `pwrite_stream_window`, beat by beat,
  which may go on after the thread has given up.  The handler then closes the
  descriptors; that is no step of its own, as all it does is make later writes
  fail, and every write in flight may go on or fail at any beat (`JobFails`);
* `DeliverBeat`, `ReaderFinishes`, `OpenGate`, `SendBeat`, `HaltReplay`: the
  board, through the contract of the reader and the prefetch FIFO.

A 64-bit counter is two words to the base `Word` (2^32 bytes counted in beats
in the code), so that a read or a write of it can be torn where the code's can.
Beat k of the stream carries the value k, so `mem[Address(k)] = k` says that a
slot holds the beat the reader will expect in it.  `Init` is the board after
`configure`.  Records all have `PktBeats` beats; `Chunks` gives the packets of
each chunk the producer queue yields.  `--no-wait`, which returns without
waiting, is left out.

The invariant `SafeInv` is inductive.  Its parts: the jobs tile the reserved
stream (`JobsTile`); read <= committed register <= `write_count` <= reserved,
and reserved plus guard is within one capacity of the reader
(`PointersOrdered`); the committed beats and the finished beats of every job
are in the ring (`CommittedInRing`, `WrittenInRing`); the words of a polled
counter belong to a recent enough position (`PollSound`).

### StagedStripes, DirectStripes and StripedLoader

A call on a queue is one step, as it is one critical section.  A thread that
finds its predicate false goes to sleep and can do nothing until the condition
variable it waits on is notified; `notify_one` wakes any one of its sleepers.  So
a wakeup that the code does not send is a thread that sleeps for ever, and
`LoaderEnds` would find it.

`StagedStripes`: the readers take blocks in order within a window of the next one
to be emitted (`GetWork`), read them in any order or fail (`ReadBlock`,
`ReadFails`), and hand them in (`Submit`); the producer puts them in order
(`PopNext`, `TakeNext`) and pushes them into the `ChunkQueue` (`PushChunk`),
which main pops (`PopChunk`) unless it gives up (`GiveUp`).  The wait of `submit`
cannot sleep, as no block is handed out beyond the window; the module says so.

`DirectStripes`: main reserves a window of the ring for each block
(`AssignBlock`), the workers copy blocks beat by beat (`CopyBeat`) and complete
them in any order, main collects the completions (`Collect`) and commits the
prefix that is complete (`CommitBlock`, `WriteLo`, `WriteHi`).  Words, polling and
the board are those of `StreamRing`.  A block larger than the ring is refused when
its turn comes (`TooLarge` in `EnterAssign`), with blocks before it copied,
committed or already sent by then; the theorems hold for such lists of blocks
too, while every block of the run `striped_loader` fits.

`DirectInv` is inductive but for `PublishedWhole`, which follows.  Its parts: the
blocks handed out lie one behind the other (`BlocksTile`) and each is queued, with
one worker, or complete (`InOneHand`); what is committed is a prefix of complete
blocks (`CommittedPrefix`); pointers are ordered and the reservation is within one
capacity of the reader (`RingWindow`); what has been committed and copied and not
read is in the ring (`CommittedHeld`, `CopiedInRing`).

### DdrStreamReader

One step is one clock of the `always_ff` block, or a register write of the host
between two clocks.  `RunClock(ar_fire, beat, bad)` is the whole `ST_RUN` branch;
`ar_fire` and `beat` are the handshakes of the clock, `bad` an error response.
Its parts follow the order of the source: `SamplePointers` (what is registered
for the next clock), `AdvanceIssue` and `BuildBurst` (the issue pipeline),
`TakeBeat` (the response counters), `Errors`, `Finishing`.  `Start`, `Stop` and
`IdleClock` are the other branches.

| Variable | Code |
| --- | --- |
| `stage`, `burst` | the one valid bit that is set among `issue_window_raw_valid`, `issue_window_valid`, `issue_metrics_valid`, `ar_stage_valid`, and the registers of that stage; an address is a bank and an offset |
| `cmds` | `cmd_beats_mem` between its pointers, with `cmd_count` as its length |
| `rsp_active`, `rsp_beats_left` | the same |
| `ring_write_aligned_q` ... | the same; amounts are beats |
| `slave` | the bursts the memory has accepted and not answered, with the stream position the reader meant (history) |
| `from` | the address of the last delivered beat (history) |

The response channel is a single handshake, since `m_axi_rready` is the ready of
the FIFO behind the reader and nothing is stored in between.  A stopped reader
still takes the answers of its old bursts and drops them.  `Start` waits for the
slave to have answered: nothing in the RTL does, but `configure` and
`start_replay` leave milliseconds between their pulses.  With `Rogue` the
pointer register takes any value at any time; with `Faults` answers carry
errors.  `MaxWrite` bounds the pointer.

`ReaderInv` is inductive.  Its parts: the bursts in flight tile the stream from
`read_count` to `issue_count` (`BurstsTile`) and have the lengths the command
queue expects (`AnswersExpected`); each is at the address of its position and
inside its segment (`AnswersInPlace`), and so is the next one (`NextPlace`); a
burst in the pipeline is one of the window and segment it was captured for
(`BurstSound`); a recorded end of input was exact (`ConsumedSound`); with a
proper host every sample lags behind the register (`WindowLag`).

### AxisChannel and AxisSyncFifo

`AxisChannel` is a bounded channel of numbered beats: what is taken is what was
put, in order, and an offer stays until it is taken or the channel is cleared.

`AxisSyncFifo` has one action `Clock(s_valid, m_ready, clear)`, the whole
clocked block: input register, block RAM, read latency pipe, output buffer,
registered ready and the clear that acts a clock late.  Beats carry their number;
a valid bit and its payload are one value, 0 when the bit is off.  The RAM
pipeline of the xpm macro and `rd_valid_pipe` are one sequence.  `OUT_DEPTH` is
a power of two, as it is in both instances of the module.  The assumption
`MaxLevel < LevelWord` excludes the one configuration in which the level word
wraps (a depth of 2^k - 1 with a margin of 1).  The highest level is
`READY_LEVEL + 2`: 8179 beats of 8192 in the replay core.

### ReplayScheduler

`SchedulerClock(enable, command, gap, pkt_ready)` is the clocked block: with a
start or clear everything takes its reset value (`Flushed`), otherwise time
(`TimeClock`), the accumulated target (`EntryClock`), the places a record passes
(`QueueClock`) and the output (`OutClock`) each do their part from the values of
the clock before.  A record is its number of acceptance with its target; length
and flags go with the number.  `meta_stage`, `prefetch`, `head` and `out` are the
registers of the source with their valid bits, `mem` the block RAM from its read
to its write pointer.

`Surroundings` is what the module reads: the shared time, which belongs to
another clock and so moves by 0 to `MaxAdvance` ticks in one clock of this one;
the host's settings, which change only under a clear; and the source, which
offers a gap or none.  `cfg_rate_q16_16` is a port that the source does not read.
Widths are left out: targets and ticks are 64 bits.  History variables: `asked`,
`elapsed` and `steady` are the tick the records since the last restart ask for,
the enabled clocks since then, and whether time has been moving.

What is checked says precisely what the look-ahead of the due bit gives:

* a packet is never offered before its target by more than three ticks of shared
  time, and in local time only by one tick, just after enable rose
  (`NeverEarly`);
* in local time that runs, the packet is on offer exactly at its target or its
  late bit is set, and only then (`LateExact`).  Just after a pause, a packet
  loaded at its target may still be marked late;
* a packet whose record reaches the scheduler five ticks ahead is on time
  (`OnTime`; with four the property is false);
* the late bit is fixed when the packet is loaded, so one that then waits for the
  transmit engine is late without being counted.

### XdmaStreamRing

The sequential loader, one register access, record or beat at a time, and the
board behind the contract of the reader.  `Launch` is a new process on one of
the stream files in `Streams`: the beats its records end at, whether the last one
is whole, and what the manifest claims.  A session ends in `Finish`, in `AbortClear` after any
exception (`Fail`), or by `Kill`, which leaves the board as it is, with the
reader running on it.  A beat carries its session and its number, so that
`got` shows whose beats the reader delivered.  The registers written by
`configure` between its clear pulse and the loop are one step: the board is
stopped.  `ring_size_valid` and the checks of the arguments are
`RingAssumption` and `XdmaAssumption`.

### TraceFiles

One iteration of a tool's loop is a step, and a tool may be killed after any;
the next one then finds what had been flushed.  The sources follow one another
on the same disk (`turn`), so that every tool also runs over the files of an
earlier run.  `round` is Python's, ties to the even number; `TickNum / TickDen`
is the tick rate in ticks per nanosecond.  Data beats carry the source, packet
and number they belong to; lengths are in bytes and padded by `PaddedBeats`.
Quotients are exact, as the `Fraction` of `gen_synthetic_trace.py` is.  `pcap2trace.py`
and `gen_synthetic_pcap.py` divide in floating point, which is off by less than one
part in 2^52 of the tick: it can turn the rounding of what is all but a tie, so that
their half tick is exact only up to that.
Files are opened, and emptied, in one step with what the tool does first.
`ConvertKilled` cuts `desc.bin` between two descriptors: `trace_to_stream.py` refuses
a partial one before it opens `stream.bin`.
`Due` is the reference for the timing: when packet i ought to leave, from its
time stamp alone, as a fraction.

### ReplayBoard and ReplayTools

`ReplayBoard` is the board at the level of packets and ticks of the global
timebase.  A port has the registers the tools write, how many packets it has
still to send and the target of the next one, and the counters they read;
`FirstTarget` and `NextTarget` are the scheduler's `push_target`.  With egress scheduling the core is done when
it has handed its packets over, and the adapter at the cable holds each to its
target (`Handed`).  A packet is [run, index]; that a leftover packet looks
like a new one is the point: only the history variables tell them apart.  `Tick`
lets time pass, and up to `Faults` packets are lost on the cable, dropped by the
watchdog, damaged or not captured.  The capture ring (1 MiB in
`loopback_rx_verify.py` unless told otherwise) holds all that a run captures, so
its pointer does not wrap.

`ReplayTools` runs one tool after the other on it, access by access, with any
number of ticks between two accesses; the first `Kills` invocations may fail or
be killed anywhere.  `Command` is any one-shot command of
`traffic_replay_cli.py`.  The verdicts (`IntervalPass`, `SpacingPass`,
`LoopbackPass`, `StrictPass`) are those at the end of each check's `main`, with
the tolerances as exact ticks.  The strict tool is `preload_mixed_test.py` on one
port and `dual_port_preload_test.py` on several, with `--require-no-drop`.

## Runs

| Run | Instance | Shows |
| --- | --- | --- |
| `stream_ring` | two banks of 4 beats, `Word` = 8, chunks of 1, 2, 1, 2, 1 packets of 2 beats, three writers, all failures | `SafeInv`, order and reader contract under failures and torn reads; EOF and packet count right; no abort without a cause; always ends, and stopped if it failed |
| `striped_loader` | blocks of 1, 1, 1, 2, 1 packets, three reader threads, window 3, a queue of one, two banks of 2 beats, `Word` = 4, failures in every thread, both paths | main gets the blocks in order; the reader meets whole blocks only; its contract is kept; no thread sleeps for ever and the loader ends |
| `stream_torn_read` | `Word` = ring = 4 beats | violation: the loader aborts on a pointer the reader never had |
| `reader_ring` | two banks of 4 beats, bursts of 3, two commands, pointer up to 12 | every beat from its place, no burst over a segment, no false error, no early end; every committed beat is delivered, every run with EOF ends; implements `RingConsumer` |
| `reader_rogue` | one bank of 3, bursts of 2, any pointer, error answers | fetches stay in the ring, wrong pointers are reported, a clean end is exact |
| `sync_fifo` | depth 10, the full ready margin, 11 beats, a clear in any clock | `FifoInv` (no overflow, exact level), order, a clear leaves nothing behind, ready returns, accepted beats come out |
| `scheduler_held` | two records inside, three in all, gaps 0 and 3; local time from a programmed start, shared time moving 0 to 2 ticks, egress release; pauses, holds, restarts | a bounded channel, nothing before the look-ahead, in local time on time or marked late |
| `scheduler_ontime` | gaps 1 and 5, a link that takes every packet, a source five ticks ahead, restarts | every packet at the tick its gaps ask for; every record leaves |
| `xdma_sessions` | three sessions, two of which may be killed, on seven stream files; ring of 5 beats, `Word` = 5 | a replay delivers its own session's beats in order and no other's; completion means a whole file was sent; the reader's contract holds across sessions; every session ends, and stopped if it failed |
| `trace_files` | two sources in turn out of eight, two lanes, blocks of 5 beats | payloads stay with their packet, accumulated gaps are within half a tick of the time stamps, a finished block list holds the stream |
| `board_tools` | two invocations of any tools on two ports, one fault, the first may be killed | a PASS is about this replay's own packets; ports started together begin at the same tick |
| `stale_sync` | a synchronized start, then a load, on a board that has been up for a while | violation: the newly loaded trace is late |

Bounds.  In `stream_ring` the stream is 14 beats over a capacity of 8, so that
both banks are reused, every writer slot is taken, and every alignment of a chunk
with the wrap occurs.  The prefill is the largest `main` allows and the third
chunk does not fit before it is reached, which is the case the early start exists
for.  A register word holds exactly one capacity, the smallest value the theorems
allow, and the stream crosses it, so that reads of STREAM_RD are torn.  The FIFO
holds fewer beats than a chunk, so that the gate, the reader and the loader block
each other wherever they can.

In `striped_loader` there are more blocks than the window holds, and more than
threads; the ring holds three blocks with its guard, so that it fills up and wraps
with blocks in every hand; the chunk queue holds one, so that the producer blocks
in it and the readers behind the producer.  Three threads are the fewest with
which one fails while another works and a third is asleep.

In `reader_ring` a burst (3) does not divide a segment (4), so bursts of every
length end at the wrap, and the pointer goes one and a half times round the ring,
so that both bank changes happen, with a stop and a start at every point.  Two
commands are the smallest queue the module allows.  In `reader_rogue` the ring
is smaller than two bursts, so that the window, the wrap and the burst limit
each decide somewhere.

`sync_fifo` has the smallest depth but one with the full margin, and one beat
more than its RAM has slots, so that both pointers wrap.

In `scheduler_held` the capacity is less than the five places, so that it, and
not the places, is the limit.  Time goes on past the largest target and
look-ahead and stops there (`MaxTicks`), where the due and late bits no longer
change; a second record with a later target is in the head register while the
first is released, which is the case a stale due bit needs.  `scheduler_ontime`
has gaps shorter and longer than the way through the registers, and a start time
later than it.  The shared time stands still under settings that do not read it.

In `xdma_sessions` a killed session is followed by one that also may be killed
and one that may not, the fewest in which a session meets a board left running
by one that itself took over a running board.  The files are a ring that is full
before the prefill is reached, records that end at and run over the wrap, an
empty file, one that is cut, one its manifest contradicts and a record larger
than the ring.  A register word holds one ring, the least the theorems allow.

In `trace_files` the first source is one of a capture with ties and unsorted time
stamps, one with a frame that is snapped and one that no descriptor holds, a
rate that is not a whole number of ticks, a generated capture (given a gap in
nanoseconds and one in ticks, of which the first counts) and an empty one; the
second is a fixed gap or a generated capture with a gap in ticks only.  The tick rate 3/10 rounds every way.
A block of 5 beats holds one or two records of the streams, and there are more
blocks than lanes, so that containers get a second block.

In `board_tools` a trace has three packets.  Eleven ticks are enough for a second
loopback check to complete after a first one has filled the capture ring, the
longest behaviour the property needs (with fewer the mutant that does not wipe
the ring passes).  Two invocations, as what one tool leaves is all the next one
sees; one fault, as a verdict that is right about one missing packet counts
them.  `stale_sync` is a load after a synchronized start.

## Fairness

The loader's thread keeps running (weak fairness of its steps, taken together:
it is one sequential thread), an H2C write that has not failed makes progress,
and the board is clocked, so that each enabled board step happens.  Nothing is
assumed about failures and timeouts: a timeout need not strike, and the
properties hold without it.  Progress of `SendBeat` assumes the link
takes beats, which the core's watchdog enforces (auto-drop is on after reset).

For the striped loader: every thread that is not asleep is scheduled (weak
fairness of the steps of each), the poll interval passes, and a read, a copy and
the board come to an end.  Nothing is assumed about who is woken, who fails, or
the timeouts.

For the reader: it is clocked, the slave takes a burst that is offered and
answers it in the end, and the FIFO is ready for the answer again and again.
For the FIFO: `ReadyAgain` and `Drains` assume a consumer that is ready in
infinitely many clocks in which no clear is active.
For the Python loader: its process keeps running unless it is killed (weak
fairness of its steps together), the reader delivers and finishes, and the link
takes beats; nothing is assumed about timeouts, errors or kills.
`TraceFiles` and `ReplayTools` are checked for safety only: nothing is promised
about when an operator runs a tool.
For the scheduler: `Leaves` assumes that clocks with enable, a transmit engine
that takes and a shared time that moves come again and again.

## Proofs

`StreamRing_proofs`, for every ring size, chunking, packet size, guard,
prefill, number of writers and FIFO:

* `TypeCorrect`: type correctness with the position of the thread in its loops;
* `RingSafe`: `SafeInv` is invariant;
* `WindowAlwaysIntact`, `PointerAlwaysInWindow`, `AlwaysInOrder`: the safety
  properties of the runs, from `SafeInv`;
* `MeetsReaderContract`: every step is a step of `RingConsumer` or a stutter;
* `EndAccounted`, `DoneAlwaysMeansAll`, `CompletedAlwaysMeansSent`: the end of
  the stream.  What has been written, what waits and what is still to be made add
  up to the stream, beats and packets alike, so a loader that reports success
  committed every chunk, and a completed replay sent every packet;
* `AbortAlwaysHasCause`: the loader reports a ring error only when the reader has
  raised one, and a read pointer beyond its own only after the reader's counter has
  carried into its HI word.  Until then nothing can be torn (`LowRead`): the value
  that is compared is one the reader had, and that is never beyond `write_count`.

All but `TypeCorrect` assume `Capacity <= Word`: one ring capacity is at most 2^32
bytes.  Without it they are false: with a ring of several words a torn value can
pass the loader's check, and unread beats are overwritten.  The other assumptions
are `StreamAssumption` and `RingAssumption`, the checks `main` makes before it
starts.

The argument.  The loader reserves space against a read pointer it sampled in
two halves.  `TornRead` (in `ModLemmas`) says that joining the HI word of a
later value to the LO word of an earlier one gives the earlier value, or one at
least a word too large.  The first is safe, as the reader only moves forward;
the second exceeds `write_count`, as long as a word holds a capacity, and
is refused.  So a reservation ends within one capacity of the reader, hence the
positions between the reader and the end of the reservation have distinct
addresses (`AddressDistinct`), and a beat a job writes is never one that is
still to be delivered.

`StripedLoader_proofs`, for every list of blocks, number of reader threads,
window, queue, ring size and guard:

* `StagedSafe`: main takes the blocks of the stream in their order and, when it
  ends without an error, to the last one;
* `DirectSafe`: no worker writes where the reader has still to read, and the
  reader only meets whole blocks (with `Capacity <= Word`);
* `DirectMeetsContract`: every step of the direct path is a step of
  `RingConsumer` or a stutter (with `Capacity <= Word`).

The argument is that of `StreamRing` with blocks that complete in any order.  A
block that is being copied is not complete, so the prefix that is committed ends
before it: the reader is at or before `write_count`, which is at or before the
place the worker writes, which is before the end of what is reserved, which is
within one capacity of the reader.  The beat written and every unread one thus
differ in their address.  A polled STREAM_RD is carried from one half to the
other by `TornRead`, while all workers but the one that polls go on.

`DdrStreamReader_proofs`, for every segment size, one bank or two, every burst
length and command queue:

* `ReaderSafe`, `TypeCorrect`: `ReaderInv` and the types;
* `AlwaysFromItsPlace`, `BurstsNeverCross`: each beat is read where the loader
  wrote it.  `AddressStep` (from `ModAdd`) says that stepping an offset, and
  flipping the bank at the end of a segment, is the loader's division by the
  capacity, as long as no burst runs over the end;
* `AlwaysWithinRing`, `AlwaysEndsExactly`: for any host.  What is decided on old
  samples stays right because the delivered count only grows, and because a
  recorded end of input is compared with the pointer of the current clock;
* `NeverFalseError`, `MeetsConsumer`: for a host that commits within the window.

`AxisSyncFifo_proofs`, for every depth, output depth and read latency:
`FifoSafe` (`FifoInv`), `LevelAlwaysExact`, `NeverOverflows` and `MeetsChannel`.
The invariant places every beat by its number in one of its six places; the
ready bit is a clock old, so a beat may be accepted and another be in the input
register on top of `READY_LEVEL`, which is where the two come from.

`ReplayTiming_proofs` on the scheduler, for every depth, setting and gap: `SchedulerSafe`
(`SchedulerInv`), `IsNeverEarly`, `LateMarkIsExact` and `MeetsChannel`.  The
invariant counts every record by its place (`InOrder`) and says what the two
registered bits mean one clock after they were computed (`DueBitsInTime`); the
load that follows is then exact by one step (`LoadOnTime`).  `AlwaysOnTime`
proves `OnTime` for every depth, trace and restart under `Unhindered`, the
setting of `scheduler_ontime`: no pause, a link that always takes, gaps of at
least one tick and a source five ticks ahead.  Its invariant `PromptInv` gives each
register a lead: a record in the stage register is four ticks ahead of its target,
in the RAM three, in the prefetch register two, in the head one.  A record that has
to wait keeps its lead because the one in front of it waits for a target that is
earlier by a tick at least (`TargetsRise`).

`ReplayTiming_proofs` on the file tools, for every sequence of captures and synthetic
sources, tick rate, frame limits, number of lanes, block size and kill:

* `TraceHolds`, `StreamStaysFaithful`: each record carries its packet's frame, and is
  due within half a tick of it;
* `StripingHolds`, `StripesAlwaysReassemble`: the block list of a finished run tells
  where each record is, in order, none twice.

Time.  `Accumulates` ties the gaps to a function of ticks, each near its packet's
time; it exists after every step, and `TickOf` is that function.  The tick of the
next packet is rounded from the first one (`RoundNear`), never from the one before, so
an error is never passed on.  A time stamp that runs backwards takes the tick of
the latest one so far (`Latest`); that this is still the tick of a rounded time needs
`RoundMonotone`: the latest of the rounded times is the rounded latest.  Payload.
`DataInv` is stated for the beats that are there: a kill cuts `desc.bin` and
`data.bin` at unrelated places, and a descriptor may point behind the end of the
data, which is where `trace_to_stream` stops.

Striping.  `EntryHolds` says of one entry of the list where its block is and that it
is a run of whole records, `Cut`, of the stream; `BlocksHold` that each run begins
where the one before ended.  The block under way satisfies the same with the entry
it would get if it were finished now (`UnderWay`), so finishing a block proves nothing
new.  A record that is put makes one file longer (`PutKept`), which keeps what the
entries of every other block read (`EntryKept`); a file that is opened is emptied,
and is never one of a finished block, since its path has another block number
(`NextBlockKept`), while a container is only opened at the start
(`FirstBlockKept`) and ends, lane by lane, where the offsets say the next block
begins (`LanesKnown`).  `FlattenGrows` and `FlattenIs` give what the fold of the
community module yields for one sequence more, by `Induction` over the naturals,
which takes a set in place of a predicate; `ReadBack` then reads the list.

`XdmaStreamRing_proofs`, for every ring size, guard, prefill and set of stream
files, with `Ring <= Word`: `SessionsSafe` (`SessionInv`), `SessionsInOrder` and
`SessionsMeetContract`.  `ReaderOwned` says that a session which has not started
the reader has stopped it, which makes the pointers its own from `configure` on;
`WritePointers` keeps what it writes within one ring of the reader; `PollSound`
carries a polled STREAM_RD from its LO word to the decision by `TornRead`, as for
the other loader.  The beats in the ring are at distinct slots
(`WindowDistinct`), so those of the session (`SessionInRing`) and those
published to a reader that runs (`CommittedIntact`) survive each copy.  The two
are needed separately, since a killed session's reader runs on while the next
session has not yet got as far as stopping it.  `CompletionIsWhole` is the end of
a session: `FileInv` ties the packet count it has published to the records that
end within the beats it has sent, so the count that `replay_done` waits for is
that of the file, and the loop is left only behind the last record of a whole one.

`ReplayTools_proofs`, for every number of ports, every trace of two packets or
more, every warm-up and delay, any number of faults, and any number of
invocations, each of which may be cut after any access:

* `VerdictIsTrue`: a check that prints PASS is right about its own replay
  (`PassIsTrue`, with the exception named there);
* `SyncStartAligns`: ports that were armed in time begin together, at their target;
* `InvariantsHold`: the invariant both rest on.

Its parts: nothing on the board is of a run that has not begun (`RunsSoFar`); a port
armed in time waits for its target, in the core or at the cable (`SyncInv`); a port
that a tool's loop is done with is clear, or replays for this invocation and counts
each packet that leaves (`ToolInv`); and what a check can count is bounded by what its
replay did (`MeasureInv`): a packet that left and was not counted leaves the count
short, a damaged one an error count, one that was not captured a gap in the ring
that the check has wiped.  A check that passes has as many samples as the trace has
packets, and no more packets than that have left the port, so the samples are those
packets, one by one, and none of them was lost (`QuietPass`).  Their
number follows from what the verdict compares (`PassCounts`,
`GapsLength`).

Model-checked only: liveness (`Terminates`, `SessionEnds`, `LoaderEnds`, `Delivers`,
`Ends`, `PointerFaultReported`, `ReadyAgain`, `Drains`, `Leaves`).  A proof would
have to say when a step is ENABLED, from the fairness of the specification, and the
provers here do not reason about that.

Every other property of the passing runs is the conclusion of a theorem.  The two
runs that end in a violation check what a document or a message says, and their
counterexamples are all there is to show.

## Findings

1. `stream_torn_read`: `read64` of STREAM_RD is not atomic and the registers do
   not latch the HI word; across a 2^32-byte boundary the loader aborts with a
   message that is not true.
2. `stale_sync`: `docs/preload.md` says that long FPGA uptime cannot make a newly
   loaded trace late.  SCHED_CTRL keeps the bit a synchronized start sets, only
   `sync-enable off` clears it and the loader does not write it, so a trace
   loaded afterwards is timed by the global timebase and is late.

Seen while modelling, without a statement of the repository it would contradict:
a watermark above `FifoMax` is never reached, so a stream longer than the FIFO
does not start; `rx_trace_interval_check.py` accepts more packets than it sent,
so a leftover one can stand in for a missing one (the exception in `PassIsTrue`);
`preload_stress_test.py` reports a case that timed out without a drop as passed.
Of the striped loader's direct path: `--reader-threads 0` and
`--reader-window-blocks 0`, given explicitly, are not replaced by a default and
leave main waiting for ever (the model has at least one of each); it may start the board before the
prefill is reached when a poll interval passes.  After an error the staged path
stops the board only once the producer has been joined, and the handler closes
the H2C devices while asynchronous jobs may still be writing.

## Not modelled

* `host_stream_parser.sv`, `ddr_trace_reader.sv`, `axis_async_fifo.v`,
  `scheduled_axis_async_fifo.sv`, `lbus_to_axis_512.sv`, and the inside of the
  replay core, TX engine and RX capture below the level of packets.  So a replay
  restarted without a stop starts cleanly in `ReplayBoard`, while the TX engine
  stays in the frame it is in until that is out.
* Of the C++ loader: `--no-wait`, and the records the producer parses out of a
  single stream file (a chunk is a number of whole packets).
* The contents of the DDR under PRELOAD: every invocation replays the same trace.
* The validation suites that run the tools above and collect their reports
  (`hw_validation_suite.py`, `stream_stress_test.py`, `replay_precision_suite.py`,
  `preload_precision_check.py`, `ddr_readback_check.py`, `xdma_h2c_bench.cpp`);
  the debug switches and `write-reg` of `traffic_replay_cli.py`.
* Formatting and argument parsing of the tools, the reports they print, the
  block-design wrappers and build scripts (no state), the XDMA driver and the
  CMAC (external; only how the code uses them).

See `components` in PROJECT.json for each part.

## Plan

Done: the staged loader, the striped loader in both paths and the Python loader,
the ring, the reader, the synchronous FIFO, the scheduler, the file tools, the command
line tools and the checks, with their proofs.  What is left, in this order:

1. `HostStreamParser`, `ReplayTxEngine`, and `ReplayCore` which composes them
   with `ReplayScheduler`, the TX watchdog (auto-drop) and `replay_done`: one
   packet out for each record in, never before its time, done exactly at the
   end.  Refines a specification of "records in, packets out, in order".
2. `AxisAsyncFifo` (implements `AxisChannel`), the scheduled FIFO and the
   timebase: Gray-coded pointers that each side sees late.
3. `DdrTraceReader` (PRELOAD, LOOP): two fetch engines on one AXI port, loop
   restart.
4. CMAC adapters and RX capture: whole frames only; records and statistics
   across a clear.
5. Proofs: no overflow and order of the asynchronous FIFO; order of the replay
   pipeline.
