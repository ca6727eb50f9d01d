----------------------------- MODULE StreamRing -----------------------------
(***************************************************************************)
(* STREAM mode end to end: the staged loader of xdma_stream_ring_fast.cpp, *)
(* its asynchronous H2C jobs, the DDR ring, the BAR registers the two      *)
(* sides meet in, the ring reader (RingConsumer) and what trace_replay_core*)
(* puts behind it: the prefetch FIFO, the watermark gate and replay_done.  *)
(*                                                                         *)
(* Amounts are 64-byte beats; beat k of the stream carries the value k.    *)
(* A 64-bit register is read and written as two words: LO is the value     *)
(* modulo Word, HI the value divided by Word (Word is 2^32 bytes in beats).*)
(***************************************************************************)
EXTENDS RingConsumer, Sequences, FiniteSets

CONSTANTS Chunks,     \* sequence of chunk sizes, in packets: what the producer queue yields
          PktBeats,   \* beats of one stream record: header and padded payload
          Guard,      \* guard_bytes
          Prefill,    \* prefill_bytes after the clamping in main
          Writers,    \* writer_threads
          Word,       \* beats a 32-bit register word can count
          FifoDepth,  \* STREAM_FIFO_DEPTH
          FifoMargin, \* beats of it axis_sync_fifo never fills (READY_MARGIN less
                      \* what is accepted before tready falls: 13 of 8192)
          Watermark,  \* cfg_watermark in beats
          Faults      \* H2C writes, DDR reads and the source may fail, timeouts strike

ASSUME StreamAssumption ==
    /\ RingSizeValid
    /\ PktBeats \in Nat \ {0} /\ Word \in Nat \ {0}
    /\ Guard \in 1..(Capacity - 1)
    /\ Prefill \in 1..(Capacity - Guard)
    /\ Writers \in Nat \ {0}
    /\ FifoDepth \in Nat \ {0} /\ FifoMargin \in 0..(FifoDepth - 1)
    /\ Watermark \in Nat
    /\ Faults \in BOOLEAN
    /\ Chunks \in Seq(Nat \ {0})

VARIABLES
    mem,                     \* the DDR ring: <<bank, beat offset>> -> stream beat
    write_shadow,            \* LO word waiting for the HI write
    pkt_count,               \* cfg_pkt_count
    replay_running, stream_prefetch_active,
    got,                     \* history: what the reader delivered
    sent,                    \* beats that left through the TX engine
    pc, phase,               \* where the feeding thread is, and what it returns to
    next,                    \* next chunk the producer queue yields
    reserved_count, write_count, packet_count, started,
    write_jobs,              \* asynchronous H2C writes, oldest first
    rd_lo, rd,               \* words of STREAM_RD as the loader read them
    outcome                  \* how the loader ended: "", "completed" or an error

ddr == <<mem, got>>
replay == <<replay_running, stream_prefetch_active, sent>>
board == <<ddr, write_shadow, pkt_count, replay>>
source == <<next, reserved_count>>
committed == <<write_count, packet_count>>
polled == <<rd_lo, rd>>
hostVars == <<pc, phase, started, source, committed, write_jobs, polled, outcome>>
vars == <<consumerVars, board, hostVars>>

\* An address no job has written yet.
NoBeat == -1
Banks == IF PingPong THEN {0, 1} ELSE {0}
Addresses == Banks \X (0..(Ring - 1))

Init ==
    /\ ConsumerInit
    /\ mem = [a \in Addresses |-> NoBeat]
    /\ write_shadow = 0 /\ pkt_count = 0
    /\ replay_running = FALSE /\ stream_prefetch_active = FALSE
    /\ got = <<>> /\ sent = 0
    /\ pc = "pop" /\ phase = "feed" /\ next = 1
    /\ reserved_count = 0 /\ write_count = 0 /\ packet_count = 0
    /\ started = FALSE /\ write_jobs = <<>>
    /\ rd_lo = 0 /\ rd = 0 /\ outcome = ""

-----------------------------------------------------------------------------
(* The feeding thread.  phase names the loop a commit was called from:     *)
(* "feed" (a chunk is waiting), "drain" (the source is exhausted), "last"  *)
(* (the final start).                                                      *)

\* The catch block, or a wait_done that timed out: stop, clear, give up.
Fail(why) == pc' = "stop" /\ outcome' = why

ChunkBeats == Chunks[next] * PktBeats

\* queue.pop: a complete chunk, or the end of the source.
PopChunk ==
    /\ pc = "pop"
    /\ IF next > Len(Chunks)
       THEN pc' = "drain" /\ phase' = "drain" /\ UNCHANGED outcome
       ELSE IF ChunkBeats + Guard > Capacity
            THEN Fail("chunk too large") /\ UNCHANGED phase
            ELSE pc' = "ready" /\ UNCHANGED <<phase, outcome>>
    /\ UNCHANGED <<consumerVars, board, source, committed, started, write_jobs, polled>>

\* The producer's exception, rethrown once its queue has run dry, or a packet
\* count other than the manifest's, after the last commit.
SourceFails ==
    /\ Faults
    /\ pc = "pop" \/ (pc = "drain" /\ write_jobs = <<>>)
    /\ Fail("bad source")
    /\ UNCHANGED <<consumerVars, board, phase, source, committed, started,
                   write_jobs, polled>>

\* Mutant of JobEnd: the commit publishes everything that is reserved.
JobEnd_Reserved(job) == reserved_count

JobEnd(job) == job.begin + job.beats
JobReady(job) == job.failed \/ job.done = job.beats

\* Mutant of TakeFront: future.wait() in place of get(), so that the
\* exception of a failed H2C write is never seen.
TakeFront_Unchecked ==
    /\ pc \in {"ready", "front", "drain"}
    /\ write_jobs # <<>>
    /\ JobReady(Head(write_jobs))
    /\ write_count' = JobEnd(Head(write_jobs))
    /\ packet_count' = packet_count + Head(write_jobs).packets
    /\ write_jobs' = Tail(write_jobs)
    /\ pc' = "wrlo"
    /\ UNCHANGED <<consumerVars, board, source, phase, started, polled, outcome>>

\* commit_ready_jobs, up to the register write: the future of the oldest job
\* is ready, and only that job's bytes become committed.
TakeFront ==
    /\ pc \in {"ready", "front", "drain"}
    /\ write_jobs # <<>>
    /\ JobReady(Head(write_jobs))
    /\ IF Head(write_jobs).failed
       THEN /\ Fail("H2C write failed")
            /\ UNCHANGED <<write_count, packet_count, write_jobs>>
       ELSE /\ write_count' = JobEnd(Head(write_jobs))
            /\ packet_count' = packet_count + Head(write_jobs).packets
            /\ write_jobs' = Tail(write_jobs)
            /\ pc' = "wrlo"
            /\ UNCHANGED outcome
    /\ UNCHANGED <<consumerVars, board, source, phase, started, polled>>

\* Mutant of WriteLo: the LO word takes effect at once, without the shadow.
WriteLo_Commits ==
    /\ pc = "wrlo"
    /\ write_shadow' = write_count % Word
    /\ ring_write' = (ring_write \div Word) * Word + (write_count % Word)
    /\ pc' = "wrhi"
    /\ UNCHANGED <<eof, state, read_count, error, ddr, pkt_count, replay, source,
                   committed, phase, started, write_jobs, polled, outcome>>

\* write64(STREAM_WR): LO goes to the shadow, HI commits both words.
WriteLo ==
    /\ pc = "wrlo"
    /\ write_shadow' = write_count % Word
    /\ pc' = "wrhi"
    /\ UNCHANGED <<consumerVars, ddr, pkt_count, replay, source, committed, phase,
                   started, write_jobs, polled, outcome>>

Resume == CASE phase = "feed" -> "ready"
            [] phase = "drain" -> "drain"
            [] phase = "last" -> "wait"

WriteHi ==
    /\ pc = "wrhi"
    /\ ring_write' = (write_count \div Word) * Word + write_shadow
    /\ pc' = IF ~started /\ write_count >= Prefill THEN "start" ELSE Resume
    /\ UNCHANGED <<eof, state, read_count, error, board, source, committed, phase,
                   started, write_jobs, polled, outcome>>

\* start_replay, and the start pulse in trace_replay_core and the reader.
StartReplay ==
    /\ pc = "start"
    /\ StartReader
    /\ replay_running' = TRUE
    /\ stream_prefetch_active' = FALSE
    /\ started' = TRUE
    /\ pc' = Resume
    /\ UNCHANGED <<ddr, write_shadow, pkt_count, sent, source, committed, phase,
                   write_jobs, polled, outcome>>

\* commit_ready_jobs(false) has nothing (more) to commit; feed_timeout.
EnterPoll ==
    /\ pc = "ready"
    /\ write_jobs # <<>> => ~JobReady(Head(write_jobs))
    /\ \/ pc' = "rdlo" /\ UNCHANGED outcome
       \/ Faults /\ Fail("feed timeout")
    /\ UNCHANGED <<consumerVars, board, source, committed, phase, started,
                   write_jobs, polled>>

\* read64(STREAM_RD): two reads of a counter that keeps moving.
ReadLo ==
    /\ pc = "rdlo"
    /\ rd_lo' = read_count % Word
    /\ pc' = "rdhi"
    /\ UNCHANGED <<consumerVars, board, source, committed, phase, started,
                   write_jobs, rd, outcome>>

ReadHi ==
    /\ pc = "rdhi"
    /\ rd' = (read_count \div Word) * Word + rd_lo
    /\ pc' = "decide"
    /\ UNCHANGED <<consumerVars, board, source, committed, phase, started,
                   write_jobs, rd_lo, outcome>>

\* check_stream_status: error, overrun or pointer-error bit.
StreamFatal == error \/ (state = "run" /\ ~PointerOK)

\* Mutant of Level: only committed beats count, not those in flight.
Level_Committed == write_count - rd

Level == reserved_count - rd
\* Mutant of Free: guard_bytes forgotten.
Free_NoGuard == IF Level >= Capacity THEN 0 ELSE Capacity - Level

Free == IF Level + Guard >= Capacity THEN 0 ELSE Capacity - Level - Guard
PollOK == pc = "decide" /\ ~StreamFatal /\ rd <= write_count
CanIssue == Free >= ChunkBeats /\ Len(write_jobs) < Writers

PollAbort ==
    /\ pc = "decide"
    /\ \/ StreamFatal /\ Fail("stream ring error")
       \/ ~StreamFatal /\ rd > write_count /\ Fail("read pointer advanced past write pointer")
    /\ UNCHANGED <<consumerVars, board, source, committed, phase, started,
                   write_jobs, polled>>

\* Reserve the window and hand the chunk to an asynchronous H2C write.
IssueJob ==
    /\ PollOK
    /\ CanIssue
    /\ write_jobs' = Append(write_jobs,
           [begin |-> reserved_count, beats |-> ChunkBeats,
            packets |-> Chunks[next], done |-> 0, failed |-> FALSE])
    /\ reserved_count' = reserved_count + ChunkBeats
    /\ next' = next + 1
    /\ pc' = "pop"
    /\ UNCHANGED <<consumerVars, board, committed, phase, started, polled, outcome>>

\* Mutant of NoRoom: no early start when the prefill is out of reach.
NoRoom_NoStart ==
    /\ PollOK
    /\ ~CanIssue
    /\ pc' = IF write_jobs # <<>> THEN "front" ELSE "ready"
    /\ UNCHANGED <<consumerVars, board, source, committed, phase, started,
                   write_jobs, polled, outcome>>

\* No room: wait for the oldest job, start on what is there, or sleep.
NoRoom ==
    /\ PollOK
    /\ ~CanIssue
    /\ pc' = IF write_jobs # <<>> THEN "front"
             ELSE IF ~started /\ write_count # 0 THEN "start" ELSE "ready"
    /\ UNCHANGED <<consumerVars, board, source, committed, phase, started,
                   write_jobs, polled, outcome>>

\* Mutant of WritePktCount: the jobs still in flight are not waited for.
WritePktCount_Early ==
    /\ pc = "drain"
    /\ pkt_count' = packet_count
    /\ pc' = "eof"
    /\ UNCHANGED <<consumerVars, ddr, write_shadow, replay, source, committed,
                   phase, started, write_jobs, polled, outcome>>

\* Everything is committed: the packet count, then EOF, then a start if the
\* whole stream was shorter than the prefill.
WritePktCount ==
    /\ pc = "drain"
    /\ write_jobs = <<>>
    /\ pkt_count' = packet_count
    /\ pc' = "eof"
    /\ UNCHANGED <<consumerVars, ddr, write_shadow, replay, source, committed,
                   phase, started, write_jobs, polled, outcome>>

WriteEof ==
    /\ pc = "eof"
    /\ RaiseEof
    /\ phase' = "last"
    /\ pc' = IF started THEN "wait" ELSE "start"
    /\ UNCHANGED <<board, source, committed, started, write_jobs, polled, outcome>>

\* Mutant of ReplayDone: the packets still in the FIFO are not counted.
ReplayDone_ReaderOnly == state = "done"

ReplayDone == /\ state = "done"
              /\ error \/ pkt_count = 0 \/ sent \div PktBeats >= pkt_count

\* wait_done: done and no longer running, or the timeout.
WaitDone ==
    /\ pc = "wait"
    /\ \/ ReplayDone /\ ~replay_running /\ pc' = "end" /\ outcome' = "completed"
       \/ Faults /\ Fail("replay timeout")
    /\ UNCHANGED <<consumerVars, board, source, committed, phase, started,
                   write_jobs, polled>>

\* Mutant of WriteStop: the stop pulse does not reach replay_running.
WriteStop_KeepsRunning ==
    /\ pc = "stop"
    /\ StopReader
    /\ stream_prefetch_active' = FALSE /\ sent' = 0
    /\ pc' = "clear"
    /\ UNCHANGED <<ddr, write_shadow, pkt_count, replay_running, source, committed,
                   phase, started, write_jobs, polled, outcome>>

\* stop_and_clear: the stop pulse resets the reader, the FIFO and the TX
\* counters; H2C jobs still in flight go on writing the ring.
WriteStop ==
    /\ pc = "stop"
    /\ StopReader
    /\ replay_running' = FALSE /\ stream_prefetch_active' = FALSE /\ sent' = 0
    /\ pc' = "clear"
    /\ UNCHANGED <<ddr, write_shadow, pkt_count, source, committed, phase,
                   started, write_jobs, polled, outcome>>

WriteClear ==
    /\ pc = "clear"
    /\ ClearRegisters
    /\ write_shadow' = 0
    /\ pc' = "end"
    /\ UNCHANGED <<ddr, pkt_count, replay, source, committed, phase, started,
                   write_jobs, polled, outcome>>

-----------------------------------------------------------------------------
(* The asynchronous H2C writes.                                            *)

JobWrites(j) ==
    LET job == write_jobs[j]
        n == job.begin + job.done
    IN  /\ ~JobReady(job)
        /\ mem' = [mem EXCEPT ![Address(n)] = n]
        /\ write_jobs' = [write_jobs EXCEPT ![j].done = @ + 1]
        /\ UNCHANGED <<consumerVars, got, write_shadow, pkt_count, replay, pc,
                       phase, started, source, committed, polled, outcome>>

JobFails(j) ==
    /\ Faults
    /\ ~JobReady(write_jobs[j])
    /\ write_jobs' = [write_jobs EXCEPT ![j].failed = TRUE]
    /\ UNCHANGED <<consumerVars, board, pc, phase, started, source, committed,
                   polled, outcome>>

-----------------------------------------------------------------------------
(* The board.  PointerFault of the reader is not a step here: the invariant *)
(* PointerInWindow is that this host never enables it.                      *)

\* How full the prefetch FIFO gets, and the level the gate waits for.
FifoMax == FifoDepth - FifoMargin
stream_fifo_level == read_count - sent
stream_fifo_watermark_beats ==
    IF Watermark = 0 THEN 1 ELSE IF Watermark >= FifoDepth THEN FifoDepth ELSE Watermark

DeliverBeat ==
    /\ stream_fifo_level < FifoMax
    /\ \E bad \in BOOLEAN : (bad => Faults) /\ ConsumeBeat(bad)
    /\ got' = Append(got, mem[Address(read_count)])
    /\ UNCHANGED <<mem, write_shadow, pkt_count, replay, hostVars>>

ReaderFinishes == FinishReader /\ UNCHANGED <<board, hostVars>>

\* stream_prefetch_active: latched at the watermark or at the end of input.
OpenGate ==
    /\ replay_running /\ ~stream_prefetch_active
    /\ stream_fifo_level >= stream_fifo_watermark_beats \/ state = "done"
    /\ stream_prefetch_active' = TRUE
    /\ UNCHANGED <<consumerVars, ddr, write_shadow, pkt_count, replay_running,
                   sent, hostVars>>

SendBeat ==
    /\ replay_running /\ stream_prefetch_active
    /\ sent < read_count
    /\ sent' = sent + 1
    /\ UNCHANGED <<consumerVars, ddr, write_shadow, pkt_count, replay_running,
                   stream_prefetch_active, hostVars>>

HaltReplay ==
    /\ replay_running
    /\ ReplayDone
    /\ replay_running' = FALSE
    /\ UNCHANGED <<consumerVars, ddr, write_shadow, pkt_count, sent,
                   stream_prefetch_active, hostVars>>

Terminated == pc = "end" /\ UNCHANGED vars

HostStep ==
    \/ PopChunk \/ SourceFails \/ TakeFront \/ WriteLo \/ WriteHi \/ StartReplay \/ EnterPoll
    \/ ReadLo \/ ReadHi \/ PollAbort \/ IssueJob \/ NoRoom
    \/ WritePktCount \/ WriteEof \/ WaitDone \/ WriteStop \/ WriteClear

BoardStep ==
    \/ DeliverBeat \/ ReaderFinishes
    \/ OpenGate \/ SendBeat \/ HaltReplay

Next ==
    \/ HostStep
    \/ BoardStep
    \/ \E j \in DOMAIN write_jobs : JobWrites(j) \/ JobFails(j)
    \/ Terminated

Spec == Init /\ [][Next]_vars

TimesOut == outcome' # outcome /\ outcome' \in {"feed timeout", "replay timeout"}

\* The loader's threads keep running, H2C writes and DDR reads are answered,
\* and the board is clocked.  A timeout need not strike.
Fairness ==
    /\ WF_vars(HostStep /\ ~TimesOut)
    /\ WF_vars(\E j \in DOMAIN write_jobs : JobWrites(j))
    /\ WF_vars(DeliverBeat)
    /\ WF_vars(ReaderFinishes)
    /\ WF_vars(OpenGate)
    /\ WF_vars(SendBeat)
    /\ WF_vars(HaltReplay)

FairSpec == Spec /\ Fairness

-----------------------------------------------------------------------------
(* Properties.                                                             *)

Job == [begin : Nat, beats : Nat \ {0}, packets : Nat, done : Nat, failed : BOOLEAN]

Outcomes == {"", "completed", "chunk too large", "H2C write failed", "feed timeout",
             "bad source", "stream ring error", "read pointer advanced past write pointer",
             "replay timeout"}

\* Every variable has the shape the code gives it (one type invariant for
\* the loader, the registers and the board).
TypeOK ==
    /\ ConsumerTypeOK
    /\ mem \in [Addresses -> Nat \cup {NoBeat}]
    /\ write_shadow \in 0..(Word - 1)
    /\ pkt_count \in Nat
    /\ replay_running \in BOOLEAN /\ stream_prefetch_active \in BOOLEAN
    /\ got \in Seq(Nat \cup {NoBeat})
    /\ sent \in Nat
    /\ pc \in {"pop", "ready", "front", "drain", "wrlo", "wrhi", "start", "rdlo",
               "rdhi", "decide", "eof", "wait", "stop", "clear", "end"}
    /\ phase \in {"feed", "drain", "last"}
    /\ next \in 1..(Len(Chunks) + 1)
    /\ reserved_count \in Nat /\ write_count \in Nat /\ packet_count \in Nat
    /\ started \in BOOLEAN
    /\ write_jobs \in Seq(Job)
    /\ rd_lo \in 0..(Word - 1)
    /\ rd \in Nat
    /\ outcome \in Outcomes

\* Every beat between the read pointer and the committed write pointer is in
\* the ring, whole and current: a commit never runs ahead of the H2C writes,
\* out of order as they finish, and no write lands on a beat the reader has
\* not delivered (docs/stream_ring_mode.md, "Overwrite Protection").
WindowIntact ==
    state = "run" =>
        \A k \in read_count..(ring_write - 1) : mem[Address(k)] = k

\* What the reader has delivered is the stream from its first beat, in order
\* and unaltered, also after failed writes, timeouts and aborts.
InOrderDelivery == \A i \in DOMAIN got : got[i] = i - 1

\* The loader never makes the reader see a pointer it would reject.
PointerInWindow == state = "run" => PointerOK

\* The reader only finishes a stream that was committed to the end, and by
\* then the packet count that replay_done compares against is the final one.
DoneMeansAll ==
    state = "done" /\ ~error =>
        /\ next > Len(Chunks)
        /\ read_count = reserved_count
        /\ PktBeats * pkt_count = reserved_count

\* "completed" without a reader error: every beat of every chunk went out.
CompletedMeansSent ==
    outcome = "completed" /\ ~error =>
        /\ sent = reserved_count /\ Len(got) = sent /\ next > Len(Chunks)

\* The loader and the H2C writes meet the contract the ring reader is
\* verified against: pointers only grow, within one capacity of the reader.
ReaderContract == ConsumerSpec

\* The loader, the ring and the board never wait for each other: whatever
\* fails, and with no help from a timeout, the loader comes to an end with the
\* board stopped.
Terminates == <>[](pc = "end" /\ ~replay_running)

\* The loader does not give up a board that is well: it reports a ring error
\* only if a DDR read failed, and a runaway read pointer only where the counter
\* has carried into its upper word (PointerAbortIsReal below).
AbortHasCause ==
    pc = "stop" => /\ outcome = "stream ring error" => error
                   /\ outcome = "read pointer advanced past write pointer" => read_count >= Word

\* "FPGA read pointer advanced past host write pointer" is what the loader
\* reports; it should be true of the pointer it read.
PointerAbortIsReal ==
    outcome = "read pointer advanced past write pointer" /\ pc = "stop" =>
        read_count > write_count

-----------------------------------------------------------------------------
(* The inductive invariant behind WindowIntact, part by part.              *)

Live == pc \notin {"clear", "end"}

\* Jobs that cover the stream from lo to hi without gap or overlap.
Tile(jobs, lo, hi) ==
    /\ jobs = <<>> => lo = hi
    /\ jobs # <<>> => jobs[1].begin = lo /\ JobEnd(jobs[Len(jobs)]) = hi
    /\ \A i \in DOMAIN jobs :
          /\ lo <= jobs[i].begin /\ JobEnd(jobs[i]) <= hi
          /\ jobs[i].done <= jobs[i].beats
          /\ i + 1 \in DOMAIN jobs => jobs[i + 1].begin = JobEnd(jobs[i])
    /\ \A i, j \in DOMAIN jobs : i < j => JobEnd(jobs[i]) <= jobs[j].begin

JobsTile == Tile(write_jobs, write_count, reserved_count)

PointersOrdered ==
    Live => /\ read_count <= ring_write /\ ring_write <= write_count
            /\ write_count <= reserved_count
            /\ reserved_count + Guard <= read_count + Capacity

CommittedInRing ==
    Live => \A k \in read_count..(write_count - 1) : mem[Address(k)] = k

WrittenInRing ==
    Live => \A i \in DOMAIN write_jobs :
        \A k \in write_jobs[i].begin..(write_jobs[i].begin + write_jobs[i].done - 1) :
            mem[Address(k)] = k

\* The LO word is that of a position recent enough to bound the reservation,
\* and the combined value is either no newer than the counter or refused.
PollSound ==
    /\ pc = "rdhi" => \E r \in 0..read_count :
                         /\ rd_lo = r % Word
                         /\ reserved_count + Guard <= r + Capacity
    /\ pc = "decide" => rd <= read_count \/ rd > write_count

ShadowIsLo == pc = "wrhi" => write_shadow = write_count % Word

LoopPosition ==
    /\ pc \in {"pop", "ready", "front", "rdlo", "rdhi", "decide"} => phase = "feed"
    /\ pc = "drain" => phase = "drain"
    /\ phase = "feed" /\ pc \in {"ready", "front", "rdlo", "rdhi", "decide", "wrlo",
                                 "wrhi", "start"} => next <= Len(Chunks)
    /\ pc = "start" => ~started
    /\ Live /\ ~started => state = "idle" /\ read_count = 0
    /\ ~Live => state # "run"
    /\ pc = "clear" => state = "idle"

SafeInv ==
    /\ TypeOK /\ JobsTile /\ PointersOrdered /\ CommittedInRing /\ WrittenInRing
    /\ PollSound /\ ShadowIsLo /\ LoopPosition

-----------------------------------------------------------------------------
(* What DoneMeansAll and CompletedMeansSent need besides: the end of the   *)
(* stream, part by part.                                                   *)

\* The loader counts in packets what it commits in beats, and between two
\* commits the register holds what is committed.
PacketsCounted ==
    /\ \A i \in DOMAIN write_jobs : write_jobs[i].beats = write_jobs[i].packets * PktBeats
    /\ write_count = packet_count * PktBeats
    /\ phase # "feed" => next > Len(Chunks)
    /\ Live /\ pc \notin {"wrlo", "wrhi"} => ring_write = write_count

\* From EOF on nothing is in flight and both registers are final; a reader
\* that is done without an error got there by EOF.
Sealed ==
    /\ phase = "last" => pc \in {"start", "wait", "stop", "clear", "end"}
    /\ pc = "eof" => phase = "drain"
    /\ pc = "eof" \/ phase = "last" => write_jobs = <<>> /\ pkt_count = packet_count
    /\ eof => phase = "last"
    /\ state = "done" /\ ~error =>
          phase = "last" /\ read_count = ring_write /\ ring_write = write_count

\* A completed loader leaves a board that has stopped and sends no more.
Departed ==
    /\ sent <= read_count
    /\ outcome = "completed" => pc = "end" /\ ~replay_running /\ state = "done"
    /\ outcome = "completed" /\ ~error => sent = read_count /\ Len(got) = read_count

EndInv == PacketsCounted /\ Sealed /\ Departed
=============================================================================
