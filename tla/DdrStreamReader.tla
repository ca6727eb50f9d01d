--------------------------- MODULE DdrStreamReader ---------------------------
(***************************************************************************)
(* rtl/ddr_stream_reader.sv, one step per clock, with the AXI slave it     *)
(* reads from and the registers it is fed by.  Between two clocks the host *)
(* may commit, raise EOF, clear and pulse start or stop.                   *)
(*                                                                         *)
(* Amounts are 64-byte beats.  The state, read_count and error are those   *)
(* of RingConsumer; everything here is the machinery behind them.          *)
(***************************************************************************)
EXTENDS RingConsumer, Sequences

CONSTANTS MAX_BURST_BEATS,
          CMD_DEPTH,    \* MAX_OUTSTANDING_BURSTS after its lower clamp
          MaxWrite,     \* bound: the highest pointer the host commits
          Rogue,        \* the host may commit any pointer, also a wrong one
          Faults        \* the memory may answer with an error

ASSUME ReaderAssumption ==
    /\ MAX_BURST_BEATS \in Nat \ {0}
    /\ CMD_DEPTH \in Nat /\ CMD_DEPTH >= 2
    /\ MaxWrite \in Nat
    /\ Rogue \in BOOLEAN /\ Faults \in BOOLEAN

VARIABLES
    \* samples of the registers, taken every clock of a run
    ring_write_aligned_q, fatal_ring_error_q,
    input_consumed_q, input_consumed_write_count_q,
    \* where the next burst starts
    issue_count, issue_offset, issue_bank_select,
    \* the burst in the issue pipeline.  At most one of the valid bits
    \* issue_window_raw_valid, issue_window_valid, issue_metrics_valid and
    \* ar_stage_valid is set: stage names it, "none" if none is.
    stage, burst,
    \* cmd_beats_mem: lengths of the bursts still to be answered, oldest first
    cmds, rsp_active, rsp_beats_left,
    \* the AXI slave: the bursts it has accepted, as far as they are not yet
    \* answered; pos (history) is the stream position the reader meant
    slave,
    \* history: the address the last delivered beat was read from
    from

samples == <<ring_write_aligned_q, fatal_ring_error_q,
             input_consumed_q, input_consumed_write_count_q>>
issue == <<issue_count, issue_offset, issue_bank_select, stage, burst>>
response == <<cmds, rsp_active, rsp_beats_left>>
vars == <<consumerVars, samples, issue, response, slave, from>>

NoBurst == [ok |-> FALSE, bank |-> 0, offset |-> 0, avail |-> 0, wrap |-> 0, beats |-> 0]

IdleRegisters ==
    /\ issue_count = 0 /\ issue_offset = 0 /\ issue_bank_select = 0
    /\ stage = "none" /\ burst = NoBurst
    /\ cmds = <<>> /\ rsp_active = FALSE /\ rsp_beats_left = 0
    /\ input_consumed_q = FALSE /\ input_consumed_write_count_q = 0

Init ==
    /\ ConsumerInit
    /\ IdleRegisters
    /\ ring_write_aligned_q = 0 /\ fatal_ring_error_q = TRUE
    /\ slave = <<>> /\ from = <<>>
-----------------------------------------------------------------------------
(* What the reader decides on.                                             *)

Least(a, b) == IF a < b THEN a ELSE b

ring_write_behind == ring_write_aligned_q < read_count
issue_write_behind == ring_write_aligned_q < issue_count
ring_overrun == ring_write_aligned_q - read_count > Capacity

\* Mutant of fatal_ring_error: a pointer is only checked for moving back.
fatal_ring_error_NoOverrun == ring_write_behind \/ issue_write_behind

fatal_ring_error == ring_write_behind \/ issue_write_behind \/ ring_overrun

issue_available_beats == IF issue_write_behind THEN 0 ELSE ring_write_aligned_q - issue_count
ring_beats_to_wrap == Ring - issue_offset

\* Mutant of BurstBeats: the distance to the wrap is forgotten.
BurstBeats_NoWrap(b) == b.avail

\* min_burst_beats_sat of the two saturated amounts.
BurstBeats(b) == IF b.wrap # 0 /\ b.wrap < b.avail THEN b.wrap ELSE b.avail

\* Mutant of issue_req: one burst too many.
issue_req_Late ==
    /\ stage = "metrics"
    /\ ~error /\ ~fatal_ring_error_q
    /\ Len(cmds) <= CMD_DEPTH

\* cmd_accept_ready: with stage "metrics" no burst is in the AR stage.
issue_req ==
    /\ stage = "metrics"
    /\ ~error /\ ~fatal_ring_error_q
    /\ Len(cmds) < CMD_DEPTH

rsp_beats_left_eff == IF rsp_active THEN rsp_beats_left ELSE Head(cmds)
rsp_last_beat == rsp_beats_left_eff <= 1

\* Mutant of pending_empty: bursts that have not begun to answer are forgotten.
pending_empty_NoCmds == stage # "ar" /\ ~rsp_active

pending_empty == stage # "ar" /\ cmds = <<>> /\ ~rsp_active

\* Mutant of InputEnded: no comparison with the pointer of this clock.
InputEnded_Stale == input_consumed_q

\* The input counted as consumed a clock ago, and no pointer came since.
InputEnded == input_consumed_q /\ input_consumed_write_count_q = ring_write
-----------------------------------------------------------------------------
(* The parts of a clock in ST_RUN.                                         *)

\* Mutant of SamplePointers: the end of input is missed by one beat.
SamplePointers_OffByOne ==
    /\ ring_write_aligned_q' = ring_write
    /\ fatal_ring_error_q' = fatal_ring_error
    /\ input_consumed_q' = (eof /\ issue_count > ring_write_aligned_q)
    /\ input_consumed_write_count_q' = ring_write_aligned_q

\* The registers as they are in this clock, and what is decided on those of
\* the clock before.
SamplePointers ==
    /\ ring_write_aligned_q' = ring_write
    /\ fatal_ring_error_q' = fatal_ring_error
    /\ input_consumed_q' = (eof /\ issue_count >= ring_write_aligned_q)
    /\ input_consumed_write_count_q' = ring_write_aligned_q

\* Mutant of AdvanceIssue: a burst that ends the segment does not wrap.
AdvanceIssue_LateWrap ==
    LET next == issue_offset + burst.beats
    IN  /\ issue_count' = issue_count + burst.beats
        /\ issue_offset' = IF next >= Ring THEN next - Ring ELSE next
        /\ issue_bank_select' = IF PingPong /\ next > Ring
                                THEN 1 - issue_bank_select ELSE issue_bank_select
        /\ stage' = "none" /\ burst' = NoBurst

\* The slave takes the burst: the next one begins behind it, past the end of
\* the segment in the other bank.
AdvanceIssue ==
    LET next == issue_offset + burst.beats
    IN  /\ issue_count' = issue_count + burst.beats
        /\ issue_offset' = IF next >= Ring THEN next - Ring ELSE next
        /\ issue_bank_select' = IF PingPong /\ next >= Ring
                                THEN 1 - issue_bank_select ELSE issue_bank_select
        /\ stage' = "none" /\ burst' = NoBurst

\* Mutant of BuildBurst: an empty window stays in the pipeline.
BuildBurst_Holds ==
    /\ \/ /\ stage = "none"
          /\ stage' = "raw"
          /\ burst' = [ok |-> ~fatal_ring_error,
                       bank |-> issue_bank_select, offset |-> issue_offset,
                       avail |-> issue_available_beats, wrap |-> ring_beats_to_wrap,
                       beats |-> 0]
       \/ /\ stage = "raw"
          /\ stage' = "window"
          /\ burst' = [burst EXCEPT !.avail = Least(@, MAX_BURST_BEATS),
                                    !.wrap = Least(@, MAX_BURST_BEATS)]
       \/ /\ stage = "window"
          /\ stage' = "metrics" /\ burst' = [burst EXCEPT !.beats = BurstBeats(burst)]
       \/ /\ stage = "metrics"
          /\ stage' = IF issue_req /\ burst.beats # 0 THEN "ar" ELSE stage
          /\ UNCHANGED burst
    /\ UNCHANGED <<issue_count, issue_offset, issue_bank_select>>

\* Capture, saturate, take the least, present: a stage per clock.  A window
\* without a beat to fetch is captured anew.
BuildBurst ==
    /\ \/ /\ stage = "none"
          /\ stage' = "raw"
          /\ burst' = [ok |-> ~fatal_ring_error,
                       bank |-> issue_bank_select, offset |-> issue_offset,
                       avail |-> issue_available_beats, wrap |-> ring_beats_to_wrap,
                       beats |-> 0]
       \/ /\ stage = "raw"
          /\ stage' = "window"
          /\ burst' = [burst EXCEPT !.avail = Least(@, MAX_BURST_BEATS),
                                    !.wrap = Least(@, MAX_BURST_BEATS)]
       \/ /\ stage = "window"
          /\ IF burst.ok /\ BurstBeats(burst) # 0
             THEN stage' = "metrics" /\ burst' = [burst EXCEPT !.beats = BurstBeats(burst)]
             ELSE stage' = "none" /\ burst' = NoBurst
       \/ /\ stage = "metrics"
          /\ stage' = IF issue_req THEN "ar" ELSE stage
          /\ UNCHANGED burst
    /\ UNCHANGED <<issue_count, issue_offset, issue_bank_select>>

\* Bursts enter the command queue as the slave takes them.
Queue(ar_fire, rest) ==
    cmds' = IF ar_fire THEN Append(rest, burst.beats) ELSE rest

\* Mutant of TakeBeat: the first beat of a burst is not counted.
TakeBeat_Miscounts(ar_fire) ==
    /\ read_count' = read_count + 1
    /\ from' = <<Head(slave).bank, Head(slave).offset>>
    /\ IF rsp_last_beat
       THEN rsp_active' = FALSE /\ rsp_beats_left' = 0 /\ Queue(ar_fire, Tail(cmds))
       ELSE /\ rsp_active' = TRUE
            /\ rsp_beats_left' = IF rsp_active THEN rsp_beats_left - 1 ELSE Head(cmds)
            /\ Queue(ar_fire, cmds)

\* One beat of the oldest burst is delivered.
TakeBeat(ar_fire) ==
    /\ read_count' = read_count + 1
    /\ from' = <<Head(slave).bank, Head(slave).offset>>
    /\ IF rsp_last_beat
       THEN rsp_active' = FALSE /\ rsp_beats_left' = 0 /\ Queue(ar_fire, Tail(cmds))
       ELSE rsp_active' = TRUE /\ rsp_beats_left' = rsp_beats_left_eff - 1
            /\ Queue(ar_fire, cmds)

\* Mutant of Errors: a rejected pointer ends the run without the error flag.
Errors_NoPointer(rsp_error) == error' = (error \/ rsp_error)

Errors(rsp_error) == error' = (error \/ fatal_ring_error_q \/ rsp_error)

Finishing == (fatal_ring_error_q \/ error \/ InputEnded) /\ pending_empty

-----------------------------------------------------------------------------
(* The AXI slave answers in order, whenever it likes.                      *)

Served(beat) ==
    IF ~beat THEN slave
    ELSE IF Head(slave).left = 1 THEN Tail(slave)
    ELSE [slave EXCEPT ![1].pos = @ + 1, ![1].offset = @ + 1, ![1].left = @ - 1]

SlaveClock(ar_fire, beat) ==
    /\ beat => slave # <<>>
    /\ slave' = IF ar_fire
                THEN Append(Served(beat), [pos |-> issue_count, bank |-> burst.bank,
                                           offset |-> burst.offset, left |-> burst.beats])
                ELSE Served(beat)

\* One clock of a run.  ar_fire: the slave takes the burst that is offered.
\* beat: the slave answers with one, and the FIFO behind the reader takes it.
\* bad: the answer has an error response.
RunClock(ar_fire, beat, bad) ==
    /\ state = "run"
    /\ ar_fire => stage = "ar"
    /\ bad => Faults /\ beat
    /\ SlaveClock(ar_fire, beat)
    /\ SamplePointers
    /\ IF ar_fire THEN AdvanceIssue
       ELSE IF stage = "ar" THEN UNCHANGED issue ELSE BuildBurst
    /\ IF beat /\ cmds # <<>>
       THEN /\ TakeBeat(ar_fire)
            /\ Errors(bad \/ (Head(slave).left = 1) # rsp_last_beat)
       ELSE /\ Queue(ar_fire, cmds)
            /\ Errors(FALSE)
            /\ UNCHANGED <<read_count, from, rsp_active, rsp_beats_left>>
    /\ state' = IF Finishing THEN "done" ELSE "run"
    /\ UNCHANGED <<ring_write, eof>>

\* Before a start and after the end only late answers move; rready is the
\* ready of the FIFO in every state, so they are taken and dropped.
IdleClock ==
    /\ state # "run"
    /\ SlaveClock(FALSE, TRUE)
    /\ UNCHANGED <<consumerVars, samples, issue, response, from>>

\* Mutant of ClearedRegisters: the issue offset survives from run to run.
ClearedRegisters_KeepOffset ==
    /\ issue_count' = 0 /\ issue_bank_select' = 0
    /\ stage' = "none" /\ burst' = NoBurst
    /\ cmds' = <<>> /\ rsp_active' = FALSE /\ rsp_beats_left' = 0
    /\ input_consumed_q' = FALSE /\ input_consumed_write_count_q' = 0
    /\ from' = <<>>
    /\ UNCHANGED issue_offset

ClearedRegisters ==
    /\ issue_count' = 0 /\ issue_offset' = 0 /\ issue_bank_select' = 0
    /\ stage' = "none" /\ burst' = NoBurst
    /\ cmds' = <<>> /\ rsp_active' = FALSE /\ rsp_beats_left' = 0
    /\ input_consumed_q' = FALSE /\ input_consumed_write_count_q' = 0
    /\ from' = <<>>

\* The start pulse.  configure and start_replay leave milliseconds between a
\* stop and a start: the slave has answered everything by then.
Start ==
    /\ state # "run"
    /\ slave = <<>>
    /\ Rogue \/ ring_write <= Capacity
    /\ StartReader
    /\ ClearedRegisters
    /\ ring_write_aligned_q' = ring_write
    /\ fatal_ring_error_q' = ~RingSizeValid
    /\ UNCHANGED slave

\* The stop or clear pulse; in its clock the slave may still take the burst
\* that is offered, and whatever it owes comes later.
Stop(ar_fire, beat) ==
    /\ ar_fire => stage = "ar"
    /\ SlaveClock(ar_fire, beat)
    /\ StopReader
    /\ ClearedRegisters
    /\ ring_write_aligned_q' = 0 /\ fatal_ring_error_q' = TRUE
-----------------------------------------------------------------------------
(* The host, through the registers.                                        *)

Commit(n) ==
    /\ ring_write' = n
    /\ Rogue \/ CommitWindow
    /\ UNCHANGED <<eof, state, read_count, error, samples, issue, response, slave, from>>

SetEof == RaiseEof /\ UNCHANGED <<samples, issue, response, slave, from>>

Clear == ClearWindow /\ UNCHANGED <<samples, issue, response, slave, from>>

Clock ==
    \/ \E ar_fire, beat, bad \in BOOLEAN : RunClock(ar_fire, beat, bad)
    \/ IdleClock

Next ==
    \/ Clock
    \/ Start
    \/ \E ar_fire, beat \in BOOLEAN : Stop(ar_fire, beat)
    \/ \E n \in 0..MaxWrite : Commit(n)
    \/ SetEof
    \/ Clear

Spec == Init /\ [][Next]_vars

\* The reader is clocked; the slave takes every burst it is offered and
\* answers it, and the FIFO behind the reader is ready again and again.
Fairness ==
    /\ WF_vars(Clock)
    /\ WF_vars(\E beat, bad \in BOOLEAN : RunClock(TRUE, beat, bad))
    /\ WF_vars(\E ar_fire, bad \in BOOLEAN : RunClock(ar_fire, TRUE, bad))

FairSpec == Spec /\ Fairness
-----------------------------------------------------------------------------
Offsets == 0..(Ring - 1)
Burst == [ok : BOOLEAN, bank : {0, 1}, offset : Offsets, avail : Nat, wrap : Nat, beats : Nat]
Answer == [pos : Nat, bank : {0, 1}, offset : Nat, left : Nat \ {0}]

TypeOK ==
    /\ ConsumerTypeOK
    /\ ring_write_aligned_q \in Nat /\ fatal_ring_error_q \in BOOLEAN
    /\ input_consumed_q \in BOOLEAN /\ input_consumed_write_count_q \in Nat
    /\ issue_count \in Nat /\ issue_offset \in Offsets /\ issue_bank_select \in {0, 1}
    /\ stage \in {"none", "raw", "window", "metrics", "ar"} /\ burst \in Burst
    /\ cmds \in Seq(Nat \ {0}) /\ Len(cmds) <= CMD_DEPTH
    /\ rsp_active \in BOOLEAN /\ rsp_beats_left \in Nat
    /\ slave \in Seq(Answer)
    /\ from \in {<<>>} \cup ({0, 1} \X Nat)

\* The k-th beat delivered was read where the loader wrote the k-th beat: the
\* offset and the bank the reader steps from burst to burst stay those of the
\* loader's division by the capacity, across wraps, stops and restarts.
FromItsPlace == read_count > 0 => from = Address(read_count - 1)

\* No burst runs over the end of its DDR segment (the check of
\* sim/tb_ddr_stream_reader_ring.sv on every AR).
NoBurstCrosses == \A i \in DOMAIN slave : slave[i].offset + slave[i].left <= Ring

\* The reader promises what the loader and the prefetch FIFO rely on: only
\* committed beats, and an end only with everything delivered.
ImplementsConsumer == ConsumerSpec

\* With a host and a memory that do nothing wrong, the reader's counters and
\* the slave's RLAST never disagree, and no pointer is taken for a wrong one.
NoFalseError == ~Rogue /\ ~Faults /\ RingSizeValid => ~error

\* Whatever the pointer register holds, now or later: what has been fetched
\* and not delivered fits in the ring, so no beat is fetched in two laps.
FetchWithinRing == state = "run" => issue_count - read_count <= Capacity

\* Whatever the pointer register did, a run without an error ends at EOF with
\* the stream delivered exactly up to the pointer of that moment.
EndsExactly ==
    [][state = "run" /\ state' = "done" /\ ~error' => eof /\ read_count = ring_write]_vars

\* A pointer that goes wrong while the reader runs, and stays wrong, raises
\* the error flag, also when EOF arrives at the same time.
PointerFaultReported ==
    (state = "run" /\ ~PointerOK) ~> (error \/ PointerOK \/ state = "idle")

\* Every beat that is committed is delivered: a reader that waits on an empty
\* ring wakes up, at whatever stage of the pipeline the pointer finds it.
Delivers ==
    \A n \in 1..MaxWrite :
        (state = "run" /\ ring_write >= n) ~> (read_count >= n \/ state # "run")

\* After EOF a run ends.
Ends == (state = "run" /\ eof) ~> (state # "run")
-----------------------------------------------------------------------------
(* The inductive invariant, part by part.                                  *)

\* The bursts the slave has to answer cover the stream from lo to hi.
Tile(bursts, lo, hi) ==
    /\ bursts = <<>> => lo = hi
    /\ bursts # <<>> => /\ bursts[1].pos = lo
                        /\ bursts[Len(bursts)].pos + bursts[Len(bursts)].left = hi
    /\ \A i \in DOMAIN bursts :
          /\ bursts[i].pos + bursts[i].left <= hi
          /\ i + 1 \in DOMAIN bursts => bursts[i + 1].pos = bursts[i].pos + bursts[i].left

BurstsTile == state = "run" => Tile(slave, read_count, issue_count)

\* What the slave has to answer is what the command queue expects.
Expected(i) == IF i = 1 /\ rsp_active THEN rsp_beats_left ELSE cmds[i]
AnswersExpected ==
    state = "run" =>
        /\ Len(slave) = Len(cmds)
        /\ \A i \in DOMAIN slave : slave[i].left = Expected(i)
        /\ rsp_active => cmds # <<>>

\* A burst is at the address of its position, and stays in its segment.
InPlace(b) == <<b.bank, b.offset>> = Address(b.pos) /\ b.offset + b.left <= Ring
AnswersInPlace == \A i \in DOMAIN slave : InPlace(slave[i])

\* The next burst starts where the loader put that stream position.
NextPlace == <<issue_bank_select, issue_offset>> = Address(issue_count)

\* A burst in the pipeline starts at the next place and stays in its segment
\* and in the window that was checked.
BurstSound ==
    /\ stage # "none" =>
          /\ burst.bank = issue_bank_select /\ burst.offset = issue_offset
          /\ burst.ok => issue_count + burst.avail <= read_count + Capacity
          /\ burst.wrap \in 1..(Ring - issue_offset)
    /\ stage \in {"metrics", "ar"} =>
          burst.ok /\ burst.beats \in 1..burst.avail /\ burst.beats <= burst.wrap
    /\ state = "run" /\ stage = "ar" => Len(cmds) < CMD_DEPTH

\* An end of input that has been seen was exact, unless the pointer is wrong.
ConsumedSound ==
    state = "run" /\ input_consumed_q /\ cmds = <<>> =>
        eof /\ (fatal_ring_error_q \/ issue_count = input_consumed_write_count_q)

\* With a host that commits properly the samples lag behind the register and
\* everything decided on them stays within the window.
WindowLag ==
    ~Rogue /\ state = "run" =>
        /\ issue_count <= ring_write_aligned_q /\ ring_write_aligned_q <= ring_write
        /\ stage # "none" => issue_count + burst.avail <= ring_write_aligned_q
        /\ ring_write <= read_count + Capacity
        /\ ~fatal_ring_error_q

RunsValid == state = "run" => RingSizeValid

ReaderInv ==
    /\ TypeOK /\ BurstsTile /\ AnswersExpected /\ AnswersInPlace
    /\ NextPlace /\ BurstSound /\ ConsumedSound /\ WindowLag /\ RunsValid
    /\ FromItsPlace /\ NoFalseError /\ FetchWithinRing
=============================================================================
