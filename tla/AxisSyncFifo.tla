----------------------------- MODULE AxisSyncFifo -----------------------------
(***************************************************************************)
(* rtl/axis_sync_fifo.sv, one step per clock: an input register, a block   *)
(* RAM whose reads return RAM_READ_LATENCY clocks later, a stage register, *)
(* a small output memory and an output register.  Ready is registered and  *)
(* computed from the level of the clock before; clear takes effect one     *)
(* clock late.                                                             *)
(*                                                                         *)
(* A beat is its number in order of acceptance.  A register and its valid  *)
(* bit are one variable: 0 is "not valid".                                 *)
(***************************************************************************)
EXTENDS Integers, FiniteSets

CONSTANTS DEPTH,
          OUT_DEPTH,         \* after the lower clamp; a power of two, as its
                             \* pointers wrap at their width
          RAM_READ_LATENCY,  \* after the lower clamp
          LevelWord,         \* 2^COUNT_W
          MaxBeats,          \* bound: beats the environment pushes
          Clears             \* whether clear is ever asserted

READY_MARGIN_RAW == OUT_DEPTH + RAM_READ_LATENCY + 4
READY_MARGIN == IF DEPTH > READY_MARGIN_RAW THEN READY_MARGIN_RAW ELSE 1
READY_LEVEL == DEPTH - READY_MARGIN

\* The highest level: two beats arrive before the registered ready falls.
MaxLevel == READY_LEVEL + 2

ASSUME FifoAssumption ==
    /\ DEPTH \in Nat \ {0}
    /\ OUT_DEPTH \in Nat /\ OUT_DEPTH >= 2
    /\ RAM_READ_LATENCY \in Nat /\ RAM_READ_LATENCY >= 2
    /\ LevelWord \in Nat /\ MaxLevel < LevelWord
    /\ MaxBeats \in Nat
    /\ Clears \in BOOLEAN

VARIABLES
    wr_ptr, rd_ptr, ram_count, payload_ram,
    rd_valid_pipe,            \* reads on their way, youngest at 0, with what they return
    ram_dout_stage, out_mem, out_wr_ptr, out_rd_ptr, out_count,
    in_reg, out_reg, s_axis_tready_q, clear_q,
    accepted, delivered       \* history: see AxisChannel

ram == <<wr_ptr, rd_ptr, ram_count, payload_ram, rd_valid_pipe, ram_dout_stage>>
output == <<out_mem, out_wr_ptr, out_rd_ptr, out_count, out_reg>>
input == <<in_reg, s_axis_tready_q>>
vars == <<ram, output, input, clear_q, accepted, delivered>>

Stages == 0..(RAM_READ_LATENCY - 1)
Bit(condition) == IF condition THEN 1 ELSE 0

outstanding_count == Cardinality({i \in Stages : rd_valid_pipe[i] # 0})
buffered_count == outstanding_count + out_count + Bit(ram_dout_stage # 0)
\* The sum without the beat in the input register.
total_level_NoInput == (ram_count + buffered_count + Bit(out_reg # 0)) % LevelWord

total_level ==
    (ram_count + buffered_count + Bit(out_reg # 0) + Bit(in_reg # 0)) % LevelWord

ram_accept == ~clear_q /\ s_axis_tready_q
s_axis_tready == ~clear_q /\ (in_reg = 0 \/ ram_accept)
wr_fire == in_reg # 0 /\ ram_accept
\* A read issued without counting those still in the RAM's pipeline.
rd_issue_Blind == ram_count # 0 /\ out_count < OUT_DEPTH
rd_issue == ram_count # 0 /\ buffered_count < OUT_DEPTH
ram_return == rd_valid_pipe[RAM_READ_LATENCY - 1]
\* The output register reloaded although its beat has not been taken.
out_pop_Overrun(tready) == out_count # 0
out_pop(tready) == out_count # 0 /\ (out_reg = 0 \/ tready)

\* A pointer that wraps one slot too late.
inc_ptr_Late(ptr) == IF ptr = DEPTH THEN 0 ELSE ptr + 1
inc_ptr(ptr) == IF ptr = DEPTH - 1 THEN 0 ELSE ptr + 1
------------------------------------------------------------------------------
\* A clear that forgets the input register.
Flushed_KeepsInput ==
    /\ wr_ptr' = 0 /\ rd_ptr' = 0 /\ ram_count' = 0
    /\ rd_valid_pipe' = [i \in Stages |-> 0]
    /\ ram_dout_stage' = 0 /\ out_reg' = 0
    /\ out_wr_ptr' = 0 /\ out_rd_ptr' = 0 /\ out_count' = 0
    /\ s_axis_tready_q' = FALSE
    /\ UNCHANGED <<payload_ram, out_mem, in_reg>>

\* The values of the reset and of a clear; the memories keep their contents.
Flushed ==
    /\ wr_ptr' = 0 /\ rd_ptr' = 0 /\ ram_count' = 0
    /\ rd_valid_pipe' = [i \in Stages |-> 0]
    /\ in_reg' = 0 /\ ram_dout_stage' = 0 /\ out_reg' = 0
    /\ out_wr_ptr' = 0 /\ out_rd_ptr' = 0 /\ out_count' = 0
    /\ s_axis_tready_q' = FALSE
    /\ UNCHANGED <<payload_ram, out_mem>>

Init ==
    /\ wr_ptr = 0 /\ rd_ptr = 0 /\ ram_count = 0
    /\ payload_ram = [a \in 0..(DEPTH - 1) |-> 0]
    /\ rd_valid_pipe = [i \in Stages |-> 0]
    /\ in_reg = 0 /\ ram_dout_stage = 0 /\ out_reg = 0
    /\ out_mem = [a \in 0..(OUT_DEPTH - 1) |-> 0]
    /\ out_wr_ptr = 0 /\ out_rd_ptr = 0 /\ out_count = 0
    /\ s_axis_tready_q = FALSE /\ clear_q = TRUE
    /\ accepted = 0 /\ delivered = 0

\* A ready bit that a full FIFO clears for good.
InputClock_Sticky(tvalid) ==
    /\ s_axis_tready_q' = (total_level <= READY_LEVEL /\ (accepted = 0 \/ s_axis_tready_q))
    /\ IF tvalid /\ s_axis_tready
       THEN in_reg' = accepted + 1 /\ accepted' = accepted + 1
       ELSE /\ in_reg' = IF wr_fire THEN 0 ELSE in_reg
            /\ UNCHANGED accepted

\* The input register takes the next beat, or hands its beat to the RAM.
InputClock(tvalid) ==
    /\ s_axis_tready_q' = (total_level <= READY_LEVEL)
    /\ IF tvalid /\ s_axis_tready
       THEN in_reg' = accepted + 1 /\ accepted' = accepted + 1
       ELSE /\ in_reg' = IF wr_fire THEN 0 ELSE in_reg
            /\ UNCHANGED accepted

\* The RAM: a write, and a read that enters the latency pipe.
RamClock ==
    /\ payload_ram' = IF wr_fire THEN [payload_ram EXCEPT ![wr_ptr] = in_reg]
                                 ELSE payload_ram
    /\ wr_ptr' = IF wr_fire THEN inc_ptr(wr_ptr) ELSE wr_ptr
    /\ rd_ptr' = IF rd_issue THEN inc_ptr(rd_ptr) ELSE rd_ptr
    /\ ram_count' = ram_count + Bit(wr_fire) - Bit(rd_issue)
    /\ rd_valid_pipe' = [i \in Stages |->
            IF i > 0 THEN rd_valid_pipe[i - 1]
            ELSE IF rd_issue THEN payload_ram[rd_ptr] ELSE 0]
    /\ ram_dout_stage' = ram_return

\* The output memory and the output register.
OutputClock(tready) ==
    /\ IF ram_dout_stage # 0
       THEN /\ out_mem' = [out_mem EXCEPT ![out_wr_ptr] = ram_dout_stage]
            /\ out_wr_ptr' = (out_wr_ptr + 1) % OUT_DEPTH
       ELSE UNCHANGED <<out_mem, out_wr_ptr>>
    /\ IF out_pop(tready)
       THEN /\ out_reg' = out_mem[out_rd_ptr]
            /\ out_rd_ptr' = (out_rd_ptr + 1) % OUT_DEPTH
       ELSE /\ out_reg' = IF tready THEN 0 ELSE out_reg
            /\ UNCHANGED out_rd_ptr
    /\ out_count' = out_count + Bit(ram_dout_stage # 0) - Bit(out_pop(tready))
    /\ delivered' = IF out_reg # 0 /\ tready THEN out_reg ELSE delivered

\* One clock.  A beat taken in the clock that clears is taken, not dropped.
Clock(tvalid, tready, clear) ==
    /\ clear_q' = clear
    /\ \/ /\ ~clear_q
          /\ InputClock(tvalid)
          /\ RamClock
          /\ OutputClock(tready)
       \/ /\ clear_q
          /\ Flushed
          /\ delivered' = accepted
          /\ UNCHANGED accepted

Next ==
    \E tvalid, tready, clear \in BOOLEAN :
        /\ tvalid => accepted < MaxBeats
        /\ clear => Clears
        /\ Clock(tvalid, tready, clear)

\* A clock with a ready consumer and no clear.
ReadyClock ==
    \E tvalid \in BOOLEAN :
        (tvalid => accepted < MaxBeats) /\ Clock(tvalid, TRUE, FALSE)

Spec == Init /\ [][Next]_vars /\ WF_vars(ReadyClock)
------------------------------------------------------------------------------
TypeOK ==
    /\ wr_ptr \in 0..(DEPTH - 1) /\ rd_ptr \in 0..(DEPTH - 1)
    /\ out_wr_ptr \in 0..(OUT_DEPTH - 1) /\ out_rd_ptr \in 0..(OUT_DEPTH - 1)
    /\ ram_count \in Nat /\ out_count \in Nat
    /\ payload_ram \in [0..(DEPTH - 1) -> Nat]
    /\ out_mem \in [0..(OUT_DEPTH - 1) -> Nat]
    /\ rd_valid_pipe \in [Stages -> Nat]
    /\ in_reg \in Nat /\ ram_dout_stage \in Nat /\ out_reg \in Nat
    /\ s_axis_tready_q \in BOOLEAN /\ clear_q \in BOOLEAN
    /\ accepted \in Nat /\ delivered \in Nat

\* Number of the last beat that is at, or has passed, each place on the way out.
LastOut == delivered + Bit(out_reg # 0)
LastStored == LastOut + out_count
LastStaged == LastStored + Bit(ram_dout_stage # 0)
LastRead == LastStaged + outstanding_count
LastWritten == LastRead + ram_count

\* Slot i places after ptr in a memory of n slots.
Slot(ptr, i, n) == IF ptr + i < n THEN ptr + i ELSE ptr + i - n

OlderReads(i) == {j \in Stages : j > i /\ rd_valid_pipe[j] # 0}

\* Every beat is where its number says: the output register, the output memory,
\* the stage register, the latency pipe, the RAM and the input register hold
\* consecutive runs of the beats accepted and not delivered, in this order.
OutputInOrder ==
    /\ out_reg # 0 => out_reg = LastOut
    /\ \A i \in 0..(out_count - 1) :
            out_mem[Slot(out_rd_ptr, i, OUT_DEPTH)] = LastOut + 1 + i
StageInOrder == ram_dout_stage # 0 => ram_dout_stage = LastStaged
PipeInOrder ==
    \A i \in Stages : rd_valid_pipe[i] # 0 =>
        rd_valid_pipe[i] = LastStaged + 1 + Cardinality(OlderReads(i))
RamInOrder ==
    \A i \in 0..(ram_count - 1) : payload_ram[Slot(rd_ptr, i, DEPTH)] = LastRead + 1 + i
InputInOrder ==
    /\ in_reg # 0 => in_reg = accepted
    /\ accepted = LastWritten + Bit(in_reg # 0)
InOrder == OutputInOrder /\ StageInOrder /\ PipeInOrder /\ RamInOrder /\ InputInOrder

\* The write pointers point behind what is stored.
PointersAgree ==
    /\ wr_ptr = Slot(rd_ptr, ram_count, DEPTH)
    /\ out_wr_ptr = Slot(out_rd_ptr, out_count, OUT_DEPTH)

\* Decided a clock late, the ready bit still keeps the level in its bound.
LevelBounded ==
    /\ accepted - delivered <= READY_LEVEL + 1 + Bit(in_reg # 0)
    /\ s_axis_tready_q => accepted - delivered <= READY_LEVEL + 1
    /\ buffered_count <= OUT_DEPTH

\* The inductive invariant.
FifoInv == TypeOK /\ InOrder /\ PointersAgree /\ LevelBounded

\* The level counter, a sum over six places a beat can be in, is the number of
\* beats accepted and not yet delivered: none is lost or counted twice.
LevelExact == total_level = accepted - delivered

\* Nothing is written over: neither the RAM nor the output memory ever holds
\* more than fits, although both are filled on decisions clocks old.
NoOverflow == ram_count <= DEPTH /\ buffered_count <= OUT_DEPTH

\* The FIFO keeps the promise of a channel of MaxLevel beats: order, no loss, no
\* duplicate, a stable offer, nothing of before a clear after it.
Channel == INSTANCE AxisChannel WITH MaxHeld <- MaxLevel, offer <- out_reg
ImplementsChannel == Channel!ChannelSpec

\* Every beat that is accepted leaves, by delivery or by a clear; and the FIFO
\* always becomes ready for another one.
Drains == \A n \in 1..MaxBeats : accepted = n ~> delivered >= n
ReadyAgain == []<>s_axis_tready
==============================================================================
