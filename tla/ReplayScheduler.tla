--------------------------- MODULE ReplayScheduler ---------------------------
(***************************************************************************)
(* rtl/replay_scheduler.sv, one step per clock: a record's gap becomes an  *)
(* absolute target, the record passes a stage register, a block RAM, a     *)
(* prefetch register and a head register, and moves to the output register *)
(* when its registered due bit says so.  The due and late bits are         *)
(* computed one clock before the load, against a tick two (local time) or  *)
(* three (shared time) ahead.                                              *)
(*                                                                         *)
(* A record is its number in order of acceptance; a register and its valid *)
(* bit are one variable, with rec = 0 for "not valid".  The block RAM is   *)
(* the sequence of what it holds: its pointers wrap at their width, a      *)
(* power of two, and it never holds more than PKT_FIFO_DEPTH.              *)
(***************************************************************************)
EXTENDS Integers, Sequences

CONSTANTS
    PKT_FIFO_DEPTH,
    Configs,      \* the settings the host programs while the port is cleared:
                  \* [sync, egress, start_time]
    Gaps,         \* gaps a record may carry, in ticks
    MaxAdvance,   \* most ticks the shared time, of another clock, moves in a clock
    Pauses,       \* whether enable ever falls (pause, link, prefetch)
    Holds,        \* whether the transmit engine ever makes a packet wait
    Restarts,     \* whether start and clear are ever asserted
    Lead,         \* ticks before its target by which the source brings a record,
                  \* 0 when it promises nothing
    MaxRecords,   \* bound: records the source brings
    MaxTarget,    \* bound: targets
    MaxTicks      \* bound: time stops here, past every target

ASSUME SchedulerAssumption ==
    /\ PKT_FIFO_DEPTH \in Nat \ {0}
    /\ Configs # {}
    /\ Configs \subseteq [sync : BOOLEAN, egress : BOOLEAN, start_time : Nat]
    /\ Gaps \subseteq Nat
    /\ MaxAdvance \in Nat \ {0}
    /\ Pauses \in BOOLEAN /\ Holds \in BOOLEAN /\ Restarts \in BOOLEAN
    /\ Lead \in Nat /\ MaxRecords \in Nat
    /\ MaxTarget \in Nat /\ MaxTicks \in Nat /\ MaxTarget + 3 < MaxTicks

VARIABLES
    cfg, relative_ticks, global_ticks, enable_q,
    first_pkt, target_accum,
    meta_stage, mem, prefetch, head, head_due_q, head_late_q,
    out, out_late, late_pulse,
    accepted, delivered,   \* history: see AxisChannel
    elapsed,               \* history: enabled clocks since the last start or clear
    asked,                 \* history: the target the records since then ask for
    steady                 \* history: clocks enable_q has been high, up to 2

time == <<relative_ticks, global_ticks, enable_q>>
targets == <<first_pkt, target_accum>>
queue == <<meta_stage, mem, prefetch, head, head_due_q, head_late_q>>
output == <<out, out_late, late_pulse>>
history == <<accepted, delivered, elapsed, asked, steady>>
vars == <<cfg, time, targets, queue, output, history>>

NoMeta == -1    \* no record at the input
NoRecord == [rec |-> 0, target |-> 0, asked |-> 0]
Records == [rec : Nat, target : Nat, asked : Nat]
Valid(register) == register.rec # 0
Held(register) == IF register.rec # 0 THEN 1 ELSE 0
Bit(condition) == IF condition THEN 1 ELSE 0

\* cfg_egress_schedule: the core passes it only with the shared time.
egress == cfg.egress /\ cfg.sync

push_target(gap) ==
    IF ~first_pkt THEN target_accum + gap
    ELSE IF cfg.start_time # 0 THEN cfg.start_time
    ELSE gap + (IF cfg.sync THEN global_ticks + 1 ELSE 0)

\* The target a gap asks for: gaps add up from the programmed start, or from the
\* restart.
NoneAsked == -1
Asked(gap) ==
    IF asked # NoneAsked THEN asked + gap
    ELSE IF cfg.start_time # 0 THEN cfg.start_time ELSE gap

now_ticks == IF cfg.sync THEN global_ticks ELSE relative_ticks

\* The look-ahead of the shared time used for both.
schedule_tick_cmp_Far == now_ticks + 3
schedule_tick_cmp == now_ticks + (IF cfg.sync THEN 3 ELSE 2)

\* The count without the register a record enters by.
total_count_NoStage ==
    Len(mem) + Held(prefetch) + Held(head) + Held(out)

total_count ==
    Len(mem) + Held(meta_stage) + Held(prefetch)
             + Held(head) + Held(out)

s_meta_ready(clear) == ~clear /\ total_count < PKT_FIFO_DEPTH
m_pkt_valid == enable_q /\ Valid(out)
pkt_fire(pkt_ready) == m_pkt_valid /\ pkt_ready
out_can_load(pkt_ready) == ~Valid(out) \/ pkt_fire(pkt_ready)

\* A load that does not wait for the output register to be free.
load_fire_Over(pkt_ready) == enable_q /\ Valid(head) /\ (egress \/ head_due_q)

load_fire(pkt_ready) ==
    enable_q /\ out_can_load(pkt_ready) /\ Valid(head) /\ (egress \/ head_due_q)
prefetch_to_head(pkt_ready) ==
    Valid(prefetch) /\ (~Valid(head) \/ load_fire(pkt_ready))

\* One record through the prefetch register at a time.
mem_read_issue_Bubble(pkt_ready) == mem # <<>> /\ ~Valid(prefetch)

mem_read_issue(pkt_ready) ==
    mem # <<>> /\ (~Valid(prefetch) \/ prefetch_to_head(pkt_ready))
------------------------------------------------------------------------------
SchedulerInit ==
    /\ cfg \in Configs
    /\ relative_ticks = 0 /\ global_ticks = 0 /\ enable_q = FALSE
    /\ first_pkt = TRUE /\ target_accum = 0
    /\ meta_stage = NoRecord /\ mem = <<>> /\ prefetch = NoRecord
    /\ head = NoRecord /\ head_due_q = FALSE /\ head_late_q = FALSE
    /\ out = NoRecord /\ out_late = FALSE /\ late_pulse = FALSE
    /\ accepted = 0 /\ delivered = 0
    /\ elapsed = 0 /\ asked = NoneAsked /\ steady = 0

\* A restart that leaves local time running.
Flushed_KeepsTime ==
    /\ relative_ticks' = relative_ticks /\ enable_q' = FALSE
    /\ first_pkt' = TRUE /\ target_accum' = 0
    /\ meta_stage' = NoRecord /\ mem' = <<>> /\ prefetch' = NoRecord
    /\ head' = NoRecord /\ head_due_q' = FALSE /\ head_late_q' = FALSE
    /\ out' = NoRecord /\ out_late' = FALSE /\ late_pulse' = FALSE

\* The values of the reset, of a start and of a clear.
Flushed ==
    /\ relative_ticks' = 0 /\ enable_q' = FALSE
    /\ first_pkt' = TRUE /\ target_accum' = 0
    /\ meta_stage' = NoRecord /\ mem' = <<>> /\ prefetch' = NoRecord
    /\ head' = NoRecord /\ head_due_q' = FALSE /\ head_late_q' = FALSE
    /\ out' = NoRecord /\ out_late' = FALSE /\ late_pulse' = FALSE

\* Local time counts enabled clocks; shared time comes from replay_time_sync.
TimeClock(enable) ==
    /\ enable_q' = enable
    /\ relative_ticks' = IF enable_q /\ relative_ticks < MaxTicks
                         THEN relative_ticks + 1 ELSE relative_ticks

\* A record enters: its gap becomes its target.
EntryClock(meta_fire, gap) ==
    IF meta_fire
    THEN /\ target_accum' = push_target(gap)
         /\ first_pkt' = FALSE
         /\ meta_stage' = [rec |-> accepted + 1, target |-> push_target(gap),
                           asked |-> Asked(gap)]
    ELSE /\ meta_stage' = NoRecord
         /\ UNCHANGED targets

\* The block RAM after a read and the write of what the stage register holds.
MemAfter(read) ==
    LET rest == IF read THEN Tail(mem) ELSE mem
    IN  IF Valid(meta_stage) THEN Append(rest, meta_stage) ELSE rest

\* A due bit only at the very tick.
QueueClock_ExactDue(pkt_ready) ==
    /\ mem' = MemAfter(mem_read_issue(pkt_ready))
    /\ prefetch' = IF mem_read_issue(pkt_ready) THEN mem[1]
                   ELSE IF prefetch_to_head(pkt_ready) THEN NoRecord ELSE prefetch
    /\ head' = IF prefetch_to_head(pkt_ready) THEN prefetch
               ELSE IF load_fire(pkt_ready) THEN NoRecord ELSE head
    /\ head_due_q' = (Valid(head') /\ head'.target = schedule_tick_cmp)
    /\ head_late_q' = (Valid(head') /\ head'.target < schedule_tick_cmp)

\* The due bit taken over from the record that leaves the head.
QueueClock_StaleDue(pkt_ready) ==
    /\ mem' = MemAfter(mem_read_issue(pkt_ready))
    /\ prefetch' = IF mem_read_issue(pkt_ready) THEN mem[1]
                   ELSE IF prefetch_to_head(pkt_ready) THEN NoRecord ELSE prefetch
    /\ head' = IF prefetch_to_head(pkt_ready) THEN prefetch
               ELSE IF load_fire(pkt_ready) THEN NoRecord ELSE head
    /\ head_due_q' = (Valid(head') /\ (head_due_q \/ head'.target <= schedule_tick_cmp))
    /\ head_late_q' = (Valid(head') /\ head'.target < schedule_tick_cmp)

\* Each place takes from the one before it when it is, or becomes, free; the
\* due and late bits are those of the record the head then holds.
QueueClock(pkt_ready) ==
    /\ mem' = MemAfter(mem_read_issue(pkt_ready))
    /\ prefetch' = IF mem_read_issue(pkt_ready) THEN mem[1]
                   ELSE IF prefetch_to_head(pkt_ready) THEN NoRecord ELSE prefetch
    /\ head' = IF prefetch_to_head(pkt_ready) THEN prefetch
               ELSE IF load_fire(pkt_ready) THEN NoRecord ELSE head
    /\ head_due_q' = (Valid(head') /\ head'.target <= schedule_tick_cmp)
    /\ head_late_q' = (Valid(head') /\ head'.target < schedule_tick_cmp)

\* The late bit of a packet held from its load to its departure.
OutClock(pkt_ready) ==
    /\ IF load_fire(pkt_ready)
       THEN out' = head /\ out_late' = (~egress /\ head_late_q)
       ELSE /\ out' = IF pkt_fire(pkt_ready) THEN NoRecord ELSE out
            /\ UNCHANGED out_late
    /\ late_pulse' = (pkt_fire(pkt_ready) /\ out_late)

\* What the records since the last restart ask for, whatever the registers hold.
HistoryClock(meta_fire, gap, pkt_ready, restart) ==
    LET in == accepted + Bit(meta_fire)
    IN  /\ accepted' = in
        /\ delivered' = IF restart THEN in
                        ELSE IF pkt_fire(pkt_ready) THEN out.rec ELSE delivered
        /\ asked' = IF restart THEN NoneAsked
                    ELSE IF meta_fire THEN Asked(gap) ELSE asked
        /\ elapsed' = IF restart THEN 0
                      ELSE IF enable_q /\ elapsed < MaxTicks THEN elapsed + 1 ELSE elapsed
        /\ steady' = IF restart \/ ~enable_q THEN 0 ELSE IF steady < 2 THEN steady + 1 ELSE 2

\* One clock, with or without a record at the input.  One that arrives in the
\* clock of a start is lost with the rest.
SchedulerClock(enable, command, gap, pkt_ready) ==
    LET meta_fire == gap # NoMeta /\ s_meta_ready(command = "clear")
    IN  /\ HistoryClock(meta_fire, gap, pkt_ready, command # "none")
        /\ \/ /\ command \in {"start", "clear"}
              /\ Flushed
           \/ /\ command = "none"
              /\ TimeClock(enable)
              /\ EntryClock(meta_fire, gap)
              /\ QueueClock(pkt_ready)
              /\ OutClock(pkt_ready)

\* The world around: shared time moves on, where anything reads it, a clear lets
\* the host change the settings, the source brings records it still has.
Surroundings(command, gap) ==
    /\ \E advance \in 0..(IF cfg.sync THEN MaxAdvance ELSE 0) :
            global_ticks' = IF global_ticks + advance <= MaxTicks
                            THEN global_ticks + advance ELSE MaxTicks
    /\ cfg' \in (IF command = "clear" THEN Configs ELSE {cfg})
    /\ gap # NoMeta => /\ accepted < MaxRecords
                       /\ push_target(gap) <= MaxTarget
                       /\ Lead > 0 => Asked(gap) >= elapsed + Lead

\* A restart makes no use of enable and pkt_ready, nor a clear, which takes
\* s_meta_ready away, of a record at the input.
SchedulerNext ==
    \E enable, pkt_ready \in BOOLEAN, command \in {"none", "start", "clear"},
       gap \in Gaps \cup {NoMeta} :
        /\ enable \/ Pauses
        /\ pkt_ready \/ Holds
        /\ command # "none" => Restarts /\ enable /\ pkt_ready
        /\ command = "clear" => gap = NoMeta
        /\ Surroundings(command, gap)
        /\ SchedulerClock(enable, command, gap, pkt_ready)

\* A clock that is enabled, with a transmit engine that takes, in which time moves.
FreeClock ==
    \E gap \in Gaps \cup {NoMeta} :
        /\ Surroundings("none", gap)
        /\ cfg.sync /\ global_ticks < MaxTicks => global_ticks' > global_ticks
        /\ SchedulerClock(TRUE, "none", gap, TRUE)

SchedulerSpec == SchedulerInit /\ [][SchedulerNext]_vars
SchedulerFairSpec == SchedulerSpec /\ WF_vars(FreeClock)
------------------------------------------------------------------------------
TypeOK ==
    /\ cfg \in Configs
    /\ relative_ticks \in 0..MaxTicks /\ global_ticks \in 0..MaxTicks
    /\ enable_q \in BOOLEAN
    /\ first_pkt \in BOOLEAN /\ target_accum \in Nat
    /\ mem \in Seq(Records)
    /\ meta_stage \in Records /\ prefetch \in Records /\ head \in Records /\ out \in Records
    /\ head_due_q \in BOOLEAN /\ head_late_q \in BOOLEAN
    /\ out_late \in BOOLEAN /\ late_pulse \in BOOLEAN
    /\ accepted \in Nat /\ delivered \in Nat
    /\ elapsed \in Nat /\ asked \in Nat \cup {NoneAsked} /\ steady \in 0..2

\* Number of the last record that is at, or has passed, each place.
LastOut == delivered + Held(out)
LastHead == LastOut + Held(head)
LastPrefetched == LastHead + Held(prefetch)
LastStored == LastPrefetched + Len(mem)

\* The five places hold consecutive runs of the records accepted and not
\* delivered, and never more than PKT_FIFO_DEPTH in all.
InOrder ==
    /\ Valid(out) => out.rec = LastOut
    /\ Valid(head) => head.rec = LastHead
    /\ Valid(prefetch) => prefetch.rec = LastPrefetched
    /\ \A i \in 1..Len(mem) : mem[i].rec = LastPrefetched + i
    /\ Valid(meta_stage) => meta_stage.rec = accepted
    /\ accepted = LastStored + Held(meta_stage)
    /\ total_count <= PKT_FIFO_DEPTH

\* No place holds a target beyond the bound.
TargetsBounded ==
    /\ \A i \in 1..Len(mem) : mem[i].target <= MaxTarget
    /\ meta_stage.target <= MaxTarget /\ prefetch.target <= MaxTarget
    /\ head.target <= MaxTarget /\ out.target <= MaxTarget

\* What the two registered bits say one clock after they were computed.
DueBitsInTime ==
    /\ head_due_q => Valid(head)
    /\ head_due_q /\ cfg.sync => head.target <= global_ticks + 3
    /\ head_due_q /\ ~cfg.sync =>
           head.target <= relative_ticks + (IF steady > 0 THEN 1 ELSE 2)
    /\ Valid(head) /\ ~cfg.sync /\ steady > 0 /\ relative_ticks < MaxTicks =>
           (head_late_q <=> head.target < relative_ticks + 1)

\* The scheduler keeps the promise of a channel of PKT_FIFO_DEPTH records, pauses
\* and restarts included: order, no loss, no duplicate, a packet that stays on
\* offer until it is taken, nothing of before a restart after it.
Channel == INSTANCE AxisChannel WITH MaxHeld <- PKT_FIFO_DEPTH, offer <- out.rec
ImplementsChannel == Channel!ChannelSpec

\* No packet is offered before its target, but for the look-ahead's slack: up to
\* its three ticks of shared time; in local time none, save one tick when the
\* counter stood still while the due bit was computed.
NeverEarly ==
    Valid(out) /\ ~egress =>
        /\ cfg.sync => out.target <= global_ticks + 3
        /\ ~cfg.sync => out.target <= relative_ticks + 1
        /\ ~cfg.sync /\ steady = 2 => out.target <= relative_ticks

\* The inductive invariant.
SchedulerInv == TypeOK /\ InOrder /\ TargetsBounded /\ DueBitsInTime /\ NeverEarly

\* A load of the output register, and not by a restart.
Loads == Valid(out') /\ out' # out

\* In local time that has not just stood still, a packet becomes the one on offer
\* exactly at its target, or is marked late, and only then is marked late.
LateExact ==
    [][Loads /\ ~cfg.sync /\ steady > 0 /\ relative_ticks' < MaxTicks =>
           IF out_late' THEN out'.target < relative_ticks' ELSE out'.target = relative_ticks']_vars

\* On a link that takes every packet, a record that the source brings Lead ticks
\* before the tick of local time it asks for leaves at that tick, counted from the
\* last restart,
\* and is not marked late: the five registers on the way cost nothing.
OnTime == [][Loads /\ ~cfg.sync => elapsed' = out'.asked /\ ~out_late']_vars

\* Every record that is accepted leaves, or is dropped by a restart.
Leaves == \A n \in 1..MaxRecords : accepted = n ~> delivered >= n
==============================================================================
