----------------------------- MODULE ReplayBoard -----------------------------
(***************************************************************************)
(* What the host tools see of the board through its BAR: the registers and *)
(* the replay of each TX port, and the RX block at the far end of one      *)
(* port's cable.  Nothing here is reset between two tools.                 *)
(*                                                                         *)
(* A Tick is one tick of the global timebase.  A packet is [run, index]:   *)
(* the invocation that started its replay and its place in the trace.  The *)
(* trace is the same for every invocation, so a leftover packet cannot be  *)
(* told from a new one by what it carries.                                 *)
(***************************************************************************)
EXTENDS Integers, Sequences, FiniteSets

CONSTANTS Ports,    \* TX ports
          Cabled,   \* the one whose cable ends at the RX block
          Gaps,     \* gap_ticks of the trace's packets
          Warmup,   \* PRELOAD_WARMUP_CYCLES
          MaxTick,  \* bound: ticks of a behaviour
          Faults    \* bound: packets that are lost, dropped, damaged or not captured

ASSUME BoardAssumption ==
    /\ Cabled \in Ports
    /\ Gaps \in Seq(Nat) /\ Len(Gaps) > 1
    /\ Warmup \in Nat /\ MaxTick \in Nat
    /\ Faults \in Nat

VARIABLES tick,   \* the global timebase
          tx,     \* port -> registers and replay
          rx,     \* registers and statistics
          ring,   \* the RX capture ring in DDR: slot -> index of the frame, 0 for none
          lost    \* history: packets the RX block never saw whole

board == <<tick, tx, rx, ring, lost>>
packets == Len(Gaps)
NoPacket == [run |-> 0, index |-> 0]

\* Every port was loaded with --no-start before: PKT_COUNT stays the same from here on.
PowerOn ==
    [start |-> 0, sync |-> FALSE, egress |-> FALSE, pause |-> FALSE,
     running |-> FALSE, run |-> 0, left |-> 0, target |-> 0, opens |-> 0, clock |-> 0,
     held |-> FALSE, sent |-> 0, late |-> 0, dropped |-> FALSE, first |-> 0]

BoardInit ==
    /\ tick = 1
    /\ tx = [p \in Ports |-> PowerOn]
    /\ rx = [enable |-> FALSE, capture |-> FALSE, size |-> 0, got |-> <<>>, pointer |-> 0,
             errors |-> FALSE]
    /\ ring = [s \in 1..packets |-> 0]
    /\ lost = {}

-----------------------------------------------------------------------------
(* CONTROL of a TX port.                                                   *)

\* stop and clear both reset the core and its path to the cable; only clear resets
\* the late and drop counters.
Stopped(port) == [port EXCEPT !.running = FALSE, !.left = 0, !.target = 0, !.held = FALSE,
                              !.clock = 0, !.sent = 0]
Cleared(port) == [Stopped(port) EXCEPT !.late = 0, !.dropped = FALSE]

\* The target of the first packet, when its descriptor reaches the scheduler at tick t.
FirstTarget(port, t) ==
    IF port.start # 0 THEN port.start ELSE Gaps[1] + (IF port.sync THEN t + 1 ELSE 0)

\* The index of the port's next packet, and the target of the one that follows it.
Index(port) == packets - port.left + 1
NextTarget(port) == IF port.left > 1 THEN port.target + Gaps[Index(port) + 1] ELSE 0

\* A start pulse for invocation run; its first descriptor arrives delay ticks later.
\* Packets leave whole here: that the TX engine stays in the frame it is in when a
\* replay is restarted without a stop is left out.
Started(port, run, delay) ==
    [port EXCEPT !.running = TRUE, !.run = run, !.clock = 0, !.held = FALSE,
                 !.opens = tick + Warmup, !.left = packets,
                 !.target = FirstTarget(port, tick + delay), !.first = 0]

-----------------------------------------------------------------------------
(* CONTROL of the RX block.                                                *)

\* The clear request.  What was captured stays in DDR.
RxCleared(r) == [r EXCEPT !.got = <<>>, !.pointer = 0, !.errors = FALSE]
\* While it is disabled its receive statistics are held in reset.
RxControl(r, enable, capture) ==
    [r EXCEPT !.enable = enable, !.capture = capture,
              !.got = IF enable THEN @ ELSE <<>>, !.errors = enable /\ @]

-----------------------------------------------------------------------------
(* One tick.                                                               *)

EgressActive(p) == tx[p].sync /\ tx[p].egress
Enabled(p) == tx[p].running /\ ~tx[p].pause /\ tick >= tx[p].opens
Now(p) == IF tx[p].sync THEN tick ELSE tx[p].clock

\* With egress scheduling the core hands its packets over as soon as it is enabled
\* and is done; the adapter at the cable holds each to its target.
Handed(p) ==
    IF Enabled(p) /\ EgressActive(p)
    THEN [tx[p] EXCEPT !.held = TRUE, !.running = FALSE, !.sent = @ + tx[p].left]
    ELSE tx[p]

Sends(p) ==
    /\ tx[p].left # 0
    /\ IF tx[p].held THEN ~EgressActive(p) \/ tx[p].target <= tick
       ELSE Enabled(p) /\ ~EgressActive(p) /\ tx[p].target <= Now(p)

\* The port after this tick: at most one packet leaves.
Ticked(p) ==
    LET sends == Sends(p)
        inCore == sends /\ ~tx[p].held
    IN  [Handed(p) EXCEPT
            !.left = IF sends THEN @ - 1 ELSE @,
            !.target = IF sends THEN NextTarget(tx[p]) ELSE @,
            !.first = IF sends /\ @ = 0 THEN tick ELSE @,
            !.sent = IF inCore THEN @ + 1 ELSE @,
            !.late = IF inCore /\ tx[p].target < Now(p) THEN @ + 1 ELSE @,
            !.running = @ /\ ~(inCore /\ tx[p].left = 1),
            !.clock = IF Enabled(p) THEN @ + 1 ELSE @]

Leaving == [run |-> tx[Cabled].run, index |-> Index(tx[Cabled])]

TxTicked == tx' = [p \in Ports |-> Ticked(p)]
Capturing == rx.enable /\ rx.capture /\ rx.size > 0
Counted == [rx EXCEPT !.got = Append(@, [packet |-> Leaving, at |-> tick])]

\* The packet arrives, and is captured if the RX block does so.
Arrives ==
    /\ TxTicked
    /\ lost' = lost
    /\ rx' = IF ~rx.enable THEN rx
             ELSE IF Capturing THEN [Counted EXCEPT !.pointer = @ + 1] ELSE Counted
    /\ ring' = IF Capturing /\ rx.pointer < packets
               THEN [ring EXCEPT ![rx.pointer + 1] = Leaving.index] ELSE ring

\* The cable loses it, the TX watchdog drops and counts it, it arrives damaged and is
\* counted as such, or the capture FIFO has no room for it.
GoesWrong ==
    /\ Cardinality(lost) < Faults
    /\ lost' = lost \cup {Leaving}
    /\ ring' = ring
    /\ \/ TxTicked /\ rx' = rx
       \/ tx' = [p \in Ports |-> [Ticked(p) EXCEPT !.dropped = @ \/ p = Cabled]] /\ rx' = rx
       \/ TxTicked /\ rx.enable /\ rx' = [Counted EXCEPT !.errors = TRUE]
       \/ TxTicked /\ Capturing /\ rx' = Counted

Tick ==
    /\ tick < MaxTick
    /\ tick' = tick + 1
    /\ IF Sends(Cabled) THEN Arrives \/ GoesWrong
       ELSE TxTicked /\ UNCHANGED <<rx, ring, lost>>
=============================================================================
