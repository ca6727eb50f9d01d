----------------------------- MODULE ReplayTools -----------------------------
(***************************************************************************)
(* The command line tools on a board that nobody resets between them: the  *)
(* trace loader, the one-shot commands of traffic_replay_cli.py, its       *)
(* synchronized start, the checks that replay a trace, watch it come back  *)
(* on the RX block and print PASS or FAIL, and the strict preload tests    *)
(* that only watch the TX counters of one port or of both.  One tool runs  *)
(* at a time, ticks pass between its accesses, and it may fail or be       *)
(* killed after any of them, with the board left as it is.                 *)
(***************************************************************************)
EXTENDS ReplayBoard, FiniteSetsExt

CONSTANTS Delay,       \* delay_ticks of sync-start
          StartTimes,  \* --start-time of the loader
          MaxSamples,  \* --max-samples of the interval check
          Tools,       \* the tools that are run
          MaxRuns,     \* bound: invocations
          Kills        \* bound: the first invocations, which may fail or be killed

Checks == {"interval", "spacing", "loopback"}

ASSUME ToolsAssumption ==
    /\ Ports \subseteq Nat
    /\ Delay \in Nat \ {0}
    /\ StartTimes \subseteq Nat
    /\ MaxSamples \in Nat \ {0}
    /\ Tools \subseteq Checks \cup {"load", "sync-start", "strict", "command"}
    /\ MaxRuns \in Nat /\ Kills \in Nat

VARIABLES run,     \* invocations so far
          tool,    \* the one that runs or ran last
          ports,   \* the TX ports it is for
          pc,      \* its next access; "idle" when it has ended
          todo,    \* the ports its loop has still to do
          target,  \* sync-start: the tick the ports are given
          armed,   \* sync-start: tick at which a port got its start pulse, 0 for none
          quiet,   \* history: the ports that had nothing to send when the tool was launched
          outcome  \* how it ended

plan == <<run, tool, ports, quiet>>
progress == <<todo, target, armed>>
vars == <<board, plan, progress, pc, outcome>>

NotArmed == [p \in Ports |-> 0]

Init ==
    /\ BoardInit
    /\ run = 0 /\ tool = "" /\ ports = {} /\ pc = "idle" /\ todo = {}
    /\ target = 0 /\ armed = NotArmed /\ quiet = Ports /\ outcome = ""

\* A write that leaves one TX port, or the RX block, in the given state.
TxBecomes(p, state) ==
    tx' = [tx EXCEPT ![p] = state] /\ UNCHANGED <<tick, rx, ring, lost>>
RxBecomes(state) == rx' = state /\ UNCHANGED <<tick, tx, ring, lost>>

Continue(next) == pc' = next /\ UNCHANGED <<plan, progress, outcome>>
End(how) == pc' = "idle" /\ outcome' = how /\ UNCHANGED <<plan, progress>>

\* A CONTROL write takes the pause bit with it.
Stop(p) == TxBecomes(p, [Stopped(tx[p]) EXCEPT !.pause = FALSE])
Clear(p) == TxBecomes(p, [Cleared(tx[p]) EXCEPT !.pause = FALSE])
Start(p, by) ==
    \E delay \in 0..Warmup : TxBecomes(p, [Started(tx[p], by, delay) EXCEPT !.pause = FALSE])

-----------------------------------------------------------------------------
(* A new invocation.                                                       *)

Invoke(name, on, first) ==
    /\ pc = "idle" /\ run < MaxRuns /\ name \in Tools
    /\ run' = run + 1 /\ tool' = name /\ ports' = on
    /\ pc' = first /\ todo' = on
    /\ target' = 0 /\ armed' = NotArmed /\ outcome' = ""
    /\ quiet' = {p \in Ports : tx[p].left = 0}
Launch(name, on, first) == Invoke(name, on, first) /\ UNCHANGED board

\* xdma_load_trace: the trace is in DDR before the port is touched.
LaunchLoad == \E p \in Ports : Launch("load", {p}, "configure")

\* tick-replay sync-start, with --egress-schedule or without.
LaunchSync ==
    \E on \in (SUBSET Ports) \ {{}}, first \in {"egress", "now"} : Launch("sync-start", on, first)

\* The checks put their trace into DDR first; the loopback check then wipes the ring.
LaunchInterval == Launch("interval", {Cabled}, "rx off")
LaunchSpacing == Launch("spacing", {Cabled}, "rx off")
LaunchLoopback == Launch("loopback", {Cabled}, "zero")

\* preload_mixed_test on one port, dual_port_preload_test on several, both with
\* --require-no-drop.
LaunchStrict == \E on \in (SUBSET Ports) \ {{}} : Launch("strict", on, "tx stop")

-----------------------------------------------------------------------------
(* xdma_load_trace.                                                        *)

\* Nothing is at work on the port after the clear, nor reads its registers before a start.
LoadConfigure ==
    /\ pc = "configure"
    /\ \E startTime \in StartTimes, p \in ports :
          TxBecomes(p, [Cleared(tx[p]) EXCEPT !.pause = FALSE, !.start = startTime])
    /\ Continue("start")

\* Without and with --no-start.
LoadStart ==
    /\ pc = "start"
    /\ \/ (\E p \in ports : Start(p, run)) /\ End("loaded")
       \/ UNCHANGED board /\ End("configured")

-----------------------------------------------------------------------------
(* The loops of a tool take its ports in order.                            *)

port == Min(todo)
Others == todo \ {port}

\* Go on with this loop, or with the next one over all the ports.
NextPort(this, next) ==
    /\ pc' = IF Others # {} THEN this ELSE next
    /\ todo' = IF Others # {} THEN Others ELSE ports
    /\ UNCHANGED plan

-----------------------------------------------------------------------------
(* sync-start.                                                             *)

SyncEgress ==
    /\ pc = "egress"
    /\ TxBecomes(port, [tx[port] EXCEPT !.sync = TRUE, !.egress = TRUE])
    /\ NextPort("egress", "now")
    /\ UNCHANGED <<target, armed, outcome>>

SyncNow ==
    /\ pc = "now"
    /\ target' = tick + Delay
    /\ pc' = "target"
    /\ UNCHANGED <<board, plan, todo, armed, outcome>>

\* Mutant of SyncTarget: each port is given its own target.
SyncTarget_Own ==
    /\ pc = "target"
    /\ TxBecomes(port, [tx[port] EXCEPT !.start = tick + Delay, !.sync = TRUE])
    /\ NextPort("target", "arm")
    /\ UNCHANGED <<target, armed, outcome>>

\* START, then SCHED_CTRL bit 0: a port that is running changes its clock here.
SyncTarget ==
    /\ pc = "target"
    /\ TxBecomes(port, [tx[port] EXCEPT !.start = target, !.sync = TRUE])
    /\ NextPort("target", "arm")
    /\ UNCHANGED <<target, armed, outcome>>

SyncArm ==
    /\ pc = "arm"
    /\ Start(port, run)
    /\ armed' = [armed EXCEPT ![port] = tick]
    /\ NextPort("arm", "idle")
    /\ outcome' = IF Others = {} THEN "armed" ELSE ""
    /\ UNCHANGED target

-----------------------------------------------------------------------------
(* The checks.                                                             *)

N == packets

\* Mutant of ZeroRing: what earlier captures left is not wiped.
ZeroRing_Skipped == pc = "zero" /\ UNCHANGED board /\ Continue("rx off")
ZeroRing ==
    /\ pc = "zero"
    /\ ring' = [s \in 1..N |-> 0] /\ UNCHANGED <<tick, tx, rx, lost>>
    /\ Continue("rx off")

\* configure_rx, configure_rx_stats: disabled, cleared and configured, enabled again.
RxOff == pc = "rx off" /\ RxBecomes(RxControl(rx, FALSE, FALSE)) /\ Continue("rx clear")

\* The clears, which wait until all counters read zero, with RING_SIZE between them.
RxClear ==
    /\ pc = "rx clear"
    /\ RxBecomes([RxCleared(rx) EXCEPT !.size = IF tool = "loopback" THEN N ELSE 0])
    /\ Continue("rx on")
RxOn ==
    /\ pc = "rx on"
    /\ RxBecomes(RxControl(rx, TRUE, tool = "loopback"))
    /\ Continue("tx stop")

\* configure_and_start of preload_stress_test; with two ports, the start pulses come
\* after both are configured.
TxStop == pc = "tx stop" /\ Stop(port) /\ Continue("tx configure")
TxConfigure ==
    /\ pc = "tx configure"
    /\ TxBecomes(port, [Cleared(tx[port]) EXCEPT !.pause = FALSE, !.start = 0])
    /\ NextPort("tx stop", "tx start")
    /\ UNCHANGED <<target, armed, outcome>>
TxStart ==
    /\ pc = "tx start"
    /\ Start(port, run)
    /\ NextPort("tx start", "wait")
    /\ UNCHANGED <<target, armed, outcome>>

\* wait_done gives up; a strict test stops and clears its ports first.
WaitTimeout ==
    /\ pc = "wait"
    /\ UNCHANGED board
    /\ IF tool = "strict" THEN Continue("abort") ELSE End("FAIL")
StopAndClear ==
    /\ pc = "abort"
    /\ Clear(port)
    /\ NextPort("abort", "idle")
    /\ outcome' = IF Others = {} THEN "FAIL" ELSE ""
    /\ UNCHANGED <<target, armed>>

\* The wait of dual_port_preload_test asks each port for done or for its count, that of
\* the others for done alone.
PortDone(p) == ~tx[p].running \/ (Cardinality(ports) > 1 /\ tx[p].sent >= packets)
Completed == \A p \in ports : PortDone(p)

gaps == [k \in 1..(Len(rx.got) - 1) |-> rx.got[k + 1].at - rx.got[k].at]

\* The counters both kinds of verdict want clean.
CountersClean ==
    /\ tx[Cabled].sent = N /\ tx[Cabled].late = 0 /\ ~tx[Cabled].dropped
    /\ Len(rx.got) >= N /\ ~rx.errors

compare_count == Min({Len(gaps), MaxSamples, N - 1})

\* Counted from 0, as descriptors are: the descriptor of the first compared sample.
first_desc_index == Len(gaps) - compare_count + 1

\* rx_trace_interval_check: the last samples against the descriptors they belong to.
IntervalPass ==
    /\ Len(gaps) > 0 /\ first_desc_index + compare_count <= N
    /\ CountersClean
    /\ \A k \in 0..(compare_count - 1) :
          gaps[Len(gaps) - compare_count + 1 + k] = Gaps[first_desc_index + k + 1]

\* preload_rx_precision_check: the least and the largest gap, all being the same.
SpacingPass ==
    /\ CountersClean
    /\ Len(gaps) = N - 1
    /\ \A k \in DOMAIN gaps : gaps[k] = Gaps[N]

\* loopback_rx_verify: the first slots of the capture ring.
LoopbackPass == CountersClean /\ \A s \in 1..N : ring[s] = s

\* --require-no-drop.
StrictPass == \A p \in ports : tx[p].late = 0 /\ ~tx[p].dropped

Passes == CASE tool = "interval" -> IntervalPass
            [] tool = "spacing" -> SpacingPass
            [] tool = "loopback" -> LoopbackPass
            [] tool = "strict" -> StrictPass

\* Some time after wait_done has seen the ports done: the checks sleep before they read.
Verdict ==
    /\ pc = "wait" /\ Completed
    /\ UNCHANGED board
    /\ End(IF Passes THEN "PASS" ELSE "FAIL")

-----------------------------------------------------------------------------
(* The one-shot commands.  Those that only read leave everything as it is. *)

TxCommand(p) ==
    \/ Start(p, run')
    \/ Stop(p)
    \/ Clear(p)
    \/ \E pause, sync \in BOOLEAN :
          \/ TxBecomes(p, [tx[p] EXCEPT !.pause = pause])
          \/ TxBecomes(p, [tx[p] EXCEPT !.sync = sync])
    \/ TxBecomes(p, [tx[p] EXCEPT !.sync = TRUE, !.egress = TRUE])
    \/ TxBecomes(p, [tx[p] EXCEPT !.egress = FALSE])

\* rx-clear, rx-enable, rx-disable, rx-capture and rx-config.
RxCommand ==
    \/ RxBecomes(RxCleared(rx))
    \/ \E enable, capture \in BOOLEAN :
          \/ RxBecomes(RxControl(rx, enable, rx.capture))
          \/ RxBecomes(RxControl(rx, rx.enable, capture))
    \/ \E size \in {0, N} : RxBecomes([rx EXCEPT !.size = size])

Command ==
    /\ Invoke("command", {}, "idle")
    /\ (\E p \in Ports : TxCommand(p)) \/ RxCommand \/ UNCHANGED board

-----------------------------------------------------------------------------
\* An exception, or a kill, after any access.
Abandoned ==
    /\ pc # "idle" /\ run <= Kills
    /\ UNCHANGED board
    /\ End("abandoned")

Clock == Tick /\ UNCHANGED <<plan, progress, pc, outcome>>

AtRest == pc = "idle" /\ run = MaxRuns /\ UNCHANGED vars

Next ==
    \/ LaunchLoad \/ LaunchSync \/ LaunchInterval \/ LaunchSpacing \/ LaunchLoopback
    \/ LaunchStrict
    \/ Command
    \/ LoadConfigure \/ LoadStart
    \/ SyncEgress \/ SyncNow \/ SyncTarget \/ SyncArm
    \/ ZeroRing \/ RxOff \/ RxClear \/ RxOn
    \/ TxStop \/ TxConfigure \/ TxStart
    \/ WaitTimeout \/ StopAndClear \/ Verdict
    \/ Abandoned \/ Clock \/ AtRest

Spec == Init /\ [][Next]_vars

-----------------------------------------------------------------------------
(* Properties.                                                             *)

Own == {[run |-> run, index |-> i] : i \in 1..N}
Seen == {rx.got[k].packet : k \in DOMAIN rx.got}

\* The port has handed over the trace of this invocation, to the last packet.
HandedOver(p) == tx[p].run = run /\ (tx[p].left = 0 \/ tx[p].held)

\* A check that says PASS is right: every packet of its own replay came back whole and
\* nothing but them was measured, whatever killed tools left in the registers, on the
\* cable, in the statistics and in the capture ring.  A strict test that passes has
\* counted its own packets: each of its ports is through with the trace.  The verdicts
\* at the end of the checks' main only ask for enough packets, so there is one
\* exception: a packet left over from before the launch, counted once the RX block is
\* enabled, can stand in for one of their own that is missing.
PassIsTrue ==
    [][(pc # "idle" /\ outcome' = "PASS") =>
           IF tool = "strict" THEN \A p \in ports : HandedOver(p)
           ELSE IF Own \subseteq Seen \ lost THEN tool # "loopback" => Seen = Own
           ELSE Cabled \notin quiet]_vars

InTime == \A p \in ports : armed[p] + Warmup < target

\* After sync-start every port it armed in time begins at exactly the same tick, however
\* far apart the ports were armed and whatever clock, egress mode, pause or start time
\* earlier tools left them with (sync-start of main).  A port that was still replaying is
\* another matter: see Started.
SyncAligned ==
    (outcome = "armed" /\ InTime /\ ports \subseteq quiet) =>
        \A p \in ports : /\ tx[p].first \in {0, target}
                         /\ tick > target => tx[p].first = target

\* docs/preload.md: a newly loaded trace cannot appear late (xdma_load_trace).
LoadedOnTime == outcome = "loaded" => \A p \in ports : tx[p].late = 0
=============================================================================
