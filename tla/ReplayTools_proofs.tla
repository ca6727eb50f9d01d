------------------------- MODULE ReplayTools_proofs -------------------------
(***************************************************************************)
(* The verdicts of the checks and the synchronized start, for any number   *)
(* of ports, any trace of two packets or more, any number of invocations,  *)
(* each of which may be cut anywhere, and any number of lost packets.      *)
(***************************************************************************)
EXTENDS ReplayTools, ModLemmas, SequenceTheorems

-----------------------------------------------------------------------------
(* Types.                                                                  *)

\* How many packets a port has still to send.
Lefts == 0..packets

PortType ==
    [start : Nat, sync : BOOLEAN, egress : BOOLEAN, pause : BOOLEAN, running : BOOLEAN,
     run : Nat, left : Lefts, target : Nat, opens : Nat, clock : Nat, held : BOOLEAN,
     sent : Nat, late : Nat, dropped : BOOLEAN, first : Nat]
PacketType == [run : Nat, index : Nat]
RxType == [enable : BOOLEAN, capture : BOOLEAN, size : Nat,
           got : Seq([packet : PacketType, at : Nat]), pointer : Nat, errors : BOOLEAN]

BoardTypeOK ==
    /\ tick \in Nat \ {0}
    /\ tx \in [Ports -> PortType] /\ rx \in RxType
    /\ ring \in [1..packets -> Nat] /\ lost \subseteq PacketType

ToolTypeOK ==
    /\ run \in Nat /\ ports \subseteq Ports /\ todo \subseteq ports
    /\ pc # "idle" => todo # {} /\ outcome = ""
    /\ target \in Nat /\ armed \in [Ports -> Nat] /\ quiet \subseteq Ports

TypeOK == BoardTypeOK /\ ToolTypeOK

-----------------------------------------------------------------------------
(* The synchronized start.                                                 *)

\* A port that was armed in time waits for its target, in the core or at the cable,
\* and begins at it.
Aligned(p) ==
    armed[p] + Warmup < target =>
        /\ tx[p].sync /\ ~tx[p].pause
        /\ tick <= target =>
              /\ tx[p].first = 0 /\ tx[p].left = packets /\ tx[p].target = target
              /\ tx[p].opens = armed[p] + Warmup
              /\ IF tx[p].egress THEN tx[p].held \/ (tx[p].running /\ tick <= tx[p].opens)
                 ELSE tx[p].running /\ ~tx[p].held
        /\ tick > target => tx[p].first = target

Given(p) == tx[p].start = target /\ tx[p].sync

\* Every port has its target before the first one is armed.
SyncInv ==
    /\ pc = "now" => todo = ports
    /\ pc \in {"target", "arm"} => target > 0
    /\ pc = "target" => \A p \in ports \ todo : Given(p)
    /\ pc = "arm" => /\ \A p \in ports : Given(p)
                     /\ \A p \in ports \ todo : armed[p] # 0
    /\ outcome = "armed" => pc = "idle" /\ \A p \in ports : armed[p] # 0
    /\ pc \notin {"arm", "idle"} => armed = NotArmed
    /\ \A p \in Ports : armed[p] # 0 => Aligned(p)

-----------------------------------------------------------------------------
(* The verdicts.                                                           *)

Starting == {"zero", "rx off", "rx clear", "rx on", "tx stop", "tx configure", "tx start"}

\* A port that was cleared and not started, and one that was.
Bare(p) == tx[p].left = 0 /\ ~tx[p].running /\ ~tx[p].held /\ tx[p].sent = 0
Replaying(p) ==
    /\ tx[p].run = run
    /\ ~tx[p].held => /\ tx[p].sent = packets - tx[p].left
                      /\ ~tx[p].running => tx[p].left = 0

\* What is on the board is of invocations so far.
RunsSoFar ==
    /\ \A p \in Ports : tx[p].run <= run
    /\ \A x \in lost : x.run <= run

\* Which tool is where, and what it has made of its ports.
ToolInv ==
    /\ pc \in {"zero", "rx off", "rx clear", "rx on"} => tool \in Checks /\ todo = ports
    /\ pc = "zero" => tool = "loopback"
    /\ pc \in {"tx stop", "tx configure", "tx start", "wait"} => tool \in Checks \cup {"strict"}
    /\ tool \in Checks => ports = {Cabled}
    /\ pc \in {"tx stop", "tx configure"} => \A p \in ports \ todo : Bare(p)
    /\ pc = "tx start" => /\ \A p \in todo : Bare(p)
                          /\ \A p \in ports \ todo : Replaying(p)
    /\ pc = "wait" => \A p \in ports : Replaying(p)

Off == packets - tx[Cabled].left
Fresh == \A x \in lost : x.run < run
Clean == rx.got = <<>> /\ rx.pointer = 0 /\ ~rx.errors
Wiped == \A s \in 1..packets : s > rx.pointer => ring[s] = 0

\* Before a check starts its replay nothing arrives; then every packet that left and was
\* not counted leaves the count short, and so does one that was counted but damaged or
\* not captured leave its mark.
MeasureInv ==
    (tool \in Checks /\ Cabled \in quiet) =>
        /\ pc \in Starting => tx[Cabled].left = 0 /\ Fresh
        /\ pc \in {"rx on", "tx stop", "tx configure", "tx start"} => Clean
        /\ pc \in {"tx stop", "tx configure", "tx start", "wait"} => 
              rx.capture = (tool = "loopback")
        /\ (tool = "loopback" /\ pc \in (Starting \ {"zero"}) \cup {"wait"}) =>
              IF pc \in {"rx off", "rx clear"} THEN \A s \in 1..packets : ring[s] = 0 ELSE Wiped
        /\ pc = "wait" =>
              /\ \A x \in lost : x.run < run \/ x.index <= Off
              /\ rx.pointer <= Len(rx.got) /\ Len(rx.got) <= Off
              /\ Len(rx.got) = Off => 
                    /\ \A k \in 1..Len(rx.got) : rx.got[k].packet = [run |-> run, index |-> k]
                    /\ (~rx.errors /\ (tool = "loopback" => rx.pointer = Len(rx.got))) => Fresh

-----------------------------------------------------------------------------
(* Constants, and the ports of a loop.                                     *)

LEMMA ConstantTypes ==
    /\ packets \in Nat /\ packets > 1 /\ Warmup \in Nat
    /\ Ports \subseteq Nat /\ Cabled \in Ports /\ StartTimes \subseteq Nat
    /\ Delay \in Nat \ {0} /\ MaxSamples \in Nat \ {0}
  BY BoardAssumption, ToolsAssumption DEF packets

LEMMA LeftTypes == 0 \in Lefts /\ packets \in Lefts /\ Lefts \subseteq Nat
  BY ConstantTypes DEF Lefts

LEMMA GapTypes ==
    ASSUME NEW i \in 1..packets
    PROVE  Gaps[i] \in Nat
  BY BoardAssumption DEF packets

\* The least number of a set belongs to it.
LEMMA MinIsIn ==
    ASSUME NEW S, S \subseteq Nat, S # {}
    PROVE  Min(S) \in S /\ \A n \in S : Min(S) <= n
<1>1. \E least \in S : \A n \in S : least <= n
  BY LeastNumber
<1>2. QED BY <1>1 DEF Min

\* A tool that runs has a port to do.
LEMMA PortToDo ==
    ASSUME TypeOK, pc # "idle"
    PROVE  port \in todo /\ port \in ports /\ port \in Ports /\ tx[port] \in PortType
<1>1. todo \subseteq ports /\ ports \subseteq Ports /\ Ports \subseteq Nat /\ todo # {}
  BY ConstantTypes DEF TypeOK, ToolTypeOK
<1>2. todo \subseteq Nat
  BY <1>1
<1>3. port \in todo
  BY <1>1, <1>2, MinIsIn DEF port
<1>4. QED BY <1>1, <1>3 DEF TypeOK, BoardTypeOK

-----------------------------------------------------------------------------
(* What a write makes of a port.                                           *)

LEMMA StoppedPort ==
    ASSUME NEW q \in PortType
    PROVE  /\ Stopped(q) \in PortType
           /\ Stopped(q).run = q.run /\ Stopped(q).left = 0 /\ ~Stopped(q).running
           /\ ~Stopped(q).held /\ Stopped(q).sent = 0
  BY LeftTypes DEF PortType, Stopped

LEMMA ClearedPort ==
    ASSUME NEW q \in PortType
    PROVE  /\ Cleared(q) \in PortType
           /\ Cleared(q).run = q.run /\ Cleared(q).left = 0 /\ ~Cleared(q).running
           /\ ~Cleared(q).held /\ Cleared(q).sent = 0
<1>1. PICK r \in PortType : r = Stopped(q)
  BY StoppedPort
<1>2. Cleared(q) = [r EXCEPT !.late = 0, !.dropped = FALSE]
  BY <1>1 DEF Cleared
<1>3. r.run = q.run /\ r.left = 0 /\ ~r.running /\ ~r.held /\ r.sent = 0
  BY <1>1, StoppedPort
<1>4. QED BY <1>2, <1>3 DEF PortType

\* The pause bit and START.
LEMMA PausedPort ==
    ASSUME NEW q \in PortType, NEW startTime \in Nat, NEW pause \in BOOLEAN,
           NEW r \in {[q EXCEPT !.pause = pause],
                      [q EXCEPT !.pause = FALSE, !.start = startTime]}
    PROVE  /\ r \in PortType
           /\ r.run = q.run /\ r.left = q.left /\ r.running = q.running /\ r.held = q.held
           /\ r.sent = q.sent
  BY DEF PortType

\* A port after a start pulse of the tools.
Restarted(q, by, delay) == [Started(q, by, delay) EXCEPT !.pause = FALSE]

\* A start pulse: the whole trace is to be sent, from a target the port was given, if it
\* was given one.
LEMMA StartedPort ==
    ASSUME TypeOK, NEW q \in PortType, NEW by \in Nat, NEW delay \in 0..Warmup,
           NEW r, r = Restarted(q, by, delay)
    PROVE  /\ r \in PortType
           /\ r.running /\ ~r.held /\ ~r.pause /\ r.run = by /\ r.left = packets
           /\ r.first = 0 /\ r.opens = tick + Warmup
           /\ r.sent = q.sent /\ r.start = q.start /\ r.sync = q.sync
           /\ r.egress = q.egress
           /\ q.start # 0 => r.target = q.start
<1>1. packets \in Nat /\ tick \in Nat /\ Warmup \in Nat /\ delay \in Nat
  BY ConstantTypes DEF TypeOK, BoardTypeOK
<1>2. PICK first \in Nat : first = FirstTarget(q, tick + delay)
  <2>1. Gaps[1] \in Nat
    BY GapTypes, ConstantTypes
  <2>2. QED BY <1>1, <2>1 DEF FirstTarget, PortType
<1>3. PICK opens \in Nat : opens = tick + Warmup
  BY <1>1
<1>4. r = [q EXCEPT !.running = TRUE, !.run = by, !.clock = 0, !.held = FALSE,
                    !.opens = opens, !.left = packets, !.target = first, !.first = 0,
                    !.pause = FALSE]
  BY <1>2, <1>3 DEF Restarted, Started
<1>5. /\ r \in PortType
      /\ r.running /\ ~r.held /\ ~r.pause /\ r.run = by /\ r.left = packets
      /\ r.first = 0 /\ r.opens = opens
      /\ r.sent = q.sent /\ r.start = q.start /\ r.sync = q.sync
      /\ r.egress = q.egress /\ r.target = first
  <2>1. PICK u : u = [q EXCEPT !.running = TRUE, !.run = by, !.clock = 0, !.held = FALSE]
    OBVIOUS
  <2>2. /\ u \in PortType /\ u.running /\ ~u.held /\ u.run = by
        /\ u.sent = q.sent /\ u.start = q.start /\ u.sync = q.sync /\ u.egress = q.egress
    BY <2>1 DEF PortType
  <2>3. r = [u EXCEPT !.opens = opens, !.left = packets, !.target = first, !.first = 0,
                      !.pause = FALSE]
    BY <1>4, <2>1
  <2>4. r \in PortType /\ r.left = packets /\ r.first = 0 /\ r.opens = opens
        /\ r.target = first /\ ~r.pause
    <3>1. packets \in Lefts
      BY LeftTypes
    <3>2. PICK v : v = [u EXCEPT !.opens = opens, !.left = packets, !.target = first]
      OBVIOUS
    <3>3. v \in PortType /\ v.left = packets /\ v.opens = opens /\ v.target = first
      BY <2>2, <3>1, <3>2 DEF PortType
    <3>4. r = [v EXCEPT !.first = 0, !.pause = FALSE]
      BY <2>3, <3>2
    <3>5. r \in PortType /\ r.first = 0 /\ ~r.pause
      <4>1. v \in PortType
        BY <3>3
      <4>2. QED BY ONLY <3>4, <4>1 DEF PortType
    <3>6. r.left = v.left /\ r.opens = v.opens /\ r.target = v.target
      BY <3>3, <3>4 DEF PortType
    <3>7. QED BY <3>3, <3>5, <3>6
  <2>5. /\ r.running = u.running /\ r.held = u.held /\ r.run = u.run /\ r.sent = u.sent
        /\ r.start = u.start /\ r.sync = u.sync /\ r.egress = u.egress
    BY <2>2, <2>3 DEF PortType
  <2>6. QED BY <2>2, <2>4, <2>5
<1>6. q.start # 0 => first = q.start
  BY <1>2 DEF FirstTarget
<1>7. QED BY <1>3, <1>5, <1>6

\* SCHED_CTRL, and START with it.
LEMMA ScheduledPort ==
    ASSUME NEW q \in PortType, NEW startTime \in Nat, NEW sync \in BOOLEAN,
           NEW r \in {[q EXCEPT !.start = startTime, !.sync = TRUE],
                      [q EXCEPT !.sync = TRUE, !.egress = TRUE],
                      [q EXCEPT !.sync = sync], [q EXCEPT !.egress = FALSE]}
    PROVE  r \in PortType /\ r.run = q.run
<1>1. CASE r = [q EXCEPT !.start = startTime, !.sync = TRUE]
  BY <1>1 DEF PortType
<1>2. CASE r = [q EXCEPT !.sync = TRUE, !.egress = TRUE]
  BY <1>2 DEF PortType
<1>3. CASE r = [q EXCEPT !.sync = sync]
  BY <1>3 DEF PortType
<1>4. CASE r = [q EXCEPT !.egress = FALSE]
  BY <1>4 DEF PortType
<1>5. QED BY <1>1, <1>2, <1>3, <1>4

LEMMA TargetedPort ==
    ASSUME NEW q \in PortType, NEW startTime \in Nat,
           NEW r, r = [q EXCEPT !.start = startTime, !.sync = TRUE]
    PROVE  r \in PortType /\ r.start = startTime /\ r.sync
  BY DEF PortType

-----------------------------------------------------------------------------
(* What a tick makes of a port.                                            *)

LEMMA HandedPort ==
    ASSUME BoardTypeOK, NEW p \in Ports, NEW q \in PortType, q = tx[p]
    PROVE  /\ Handed(p) \in PortType
           /\ \A field \in {"start", "sync", "egress", "pause", "run", "left", "target",
                            "opens", "clock", "late", "dropped", "first"} :
                 Handed(p)[field] = q[field]
           /\ IF Enabled(p) /\ EgressActive(p)
              THEN Handed(p).held /\ ~Handed(p).running /\ Handed(p).sent = q.sent + q.left
              ELSE Handed(p) = q
<1>1. CASE Enabled(p) /\ EgressActive(p)
  <2>1. PICK sent \in Nat : sent = q.sent + q.left
    <3>1. q.sent \in Nat /\ q.left \in Nat
      BY LeftTypes DEF PortType
    <3>2. q.sent + q.left \in Nat
      BY <3>1
    <3>3. QED BY <3>2
  <2>2. Handed(p) = [tx[p] EXCEPT !.held = TRUE, !.running = FALSE, !.sent = sent]
    <3>1. Handed(p) = [tx[p] EXCEPT !.held = TRUE, !.running = FALSE,
                                    !.sent = tx[p].sent + tx[p].left]
      BY <1>1, Zenon DEF Handed
    <3>2. tx[p].sent + tx[p].left = sent
      BY <2>1
    <3>3. QED BY <3>1, <3>2, Zenon
  <2>3. Handed(p) = [q EXCEPT !.held = TRUE, !.running = FALSE, !.sent = sent]
    BY <2>2, Zenon
  <2>4. Handed(p) \in PortType
    BY <2>3 DEF PortType
  <2>5. Handed(p).held /\ ~Handed(p).running /\ Handed(p).sent = sent
    BY <2>3 DEF PortType
  <2>6. \A field \in {"start", "sync", "egress", "pause", "run", "left", "target",
                      "opens", "clock", "late", "dropped", "first"} :
           Handed(p)[field] = q[field]
    BY <2>3 DEF PortType
  <2>7. QED BY <1>1, <2>1, <2>4, <2>5, <2>6
<1>2. CASE ~(Enabled(p) /\ EgressActive(p))
  BY <1>2 DEF Handed
<1>3. QED BY <1>1, <1>2

LEMMA TickedPort ==
    ASSUME BoardTypeOK, NEW p \in Ports, NEW q \in PortType, q = tx[p]
    PROVE  /\ Ticked(p) \in PortType
           /\ Ticked(p).start = q.start /\ Ticked(p).sync = q.sync
           /\ Ticked(p).egress = q.egress /\ Ticked(p).pause = q.pause
           /\ Ticked(p).run = q.run /\ Ticked(p).opens = q.opens
           /\ Ticked(p).held = Handed(p).held
           /\ Ticked(p).left = IF Sends(p) THEN q.left - 1 ELSE q.left
           /\ Ticked(p).target = IF Sends(p) THEN NextTarget(q) ELSE q.target
           /\ Ticked(p).first = IF Sends(p) /\ q.first = 0 THEN tick ELSE q.first
           /\ Ticked(p).sent = IF Sends(p) /\ ~q.held THEN Handed(p).sent + 1
                               ELSE Handed(p).sent
           /\ Ticked(p).running = (Handed(p).running /\ ~(Sends(p) /\ ~q.held /\ q.left = 1))
<1>1. PICK h \in PortType : h = Handed(p)
  BY HandedPort
<1>2. h.left = q.left /\ h.target = q.target /\ h.first = q.first /\ h.late = q.late
      /\ h.clock = q.clock
  BY <1>1, HandedPort
<1>3. PICK left \in Lefts : left = IF Sends(p) THEN q.left - 1 ELSE q.left
  <2>1. q.left \in 0..packets /\ packets \in Nat
    BY ConstantTypes DEF PortType, Lefts
  <2>2. CASE Sends(p)
    <3>1. q.left # 0
      BY <2>2 DEF Sends
    <3>2. q.left - 1 \in Lefts
      BY <2>1, <3>1 DEF Lefts
    <3>3. QED BY <2>2, <3>2
  <2>3. CASE ~Sends(p)
    BY <2>1, <2>3 DEF Lefts
  <2>4. QED BY <2>2, <2>3
<1>4. PICK next \in Nat : next = IF Sends(p) THEN NextTarget(q) ELSE q.target
  <2>1. q.target \in Nat /\ q.left \in 0..packets /\ packets \in Nat
    BY ConstantTypes DEF PortType, Lefts
  <2>2. NextTarget(q) \in Nat
    <3>1. CASE q.left > 1
      <4>1. Index(q) + 1 \in 1..packets
        BY <2>1, <3>1 DEF Index
      <4>2. Gaps[Index(q) + 1] \in Nat
        BY <4>1, GapTypes
      <4>3. QED BY <2>1, <3>1, <4>2 DEF NextTarget
    <3>2. CASE ~(q.left > 1)
      BY <3>2 DEF NextTarget
    <3>3. QED BY <3>1, <3>2
  <2>3. QED BY <2>1, <2>2
<1>5. PICK first \in Nat : first = IF Sends(p) /\ q.first = 0 THEN tick ELSE q.first
  <2>1. tick \in Nat /\ q.first \in Nat
    BY DEF BoardTypeOK, PortType
  <2>2. QED BY <2>1
<1>6. PICK sent \in Nat : sent = IF Sends(p) /\ ~q.held THEN h.sent + 1 ELSE h.sent
  <2>1. h.sent \in Nat
    BY DEF PortType
  <2>2. QED BY <2>1
<1>7. PICK late \in Nat :
         late = IF Sends(p) /\ ~q.held /\ q.target < Now(p) THEN h.late + 1 ELSE h.late
  <2>1. h.late \in Nat
    BY DEF PortType
  <2>2. QED BY <2>1
<1>8. PICK running \in BOOLEAN :
         running = (h.running /\ ~(Sends(p) /\ ~q.held /\ q.left = 1))
  OBVIOUS
<1>9. PICK clock \in Nat : clock = IF Enabled(p) THEN h.clock + 1 ELSE h.clock
  <2>1. h.clock \in Nat
    BY DEF PortType
  <2>2. QED BY <2>1
<1>10. Ticked(p) = [h EXCEPT !.left = left, !.target = next, !.first = first, !.sent = sent,
                             !.late = late, !.running = running, !.clock = clock]
  <2>1. Ticked(p) =
          [h EXCEPT
            !.left = IF Sends(p) THEN h.left - 1 ELSE h.left,
            !.target = IF Sends(p) THEN NextTarget(q) ELSE h.target,
            !.first = IF Sends(p) /\ h.first = 0 THEN tick ELSE h.first,
            !.sent = IF Sends(p) /\ ~q.held THEN h.sent + 1 ELSE h.sent,
            !.late = IF (Sends(p) /\ ~q.held) /\ q.target < Now(p) THEN h.late + 1 ELSE h.late,
            !.running = h.running /\ ~((Sends(p) /\ ~q.held) /\ q.left = 1),
            !.clock = IF Enabled(p) THEN h.clock + 1 ELSE h.clock]
    BY <1>1, Zenon DEF Ticked
  <2>2. /\ left = IF Sends(p) THEN h.left - 1 ELSE h.left
        /\ next = IF Sends(p) THEN NextTarget(q) ELSE h.target
        /\ first = IF Sends(p) /\ h.first = 0 THEN tick ELSE h.first
    BY <1>2, <1>3, <1>4, <1>5
  <2>3. /\ late = IF (Sends(p) /\ ~q.held) /\ q.target < Now(p) THEN h.late + 1 ELSE h.late
        /\ running = (h.running /\ ~((Sends(p) /\ ~q.held) /\ q.left = 1))
    BY <1>7, <1>8
  <2>4. QED BY <1>6, <1>9, <2>1, <2>2, <2>3, Zenon
<1>11. /\ Ticked(p) \in PortType
       /\ Ticked(p).left = left /\ Ticked(p).target = next /\ Ticked(p).first = first
       /\ Ticked(p).sent = sent /\ Ticked(p).running = running
       /\ \A field \in {"start", "sync", "egress", "pause", "run", "opens", "held"} :
             Ticked(p)[field] = h[field]
  <2>1. PICK u : u = [h EXCEPT !.left = left, !.target = next, !.first = first, !.sent = sent]
    OBVIOUS
  <2>2. /\ u \in PortType
        /\ u.left = left /\ u.target = next /\ u.first = first /\ u.sent = sent
    BY <2>1 DEF PortType
  <2>3. \A field \in {"start", "sync", "egress", "pause", "run", "opens", "held"} :
           u[field] = h[field]
    BY <2>1 DEF PortType
  <2>4. Ticked(p) = [u EXCEPT !.late = late, !.running = running, !.clock = clock]
    BY <1>10, <2>1
  <2>5. Ticked(p) \in PortType /\ Ticked(p).running = running
    BY <2>2, <2>4 DEF PortType
  <2>6. /\ Ticked(p).left = u.left /\ Ticked(p).target = u.target
        /\ Ticked(p).first = u.first /\ Ticked(p).sent = u.sent
    BY <2>2, <2>4 DEF PortType
  <2>7. \A field \in {"start", "sync", "egress", "pause", "run", "opens", "held"} :
           Ticked(p)[field] = u[field]
    BY <2>2, <2>4 DEF PortType
  <2>8. QED BY <2>2, <2>3, <2>5, <2>6, <2>7
<1>13. /\ h.start = q.start /\ h.sync = q.sync /\ h.egress = q.egress /\ h.pause = q.pause
       /\ h.run = q.run /\ h.opens = q.opens
  BY <1>1, HandedPort
<1>14. /\ Ticked(p).start = q.start /\ Ticked(p).sync = q.sync
       /\ Ticked(p).egress = q.egress /\ Ticked(p).pause = q.pause
       /\ Ticked(p).run = q.run /\ Ticked(p).opens = q.opens
       /\ Ticked(p).held = h.held
  BY <1>11, <1>13
<1>15. QED BY <1>1, <1>3, <1>4, <1>5, <1>6, <1>8, <1>11, <1>14

\* The same for a port of the board, whatever becomes of the packet.
LEMMA TickPort ==
    ASSUME BoardTypeOK, Tick, NEW p \in Ports, NEW q \in PortType, q = tx[p]
    PROVE  /\ tx'[p] \in PortType
           /\ tx'[p].start = q.start /\ tx'[p].sync = q.sync
           /\ tx'[p].egress = q.egress /\ tx'[p].pause = q.pause
           /\ tx'[p].run = q.run /\ tx'[p].opens = q.opens
           /\ tx'[p].held = Handed(p).held
           /\ tx'[p].left = IF Sends(p) THEN q.left - 1 ELSE q.left
           /\ tx'[p].target = IF Sends(p) THEN NextTarget(q) ELSE q.target
           /\ tx'[p].first = IF Sends(p) /\ q.first = 0 THEN tick ELSE q.first
           /\ tx'[p].sent = IF Sends(p) /\ ~q.held THEN Handed(p).sent + 1
                            ELSE Handed(p).sent
           /\ tx'[p].running = (Handed(p).running /\ ~(Sends(p) /\ ~q.held /\ q.left = 1))
<1>1. \/ TxTicked
      \/ tx' = [o \in Ports |-> [Ticked(o) EXCEPT !.dropped = @ \/ o = Cabled]]
  BY Zenon DEF Tick, Arrives, GoesWrong
<1>2. CASE TxTicked
  <2>1. tx'[p] = Ticked(p)
    BY <1>2 DEF TxTicked
  <2>2. QED BY <2>1, TickedPort
<1>3. CASE tx' = [o \in Ports |-> [Ticked(o) EXCEPT !.dropped = @ \/ o = Cabled]]
  <2>1. PICK h \in PortType : h = Ticked(p)
    BY TickedPort
  <2>2. PICK dropped \in BOOLEAN : dropped = (h.dropped \/ p = Cabled)
    OBVIOUS
  <2>3. tx'[p] = [h EXCEPT !.dropped = dropped]
    <3>1. tx'[p] = [Ticked(p) EXCEPT !.dropped = Ticked(p).dropped \/ p = Cabled]
      BY <1>3, Zenon
    <3>2. QED BY <2>1, <2>2, <3>1, Zenon
  <2>4. /\ tx'[p] \in PortType
        /\ tx'[p].start = h.start /\ tx'[p].sync = h.sync /\ tx'[p].egress = h.egress
        /\ tx'[p].pause = h.pause /\ tx'[p].run = h.run /\ tx'[p].opens = h.opens
    BY ONLY <2>1, <2>3, <2>2 DEF PortType
  <2>5. /\ tx'[p].held = h.held /\ tx'[p].left = h.left /\ tx'[p].target = h.target
        /\ tx'[p].first = h.first /\ tx'[p].sent = h.sent /\ tx'[p].running = h.running
    BY ONLY <2>1, <2>3, <2>2 DEF PortType
  <2>6. QED BY <2>1, <2>4, <2>5, TickedPort
<1>4. QED BY <1>1, <1>2, <1>3

-----------------------------------------------------------------------------
(* The types are kept.                                                     *)

LEMMA TxWritten ==
    ASSUME BoardTypeOK, NEW p \in Ports, NEW q \in PortType, TxBecomes(p, q)
    PROVE  /\ BoardTypeOK'
           /\ tx'[p] = q /\ \A o \in Ports \ {p} : tx'[o] = tx[o]
<1>1. tx' = [tx EXCEPT ![p] = q] /\ UNCHANGED <<tick, rx, ring, lost>>
  BY Zenon DEF TxBecomes
<1>2. tx \in [Ports -> PortType]
  BY DEF BoardTypeOK
<1>3. tx' \in [Ports -> PortType]
  BY <1>1, <1>2
<1>4. tx'[p] = q /\ \A o \in Ports \ {p} : tx'[o] = tx[o]
  BY <1>1, <1>2
<1>5. QED BY <1>1, <1>3, <1>4 DEF BoardTypeOK

\* What leaves for the RX block, and what the block makes of it.
LEMMA LeavingType ==
    ASSUME BoardTypeOK
    PROVE  /\ Leaving \in PacketType
           /\ Leaving.run = tx[Cabled].run
           /\ Leaving.index = packets - tx[Cabled].left + 1
<1>1. PICK q \in PortType : q = tx[Cabled]
  BY ConstantTypes DEF BoardTypeOK
<1>2. q.run \in Nat /\ q.left \in 0..packets /\ packets \in Nat
  BY ConstantTypes DEF PortType, Lefts
<1>3. PICK index \in Nat : index = packets - q.left + 1
  BY <1>2
<1>4. Leaving = [run |-> q.run, index |-> index]
  BY <1>1, <1>3 DEF Leaving, Index
<1>5. QED BY <1>1, <1>2, <1>3, <1>4 DEF PacketType

LEMMA CountedType ==
    ASSUME BoardTypeOK
    PROVE  /\ Counted \in RxType
           /\ Counted.enable = rx.enable /\ Counted.capture = rx.capture
           /\ Counted.size = rx.size /\ Counted.pointer = rx.pointer
           /\ Counted.errors = rx.errors
           /\ Len(Counted.got) = Len(rx.got) + 1
           /\ Counted.got[Len(rx.got) + 1].packet = Leaving
           /\ \A k \in 1..Len(rx.got) : Counted.got[k] = rx.got[k]
<1>1. PICK sample \in [packet : PacketType, at : Nat] : sample = [packet |-> Leaving, at |-> tick]
  BY LeavingType DEF BoardTypeOK
<1>2. PICK s : s = rx.got
  OBVIOUS
<1>3. s \in Seq([packet : PacketType, at : Nat]) /\ rx \in RxType
  BY <1>2 DEF BoardTypeOK, RxType
<1>4. PICK longer : longer = Append(s, sample)
  OBVIOUS
<1>5. /\ longer \in Seq([packet : PacketType, at : Nat])
      /\ Len(longer) = Len(s) + 1 /\ longer[Len(s) + 1] = sample
      /\ \A k \in 1..Len(s) : longer[k] = s[k]
  BY <1>3, <1>4, AppendProperties
<1>6. Counted = [rx EXCEPT !.got = longer]
  BY <1>1, <1>2, <1>4, Zenon DEF Counted
<1>7. /\ Counted \in RxType /\ Counted.got = longer
      /\ Counted.enable = rx.enable /\ Counted.capture = rx.capture
      /\ Counted.size = rx.size /\ Counted.pointer = rx.pointer
      /\ Counted.errors = rx.errors
  BY ONLY <1>3, <1>5, <1>6 DEF RxType
<1>8. sample.packet = Leaving
  BY <1>1
<1>9. QED BY <1>2, <1>5, <1>7, <1>8

\* CONTROL of the RX block.
LEMMA RxPort ==
    ASSUME NEW r \in RxType, NEW size \in Nat, NEW enable \in BOOLEAN, NEW capture \in BOOLEAN
    PROVE  /\ RxCleared(r) \in RxType /\ [RxCleared(r) EXCEPT !.size = size] \in RxType
           /\ [r EXCEPT !.size = size] \in RxType
           /\ RxControl(r, enable, capture) \in RxType
<1>1. <<>> \in Seq([packet : PacketType, at : Nat])
  BY EmptySeq
<1>2. RxCleared(r) \in RxType
  BY <1>1 DEF RxCleared, RxType
<1>3. \A s \in RxType : [s EXCEPT !.size = size] \in RxType
  BY DEF RxType
<1>4. RxControl(r, enable, capture) \in RxType
  <2>1. PICK kept \in Seq([packet : PacketType, at : Nat]) :
           kept = IF enable THEN r.got ELSE <<>>
    BY <1>1 DEF RxType
  <2>2. PICK errors \in BOOLEAN : errors = (enable /\ r.errors)
    OBVIOUS
  <2>3. RxControl(r, enable, capture)
          = [r EXCEPT !.enable = enable, !.capture = capture, !.got = kept, !.errors = errors]
    BY <2>1, <2>2, Zenon DEF RxControl
  <2>4. QED BY ONLY <2>3, <2>1, <2>2 DEF RxType
<1>5. QED BY <1>2, <1>3, <1>4

LEMMA RxWritten ==
    ASSUME BoardTypeOK, NEW r \in RxType, RxBecomes(r)
    PROVE  BoardTypeOK' /\ rx' = r /\ UNCHANGED <<tick, tx, ring, lost>>
<1>1. rx' = r /\ UNCHANGED <<tick, tx, ring, lost>>
  BY Zenon DEF RxBecomes
<1>2. QED BY <1>1 DEF BoardTypeOK

\* What a tick brings the RX block, from a port that sends.
LEMMA TickRx ==
    ASSUME BoardTypeOK, Tick
    PROVE  /\ rx' \in RxType /\ ring' \in [1..packets -> Nat] /\ lost' \subseteq PacketType
           /\ rx'.capture = rx.capture
           /\ ~Sends(Cabled) => UNCHANGED <<rx, ring, lost>>
           /\ lost' \subseteq lost \cup {Leaving}
           /\ \/ UNCHANGED rx
              \/ rx'.got = Counted.got /\ rx'.pointer \in {rx.pointer, rx.pointer + 1}
           /\ rx'.pointer # rx.pointer => rx'.got = Counted.got
           /\ \A s \in 1..packets : ring'[s] # ring[s] =>
                 s = rx.pointer + 1 /\ rx'.pointer = rx.pointer + 1
           /\ lost' # lost => \/ UNCHANGED rx
                              \/ rx'.errors
                              \/ rx.capture /\ rx'.pointer = rx.pointer
           /\ rx'.errors \/ rx'.errors = rx.errors
<1>1. /\ rx \in RxType /\ Counted \in RxType /\ Leaving \in PacketType
      /\ ring \in [1..packets -> Nat] /\ lost \subseteq PacketType
      /\ Leaving.index \in Nat
  <2>1. Leaving \in PacketType
    BY LeavingType
  <2>2. QED BY <2>1, CountedType DEF BoardTypeOK, PacketType
<1>2. rx.pointer \in Nat /\ rx.pointer # rx.pointer + 1
  BY <1>1 DEF RxType
<1>3. CASE ~Sends(Cabled)
  <2>1. UNCHANGED <<rx, ring, lost>>
    BY <1>3, Zenon DEF Tick
  <2>2. QED BY <1>1, <1>3, <2>1
<1>4. CASE Sends(Cabled) /\ Arrives
  <2>1. lost' = lost
    BY <1>4, Zenon DEF Arrives
  <2>2. ring' = IF Capturing /\ rx.pointer < packets
                THEN [ring EXCEPT ![rx.pointer + 1] = Leaving.index] ELSE ring
    BY <1>4, Zenon DEF Arrives
  <2>3. ring' \in [1..packets -> Nat]
    BY <1>1, <2>2
  <2>4. \A s \in 1..packets : ring'[s] # ring[s] => s = rx.pointer + 1 /\ Capturing
    BY <1>1, <2>2
  <2>5. CASE ~rx.enable
    <3>1. rx' = rx /\ ~Capturing
      BY <1>4, <2>5, Zenon DEF Arrives, Capturing
    <3>2. QED BY <1>1, <1>4, <2>1, <2>3, <2>4, <3>1
  <2>6. CASE rx.enable /\ Capturing
    <3>1. PICK pointer \in Nat : pointer = Counted.pointer + 1
      BY <1>1 DEF RxType
    <3>2. rx' = [Counted EXCEPT !.pointer = pointer]
      <4>1. rx' = [Counted EXCEPT !.pointer = Counted.pointer + 1]
        BY <1>4, <2>6, Zenon DEF Arrives
      <4>2. QED BY <3>1, <4>1, Zenon
    <3>3. /\ rx' \in RxType /\ rx'.capture = Counted.capture /\ rx'.got = Counted.got
          /\ rx'.pointer = pointer /\ rx'.errors = Counted.errors
      BY ONLY <1>1, <3>1, <3>2 DEF RxType
    <3>4. rx'.pointer = rx.pointer + 1 /\ rx'.capture = rx.capture /\ rx'.errors = rx.errors
      BY <3>1, <3>3, CountedType
    <3>5. QED BY <1>1, <1>2, <1>4, <2>1, <2>3, <2>4, <3>3, <3>4
  <2>7. CASE rx.enable /\ ~Capturing
    <3>1. rx' = Counted
      BY <1>4, <2>7, Zenon DEF Arrives
    <3>2. /\ rx'.capture = rx.capture /\ rx'.pointer = rx.pointer /\ rx'.errors = rx.errors
      BY <3>1, CountedType
    <3>3. QED BY <1>1, <1>2, <1>4, <2>1, <2>3, <2>4, <2>7, <3>1, <3>2
  <2>8. QED BY <2>5, <2>6, <2>7
<1>5. CASE Sends(Cabled) /\ GoesWrong
  <2>1. lost' = lost \cup {Leaving} /\ ring' = ring
    BY <1>5, Zenon DEF GoesWrong
  <2>2. \/ rx' = rx
        \/ rx' = [Counted EXCEPT !.errors = TRUE]
        \/ Capturing /\ rx' = Counted
    BY <1>5, Zenon DEF GoesWrong
  <2>3. CASE rx' = rx
    BY <1>1, <1>5, <2>1, <2>3
  <2>4. CASE rx' = [Counted EXCEPT !.errors = TRUE]
    <3>1. /\ rx' \in RxType /\ rx'.capture = Counted.capture /\ rx'.got = Counted.got
          /\ rx'.pointer = Counted.pointer /\ rx'.errors
      BY ONLY <1>1, <2>4 DEF RxType
    <3>2. rx'.pointer = rx.pointer /\ rx'.capture = rx.capture
      BY <3>1, CountedType
    <3>3. QED BY <1>1, <1>5, <2>1, <3>1, <3>2
  <2>5. CASE Capturing /\ rx' = Counted
    <3>1. /\ rx'.capture = rx.capture /\ rx'.pointer = rx.pointer /\ rx'.errors = rx.errors
      BY <2>5, CountedType
    <3>2. rx.capture
      BY <2>5, Zenon DEF Capturing
    <3>3. QED BY <1>1, <1>5, <2>1, <2>5, <3>1, <3>2
  <2>6. QED BY <2>2, <2>3, <2>4, <2>5
<1>6. Sends(Cabled) => Arrives \/ GoesWrong
  BY Zenon DEF Tick
<1>7. QED BY <1>3, <1>4, <1>5, <1>6

LEMMA TickType ==
    ASSUME BoardTypeOK, Tick
    PROVE  BoardTypeOK' /\ tick' = tick + 1
<1>1. tick \in Nat \ {0} /\ tick' = tick + 1
  BY Zenon DEF BoardTypeOK, Tick
<1>2. tx' \in [Ports -> PortType]
  <2>1. \A p \in Ports : tx'[p] \in PortType
    <3>1. \A p \in Ports : tx[p] \in PortType
      BY DEF BoardTypeOK
    <3>2. QED BY <3>1, TickPort
  <2>2. \/ TxTicked
        \/ tx' = [o \in Ports |-> [Ticked(o) EXCEPT !.dropped = @ \/ o = Cabled]]
    BY Zenon DEF Tick, Arrives, GoesWrong
  <2>3. tx' = [o \in Ports |-> tx'[o]]
    BY <2>2 DEF TxTicked
  <2>4. QED BY <2>1, <2>3
<1>3. QED BY <1>1, <1>2, TickRx DEF BoardTypeOK

LEMMA BoardInitial == BoardInit => BoardTypeOK
<1>1. SUFFICES ASSUME BoardInit PROVE BoardTypeOK
  OBVIOUS
<1>2. PowerOn \in PortType
  BY LeftTypes DEF PowerOn, PortType
<1>3. tx \in [Ports -> PortType]
  BY <1>1, <1>2 DEF BoardInit
<1>4. rx \in RxType
  <2>1. <<>> \in Seq([packet : PacketType, at : Nat])
    BY EmptySeq
  <2>2. QED BY <1>1, <2>1 DEF BoardInit, RxType
<1>5. QED BY <1>1, <1>3, <1>4 DEF BoardInit, BoardTypeOK

\* A start pulse from a tool.
LEMMA StartWritten ==
    ASSUME TypeOK, NEW p \in Ports, NEW by \in Nat, Start(p, by)
    PROVE  /\ BoardTypeOK' /\ UNCHANGED <<tick, rx, ring, lost>>
           /\ \A o \in Ports \ {p} : tx'[o] = tx[o]
           /\ tx'[p].running /\ ~tx'[p].held /\ ~tx'[p].pause /\ tx'[p].run = by
           /\ tx'[p].left = packets /\ tx'[p].first = 0 /\ tx'[p].opens = tick + Warmup
           /\ tx'[p].sent = tx[p].sent /\ tx'[p].start = tx[p].start
           /\ tx'[p].sync = tx[p].sync /\ tx'[p].egress = tx[p].egress
           /\ tx[p].start # 0 => tx'[p].target = tx[p].start
<1>1. PICK delay \in 0..Warmup : TxBecomes(p, [Started(tx[p], by, delay) EXCEPT !.pause = FALSE])
  BY Zenon DEF Start
<1>2. PICK r : r = Restarted(tx[p], by, delay)
  OBVIOUS
<1>3. tx[p] \in PortType /\ BoardTypeOK
  BY DEF TypeOK, BoardTypeOK
<1>4. /\ r \in PortType
      /\ r.running /\ ~r.held /\ ~r.pause /\ r.run = by /\ r.left = packets
      /\ r.first = 0 /\ r.opens = tick + Warmup
      /\ r.sent = tx[p].sent /\ r.start = tx[p].start /\ r.sync = tx[p].sync
      /\ r.egress = tx[p].egress
      /\ tx[p].start # 0 => r.target = tx[p].start
  BY <1>2, <1>3, StartedPort
<1>5. TxBecomes(p, r)
  BY <1>1, <1>2, Zenon DEF Restarted
<1>6. BoardTypeOK' /\ tx'[p] = r /\ \A o \in Ports \ {p} : tx'[o] = tx[o]
  BY <1>3, <1>4, <1>5, TxWritten
<1>7. UNCHANGED <<tick, rx, ring, lost>>
  BY <1>5, Zenon DEF TxBecomes
<1>8. QED BY <1>4, <1>6, <1>7

\* Stop, clear and the configuration that follows it.
LEMMA ClearWritten ==
    ASSUME TypeOK, NEW p \in Ports, NEW startTime \in Nat,
           \/ Stop(p) \/ Clear(p)
           \/ TxBecomes(p, [Cleared(tx[p]) EXCEPT !.pause = FALSE, !.start = startTime])
    PROVE  /\ BoardTypeOK' /\ UNCHANGED <<tick, rx, ring, lost>>
           /\ \A o \in Ports \ {p} : tx'[o] = tx[o]
           /\ tx'[p].run = tx[p].run /\ tx'[p].left = 0 /\ ~tx'[p].running
           /\ ~tx'[p].held /\ tx'[p].sent = 0
<1>1. tx[p] \in PortType /\ BoardTypeOK
  BY DEF TypeOK, BoardTypeOK
<1>2. PICK q \in {Stopped(tx[p]), Cleared(tx[p])} :
         \/ TxBecomes(p, [q EXCEPT !.pause = FALSE])
         \/ TxBecomes(p, [q EXCEPT !.pause = FALSE, !.start = startTime])
  BY Zenon DEF Stop, Clear
<1>3. /\ q \in PortType /\ q.run = tx[p].run /\ q.left = 0 /\ ~q.running /\ ~q.held
      /\ q.sent = 0
  BY <1>1, <1>2, StoppedPort, ClearedPort
<1>4. PICK r \in {[q EXCEPT !.pause = FALSE], [q EXCEPT !.pause = FALSE, !.start = startTime]} :
         TxBecomes(p, r)
  BY <1>2, Zenon
<1>5. /\ r \in PortType
      /\ r.run = q.run /\ r.left = q.left /\ r.running = q.running /\ r.held = q.held
      /\ r.sent = q.sent
  BY <1>3, <1>4, PausedPort
<1>6. BoardTypeOK' /\ tx'[p] = r /\ \A o \in Ports \ {p} : tx'[o] = tx[o]
  BY <1>1, <1>4, <1>5, TxWritten
<1>7. UNCHANGED <<tick, rx, ring, lost>>
  BY <1>4, Zenon DEF TxBecomes
<1>8. QED BY <1>3, <1>5, <1>6, <1>7

\* A one-shot command.
LEMMA CommandWritten ==
    ASSUME TypeOK, run' \in Nat, run <= run', RunsSoFar,
           (\E p \in Ports : TxCommand(p)) \/ RxCommand
    PROVE  /\ BoardTypeOK' /\ lost' = lost
           /\ \A p \in Ports : tx'[p].run <= run'
<1>1. BoardTypeOK /\ rx \in RxType /\ \A p \in Ports : tx[p] \in PortType
  BY DEF TypeOK, BoardTypeOK
<1>2. \A o \in Ports : tx[o].run <= run'
  <2>1. ASSUME NEW o \in Ports PROVE tx[o].run <= run'
    <3>1. tx[o].run \in Nat /\ run \in Nat /\ tx[o].run <= run
      BY <1>1 DEF TypeOK, ToolTypeOK, PortType, RunsSoFar
    <3>2. QED BY <3>1
  <2>2. QED BY <2>1
<1>3. ASSUME NEW p \in Ports, NEW r \in PortType, TxBecomes(p, r), r.run = tx[p].run
      PROVE  /\ BoardTypeOK' /\ lost' = lost
             /\ \A o \in Ports : tx'[o].run <= run'
  <2>1. lost' = lost
    BY <1>3, Zenon DEF TxBecomes
  <2>2. BoardTypeOK' /\ tx'[p] = r /\ \A o \in Ports \ {p} : tx'[o] = tx[o]
    BY <1>1, <1>3, TxWritten
  <2>3. \A o \in Ports : tx'[o].run = tx[o].run
    BY <1>3, <2>2
  <2>4. QED BY <1>2, <2>1, <2>2, <2>3
<1>4. ASSUME NEW p \in Ports, TxCommand(p)
      PROVE  /\ BoardTypeOK' /\ lost' = lost
             /\ \A o \in Ports : tx'[o].run <= run'
  <2>1. CASE Start(p, run')
    <3>1. BoardTypeOK' /\ lost' = lost /\ tx'[p].run = run'
          /\ \A o \in Ports \ {p} : tx'[o] = tx[o]
      BY <2>1, StartWritten
    <3>2. run' <= run'
      OBVIOUS
    <3>3. QED BY <1>2, <3>1, <3>2
  <2>2. CASE Stop(p) \/ Clear(p)
    <3>1. BoardTypeOK' /\ lost' = lost /\ tx'[p].run = tx[p].run
          /\ \A o \in Ports \ {p} : tx'[o] = tx[o]
      BY <2>2, ClearWritten
    <3>2. \A o \in Ports : tx'[o].run = tx[o].run
      BY <3>1
    <3>3. QED BY <1>2, <3>1, <3>2
  <2>3. CASE \E pause, sync \in BOOLEAN :
                \/ TxBecomes(p, [tx[p] EXCEPT !.pause = pause])
                \/ TxBecomes(p, [tx[p] EXCEPT !.sync = sync])
    <3>1. PICK pause \in BOOLEAN, sync \in BOOLEAN :
                \/ TxBecomes(p, [tx[p] EXCEPT !.pause = pause])
                \/ TxBecomes(p, [tx[p] EXCEPT !.sync = sync])
      BY <2>3
    <3>2. PICK r \in {[tx[p] EXCEPT !.pause = pause], [tx[p] EXCEPT !.sync = sync]} :
             TxBecomes(p, r)
      BY <3>1, Zenon
    <3>3. tx[p] \in PortType /\ 0 \in Nat
      BY <1>1
    <3>4. CASE r = [tx[p] EXCEPT !.pause = pause]
      <4>1. r \in PortType /\ r.run = tx[p].run
        BY <3>3, <3>4, PausedPort
      <4>2. QED BY <1>3, <3>2, <4>1
    <3>5. CASE r = [tx[p] EXCEPT !.sync = sync]
      <4>1. r \in PortType /\ r.run = tx[p].run
        BY <3>3, <3>5, ScheduledPort
      <4>2. QED BY <1>3, <3>2, <4>1
    <3>6. QED BY <3>2, <3>4, <3>5
  <2>4. CASE \/ TxBecomes(p, [tx[p] EXCEPT !.sync = TRUE, !.egress = TRUE])
             \/ TxBecomes(p, [tx[p] EXCEPT !.egress = FALSE])
    <3>1. PICK r \in {[tx[p] EXCEPT !.sync = TRUE, !.egress = TRUE],
                      [tx[p] EXCEPT !.egress = FALSE]} : TxBecomes(p, r)
      BY <2>4, Zenon
    <3>2. r \in PortType /\ r.run = tx[p].run
      BY <1>1, <3>1, ScheduledPort
    <3>3. QED BY <1>3, <3>1, <3>2
  <2>5. QED BY <1>4, <2>1, <2>2, <2>3, <2>4, Zenon DEF TxCommand
<1>5. CASE RxCommand
  <2>1. N \in Nat /\ rx.enable \in BOOLEAN /\ rx.capture \in BOOLEAN
    BY <1>1, ConstantTypes DEF N, RxType
  <2>2. PICK r \in RxType : RxBecomes(r)
    <3>1. CASE RxBecomes(RxCleared(rx))
      BY <1>1, <3>1, RxPort
    <3>2. CASE \E enable, capture \in BOOLEAN :
                  \/ RxBecomes(RxControl(rx, enable, rx.capture))
                  \/ RxBecomes(RxControl(rx, rx.enable, capture))
      <4>1. PICK enable \in BOOLEAN, capture \in BOOLEAN :
                  \/ RxBecomes(RxControl(rx, enable, rx.capture))
                  \/ RxBecomes(RxControl(rx, rx.enable, capture))
        BY <3>2
      <4>2. QED BY <1>1, <2>1, <4>1, RxPort
    <3>3. CASE \E size \in {0, N} : RxBecomes([rx EXCEPT !.size = size])
      <4>1. PICK size \in Nat : RxBecomes([rx EXCEPT !.size = size])
        BY <2>1, <3>3
      <4>2. QED BY <1>1, <4>1, RxPort
    <3>4. QED BY <1>5, <3>1, <3>2, <3>3, Zenon DEF RxCommand
  <2>3. BoardTypeOK' /\ UNCHANGED <<tx, lost>>
    BY <1>1, <2>2, RxWritten
  <2>4. QED BY <1>2, <2>3
<1>6. QED BY <1>4, <1>5

-----------------------------------------------------------------------------
(* The progress of a tool.                                                 *)

LEMMA InvokeKept ==
    ASSUME TypeOK, NEW name, NEW on \in SUBSET Ports, NEW first, first # "idle" => on # {},
           Invoke(name, on, first)
    PROVE  /\ ToolTypeOK'
           /\ run' = run + 1 /\ tool' = name /\ ports' = on /\ todo' = on /\ pc' = first
           /\ target' = 0 /\ outcome' = "" /\ armed' = NotArmed
           /\ \A p \in Ports : armed'[p] = 0
           /\ \A p \in quiet' : tx[p].left = 0
<1>1. /\ run' = run + 1 /\ tool' = name /\ ports' = on /\ todo' = on /\ pc' = first
      /\ target' = 0 /\ outcome' = "" /\ armed' = NotArmed
      /\ quiet' = {p \in Ports : tx[p].left = 0}
  BY Zenon DEF Invoke
<1>2. armed' \in [Ports -> Nat] /\ \A p \in Ports : armed'[p] = 0
  BY <1>1 DEF NotArmed
<1>3. run' \in Nat
  <2>1. run \in Nat
    BY Zenon DEF TypeOK, ToolTypeOK
  <2>2. run' = run + 1
    BY Zenon DEF Invoke
  <2>3. QED BY ONLY <2>1, <2>2
<1>4. todo' \subseteq ports' /\ ports' \subseteq Ports /\ quiet' \subseteq Ports
  BY <1>1
<1>5. QED BY <1>1, <1>2, <1>3, <1>4 DEF ToolTypeOK

\* An access that goes on to the next one for the same port.
LEMMA ContinueKept ==
    ASSUME TypeOK, pc # "idle", NEW next, next # "idle", Continue(next)
    PROVE  /\ ToolTypeOK' /\ pc' = next
           /\ UNCHANGED <<run, tool, ports, quiet, todo, target, armed, outcome>>
<1>1. pc' = next /\ UNCHANGED <<run, tool, ports, quiet, todo, target, armed, outcome>>
  BY Zenon DEF Continue, plan, progress
<1>2. QED BY <1>1 DEF TypeOK, ToolTypeOK

LEMMA EndKept ==
    ASSUME TypeOK, NEW how, End(how)
    PROVE  /\ ToolTypeOK' /\ pc' = "idle" /\ outcome' = how
           /\ UNCHANGED <<run, tool, ports, quiet, todo, target, armed>>
<1>1. /\ pc' = "idle" /\ outcome' = how
      /\ UNCHANGED <<run, tool, ports, quiet, todo, target, armed>>
  BY Zenon DEF End, plan, progress
<1>2. QED BY <1>1 DEF TypeOK, ToolTypeOK

\* The port that is done leaves the loop, and the last one makes the loop of the next
\* access start over all the ports.
LEMMA NextPortKept ==
    ASSUME TypeOK, pc # "idle", NEW this, NEW next, NextPort(this, next)
    PROVE  /\ UNCHANGED <<run, tool, ports, quiet>>
           /\ todo' \subseteq ports' /\ todo' # {}
           /\ \/ pc' = this /\ todo' = todo \ {port} /\ Others # {}
              \/ pc' = next /\ todo' = ports /\ todo = {port} /\ Others = {}
<1>1. /\ pc' = IF Others # {} THEN this ELSE next
      /\ todo' = IF Others # {} THEN Others ELSE ports
      /\ UNCHANGED <<run, tool, ports, quiet>>
  BY Zenon DEF NextPort, plan
<1>2. port \in todo /\ port \in ports /\ todo \subseteq ports
  BY PortToDo DEF TypeOK, ToolTypeOK
<1>3. QED BY <1>1, <1>2 DEF Others

Launches ==
    LaunchLoad \/ LaunchSync \/ LaunchInterval \/ LaunchSpacing \/ LaunchLoopback
    \/ LaunchStrict

\* Where the tools begin.
Begins(name, on, first) ==
    /\ on \subseteq Ports /\ on # {}
    /\ Invoke(name, on, first) /\ UNCHANGED board
    /\ first \in {"configure", "egress", "now", "rx off", "zero", "tx stop"}
    /\ name \in Checks => on = {Cabled} /\ first \in {"rx off", "zero"}
    /\ first \in {"rx off", "zero"} => name \in Checks
    /\ first = "zero" <=> name = "loopback"
    /\ first = "tx stop" => name = "strict"

LEMMA Launched ==
    ASSUME Launches
    PROVE  \E name, on, first : Begins(name, on, first)
<1>1. {Cabled} \subseteq Ports /\ {Cabled} # {}
  BY ConstantTypes
<1>2. CASE LaunchLoad
  <2>1. PICK p \in Ports : Launch("load", {p}, "configure")
    BY <1>2, Zenon DEF LaunchLoad
  <2>2. {p} \subseteq Ports /\ {p} # {}
    OBVIOUS
  <2>3. Invoke("load", {p}, "configure") /\ UNCHANGED board
    BY <2>1, Zenon DEF Launch
  <2>4. Begins("load", {p}, "configure")
    BY <2>2, <2>3 DEF Begins, Checks
  <2>5. QED BY <2>4
<1>3. CASE LaunchSync
  <2>1. PICK on \in (SUBSET Ports) \ {{}}, first \in {"egress", "now"} :
           Launch("sync-start", on, first)
    BY <1>3, Zenon DEF LaunchSync
  <2>2. on \subseteq Ports /\ on # {}
    BY <2>1, Zenon
  <2>3. Invoke("sync-start", on, first) /\ UNCHANGED board
    BY <2>1, Zenon DEF Launch
  <2>4. Begins("sync-start", on, first)
    BY <2>1, <2>2, <2>3 DEF Begins, Checks
  <2>5. QED BY <2>4
<1>4. CASE LaunchInterval
  <2>1. Invoke("interval", {Cabled}, "rx off") /\ UNCHANGED board
    BY <1>4, Zenon DEF LaunchInterval, Launch
  <2>2. Begins("interval", {Cabled}, "rx off")
    BY <1>1, <2>1 DEF Begins, Checks
  <2>3. QED BY <2>2
<1>5. CASE LaunchSpacing
  <2>1. Invoke("spacing", {Cabled}, "rx off") /\ UNCHANGED board
    BY <1>5, Zenon DEF LaunchSpacing, Launch
  <2>2. Begins("spacing", {Cabled}, "rx off")
    BY <1>1, <2>1 DEF Begins, Checks
  <2>3. QED BY <2>2
<1>6. CASE LaunchLoopback
  <2>1. Invoke("loopback", {Cabled}, "zero") /\ UNCHANGED board
    BY <1>6, Zenon DEF LaunchLoopback, Launch
  <2>2. Begins("loopback", {Cabled}, "zero")
    BY <1>1, <2>1 DEF Begins, Checks
  <2>3. QED BY <2>2
<1>7. CASE LaunchStrict
  <2>1. PICK on \in (SUBSET Ports) \ {{}} : Launch("strict", on, "tx stop")
    BY <1>7, Zenon DEF LaunchStrict
  <2>2. on \subseteq Ports /\ on # {}
    BY <2>1, Zenon
  <2>3. Invoke("strict", on, "tx stop") /\ UNCHANGED board
    BY <2>1, Zenon DEF Launch
  <2>4. Begins("strict", on, "tx stop")
    BY <2>2, <2>3 DEF Begins, Checks
  <2>5. QED BY <2>4
<1>8. QED BY <1>2, <1>3, <1>4, <1>5, <1>6, <1>7, Zenon DEF Launches

-----------------------------------------------------------------------------
(* The types are kept by every step.                                       *)

LEMMA ToolTypeKept ==
    ASSUME TypeOK, Next
    PROVE  ToolTypeOK'
<1>1. ASSUME NEW this, NEW next, NextPort(this, next), pc # "idle",
             UNCHANGED target, armed' \in [Ports -> Nat], pc' # "idle" => outcome' = ""
      PROVE  ToolTypeOK'
  <2>1. UNCHANGED <<run, ports, quiet>> /\ todo' \subseteq ports' /\ todo' # {}
    BY <1>1, NextPortKept
  <2>2. QED BY <1>1, <2>1 DEF TypeOK, ToolTypeOK
<1>2. ASSUME NEW this, NEW next, NextPort(this, next), pc # "idle",
             UNCHANGED <<target, armed, outcome>>
      PROVE  ToolTypeOK'
  <2>1. armed' \in [Ports -> Nat] /\ outcome' = "" /\ UNCHANGED target
    BY <1>2 DEF TypeOK, ToolTypeOK
  <2>2. QED BY <1>1, <1>2, <2>1
<1>3. Launches => ToolTypeOK'
  <2>1. ASSUME Launches PROVE ToolTypeOK'
    <3>1. PICK name, on, first : Begins(name, on, first)
      BY <2>1, Launched
    <3>2. on \in SUBSET Ports /\ on # {} /\ Invoke(name, on, first)
      BY <3>1 DEF Begins
    <3>3. QED BY <3>2, InvokeKept
  <2>2. QED BY <2>1
<1>7. Command => ToolTypeOK'
  BY InvokeKept DEF Command
<1>8. LoadConfigure => ToolTypeOK'
  BY ContinueKept DEF LoadConfigure
<1>9. LoadStart => ToolTypeOK'
  BY EndKept, Zenon DEF LoadStart
<1>10. SyncEgress => ToolTypeOK'
  BY <1>2 DEF SyncEgress
<1>11. SyncNow => ToolTypeOK'
  <2>1. ASSUME SyncNow PROVE ToolTypeOK'
    <3>1. /\ pc = "now" /\ target' = tick + Delay
          /\ UNCHANGED <<run, ports, quiet, todo, armed, outcome>>
      BY <2>1, Zenon DEF SyncNow, plan
    <3>2. target' \in Nat
      <4>1. tick \in Nat /\ Delay \in Nat
        BY ConstantTypes DEF TypeOK, BoardTypeOK
      <4>2. QED BY <3>1, <4>1
    <3>3. QED BY <3>1, <3>2 DEF TypeOK, ToolTypeOK
  <2>2. QED BY <2>1
<1>12. SyncTarget => ToolTypeOK'
  BY <1>2 DEF SyncTarget
<1>13. SyncArm => ToolTypeOK'
  <2>1. ASSUME SyncArm PROVE ToolTypeOK'
    <3>1. /\ pc = "arm" /\ armed' = [armed EXCEPT ![port] = tick]
          /\ NextPort("arm", "idle") /\ UNCHANGED target
          /\ outcome' = IF Others = {} THEN "armed" ELSE ""
      BY <2>1, Zenon DEF SyncArm
    <3>2. armed' \in [Ports -> Nat]
      <4>1. tick \in Nat /\ armed \in [Ports -> Nat]
        BY DEF TypeOK, BoardTypeOK, ToolTypeOK
      <4>2. QED BY <3>1, <4>1
    <3>3. pc' # "idle" => outcome' = ""
      <4>1. (pc' = "arm" /\ Others # {}) \/ pc' = "idle"
        BY <3>1, NextPortKept
      <4>2. QED BY <3>1, <4>1
    <3>4. QED BY <1>1, <3>1, <3>2, <3>3
  <2>2. QED BY <2>1
<1>14. ZeroRing \/ RxOff \/ RxClear \/ RxOn \/ TxStop => ToolTypeOK'
  BY ContinueKept DEF ZeroRing, RxOff, RxClear, RxOn, TxStop
<1>15. TxConfigure \/ TxStart => ToolTypeOK'
  BY <1>2 DEF TxConfigure, TxStart
<1>16. WaitTimeout => ToolTypeOK'
  BY ContinueKept, EndKept DEF WaitTimeout
<1>17. StopAndClear => ToolTypeOK'
  <2>1. ASSUME StopAndClear PROVE ToolTypeOK'
    <3>1. /\ pc = "abort" /\ NextPort("abort", "idle") /\ UNCHANGED <<target, armed>>
          /\ outcome' = IF Others = {} THEN "FAIL" ELSE ""
      BY <2>1, Zenon DEF StopAndClear
    <3>2. pc' # "idle" => outcome' = ""
      <4>1. (pc' = "abort" /\ Others # {}) \/ pc' = "idle"
        BY <3>1, NextPortKept
      <4>2. QED BY <3>1, <4>1
    <3>3. armed' \in [Ports -> Nat] /\ UNCHANGED target
      BY <3>1 DEF TypeOK, ToolTypeOK
    <3>4. QED BY <1>1, <3>1, <3>2, <3>3
  <2>2. QED BY <2>1
<1>18. Verdict \/ Abandoned => ToolTypeOK'
  BY EndKept, Zenon DEF Verdict, Abandoned
<1>19. Clock => ToolTypeOK'
  BY DEF Clock, plan, progress, TypeOK, ToolTypeOK
<1>20. AtRest => ToolTypeOK'
  BY DEF AtRest, vars, plan, progress, TypeOK, ToolTypeOK
<1>21. QED BY <1>3, <1>7, <1>8, <1>9, <1>10, <1>11, <1>12, <1>13, <1>14,
              <1>15, <1>16, <1>17, <1>18, <1>19, <1>20, Zenon DEF Next, Launches

LEMMA BoardKept ==
    ASSUME TypeOK, RunsSoFar, Next
    PROVE  BoardTypeOK' /\ RunsSoFar'
<1>1. BoardTypeOK /\ run \in Nat /\ rx \in RxType /\ N \in Nat /\ 0 \in Nat
  BY ConstantTypes DEF TypeOK, ToolTypeOK, BoardTypeOK, N
<1>2. ASSUME BoardTypeOK', run' = run, lost' = lost,
             \A p \in Ports : tx'[p].run \in {tx[p].run, run}
      PROVE  BoardTypeOK' /\ RunsSoFar'
  <2>1. run <= run
    BY <1>1
  <2>2. QED BY <1>2, <2>1 DEF RunsSoFar
<1>3. ASSUME UNCHANGED board, run' = run \/ run' = run + 1
      PROVE  BoardTypeOK' /\ RunsSoFar'
  <2>1. UNCHANGED <<tick, tx, rx, ring, lost>>
    BY <1>3, Zenon DEF board
  <2>2. \A p \in Ports : tx[p].run \in Nat
    BY <1>1 DEF BoardTypeOK, PortType
  <2>3. \A x \in lost : x.run \in Nat
    BY <1>1 DEF BoardTypeOK, PacketType
  <2>4. \A n \in Nat : n <= run => n <= run'
    BY <1>1, <1>3
  <2>5. BoardTypeOK'
    BY <1>1, <2>1 DEF BoardTypeOK
  <2>6. RunsSoFar'
    BY <2>1, <2>2, <2>3, <2>4 DEF RunsSoFar
  <2>7. QED BY <2>5, <2>6
<1>4. ASSUME NEW p \in Ports, NEW startTime \in Nat, run' = run,
             \/ Stop(p) \/ Clear(p)
             \/ TxBecomes(p, [Cleared(tx[p]) EXCEPT !.pause = FALSE, !.start = startTime])
      PROVE  BoardTypeOK' /\ RunsSoFar'
  <2>1. /\ BoardTypeOK' /\ lost' = lost /\ tx'[p].run = tx[p].run
        /\ \A o \in Ports \ {p} : tx'[o] = tx[o]
    BY <1>4, ClearWritten
  <2>2. \A o \in Ports : tx'[o].run \in {tx[o].run, run}
    BY <2>1
  <2>3. QED BY <1>2, <1>4, <2>1, <2>2
<1>5. ASSUME NEW p \in Ports, run' = run, Start(p, run)
      PROVE  BoardTypeOK' /\ RunsSoFar'
  <2>1. /\ BoardTypeOK' /\ lost' = lost /\ tx'[p].run = run
        /\ \A o \in Ports \ {p} : tx'[o] = tx[o]
    BY <1>1, <1>5, StartWritten
  <2>2. \A o \in Ports : tx'[o].run \in {tx[o].run, run}
    BY <2>1
  <2>3. QED BY <1>2, <1>5, <2>1, <2>2
<1>6. ASSUME NEW p \in Ports, NEW q \in PortType, q.run = tx[p].run, TxBecomes(p, q),
             run' = run
      PROVE  BoardTypeOK' /\ RunsSoFar'
  <2>1. lost' = lost
    BY <1>6, Zenon DEF TxBecomes
  <2>2. BoardTypeOK' /\ tx'[p] = q /\ \A o \in Ports \ {p} : tx'[o] = tx[o]
    BY <1>1, <1>6, TxWritten
  <2>3. \A o \in Ports : tx'[o].run \in {tx[o].run, run}
    BY <1>6, <2>2
  <2>4. QED BY <1>2, <1>6, <2>1, <2>2, <2>3
<1>7. ASSUME NEW r \in RxType, RxBecomes(r), run' = run
      PROVE  BoardTypeOK' /\ RunsSoFar'
  <2>1. BoardTypeOK' /\ UNCHANGED <<tx, lost>>
    BY <1>1, <1>7, RxWritten
  <2>2. QED BY <1>2, <1>7, <2>1
<1>8. \A next : Continue(next) => run' = run
  BY Zenon DEF Continue, plan
<1>9. \A how : End(how) => run' = run
  BY Zenon DEF End, plan
<1>10. \A this, next : NextPort(this, next) => run' = run
  BY Zenon DEF NextPort, plan
<1>11. pc # "idle" => port \in Ports /\ tx[port] \in PortType
  BY PortToDo
<1>12. Launches => BoardTypeOK' /\ RunsSoFar'
  <2>1. ASSUME Launches PROVE BoardTypeOK' /\ RunsSoFar'
    <3>1. PICK name, on, first : Begins(name, on, first)
      BY <2>1, Launched
    <3>2. UNCHANGED board /\ run' = run + 1
      BY <3>1, Zenon DEF Begins, Invoke
    <3>3. QED BY <1>3, <3>2
  <2>2. QED BY <2>1
<1>13. Command => BoardTypeOK' /\ RunsSoFar'
  <2>1. ASSUME Command PROVE BoardTypeOK' /\ RunsSoFar'
    <3>1. run' = run + 1
      BY <2>1, Zenon DEF Command, Invoke
    <3>2. run' \in Nat /\ run <= run'
      BY <1>1, <3>1
    <3>3. CASE UNCHANGED board
      BY <1>3, <3>1, <3>3
    <3>4. CASE (\E p \in Ports : TxCommand(p)) \/ RxCommand
      <4>1. BoardTypeOK' /\ lost' = lost /\ \A p \in Ports : tx'[p].run <= run'
        BY <3>2, <3>4, CommandWritten
      <4>2. \A x \in lost : x.run \in Nat /\ x.run <= run
        BY <1>1 DEF BoardTypeOK, PacketType, RunsSoFar
      <4>3. \A x \in lost' : x.run <= run'
        BY <1>1, <3>2, <4>1, <4>2
      <4>4. QED BY <4>1, <4>3 DEF RunsSoFar
    <3>5. QED BY <2>1, <3>3, <3>4, Zenon DEF Command
  <2>2. QED BY <2>1
<1>14. LoadConfigure => BoardTypeOK' /\ RunsSoFar'
  <2>1. ASSUME LoadConfigure PROVE BoardTypeOK' /\ RunsSoFar'
    <3>1. PICK startTime \in StartTimes, p \in ports :
             TxBecomes(p, [Cleared(tx[p]) EXCEPT !.pause = FALSE, !.start = startTime])
      BY <2>1, Zenon DEF LoadConfigure
    <3>2. startTime \in Nat /\ p \in Ports
      BY ConstantTypes DEF TypeOK, ToolTypeOK
    <3>3. run' = run
      BY <1>8, <2>1, Zenon DEF LoadConfigure
    <3>4. QED BY <1>4, <3>1, <3>2, <3>3
  <2>2. QED BY <2>1
<1>15. LoadStart => BoardTypeOK' /\ RunsSoFar'
  <2>1. ASSUME LoadStart PROVE BoardTypeOK' /\ RunsSoFar'
    <3>1. run' = run
      BY <1>9, <2>1, Zenon DEF LoadStart
    <3>2. (\E p \in ports : Start(p, run)) \/ UNCHANGED board
      BY <2>1, Zenon DEF LoadStart
    <3>3. ports \subseteq Ports
      BY DEF TypeOK, ToolTypeOK
    <3>4. QED BY <1>3, <1>5, <3>1, <3>2, <3>3
  <2>2. QED BY <2>1
<1>16. SyncEgress => BoardTypeOK' /\ RunsSoFar'
  <2>1. ASSUME SyncEgress PROVE BoardTypeOK' /\ RunsSoFar'
    <3>1. PICK r : r = [tx[port] EXCEPT !.sync = TRUE, !.egress = TRUE]
      OBVIOUS
    <3>2. pc = "egress" /\ TxBecomes(port, r) /\ run' = run
      BY <1>10, <2>1, <3>1, Zenon DEF SyncEgress
    <3>3. r \in PortType /\ r.run = tx[port].run
      BY <1>1, <1>11, <3>1, <3>2, ScheduledPort
    <3>4. QED BY <1>6, <1>11, <3>2, <3>3
  <2>2. QED BY <2>1
<1>17. SyncNow => BoardTypeOK' /\ RunsSoFar'
  <2>1. SyncNow => UNCHANGED board /\ run' = run
    BY Zenon DEF SyncNow, plan
  <2>2. QED BY <1>3, <2>1
<1>18. SyncTarget => BoardTypeOK' /\ RunsSoFar'
  <2>1. ASSUME SyncTarget PROVE BoardTypeOK' /\ RunsSoFar'
    <3>1. PICK r : r = [tx[port] EXCEPT !.start = target, !.sync = TRUE]
      OBVIOUS
    <3>2. pc = "target" /\ TxBecomes(port, r) /\ run' = run
      BY <1>10, <2>1, <3>1, Zenon DEF SyncTarget
    <3>3. target \in Nat
      BY Zenon DEF TypeOK, ToolTypeOK
    <3>4. r \in PortType /\ r.run = tx[port].run
      BY <1>1, <1>11, <3>1, <3>2, <3>3, ScheduledPort
    <3>5. QED BY <1>6, <1>11, <3>2, <3>4
  <2>2. QED BY <2>1
<1>19. SyncArm \/ TxStart => BoardTypeOK' /\ RunsSoFar'
  <2>1. SyncArm \/ TxStart => Start(port, run) /\ run' = run /\ pc # "idle"
    BY <1>10, Zenon DEF SyncArm, TxStart
  <2>2. QED BY <1>5, <1>11, <2>1
<1>20. ZeroRing => BoardTypeOK' /\ RunsSoFar'
  <2>1. ASSUME ZeroRing PROVE BoardTypeOK' /\ RunsSoFar'
    <3>1. ring' = [s \in 1..packets |-> 0] /\ UNCHANGED <<tick, tx, rx, lost>> /\ run' = run
      BY <1>8, <2>1, Zenon DEF ZeroRing, N
    <3>2. BoardTypeOK'
      BY <1>1, <3>1 DEF BoardTypeOK
    <3>3. QED BY <1>2, <3>1, <3>2
  <2>2. QED BY <2>1
<1>21. RxOff \/ RxClear \/ RxOn => BoardTypeOK' /\ RunsSoFar'
  <2>1. ASSUME RxOff \/ RxClear \/ RxOn PROVE BoardTypeOK' /\ RunsSoFar'
    <3>1. run' = run
      BY <1>8, <2>1, Zenon DEF RxOff, RxClear, RxOn
    <3>2. PICK size \in Nat, capture \in BOOLEAN :
             size = (IF tool = "loopback" THEN N ELSE 0) /\ capture = (tool = "loopback")
      BY <1>1
    <3>3. \/ RxBecomes(RxControl(rx, FALSE, FALSE))
          \/ RxBecomes([RxCleared(rx) EXCEPT !.size = size])
          \/ RxBecomes(RxControl(rx, TRUE, capture))
      BY <2>1, <3>2, Zenon DEF RxOff, RxClear, RxOn
    <3>4. TRUE \in BOOLEAN /\ FALSE \in BOOLEAN
      OBVIOUS
    <3>5. QED BY <1>1, <1>7, <3>1, <3>3, <3>4, RxPort
  <2>2. QED BY <2>1
<1>22. TxStop \/ StopAndClear => BoardTypeOK' /\ RunsSoFar'
  <2>1. TxStop \/ StopAndClear => (Stop(port) \/ Clear(port)) /\ run' = run /\ pc # "idle"
    BY <1>8, <1>10, Zenon DEF TxStop, StopAndClear
  <2>2. QED BY <1>1, <1>4, <1>11, <2>1
<1>23. TxConfigure => BoardTypeOK' /\ RunsSoFar'
  <2>1. TxConfigure => /\ TxBecomes(port, [Cleared(tx[port]) EXCEPT !.pause = FALSE, !.start = 0])
                       /\ run' = run /\ pc # "idle"
    BY <1>10, Zenon DEF TxConfigure
  <2>2. QED BY <1>1, <1>4, <1>11, <2>1
<1>24. WaitTimeout \/ Verdict \/ Abandoned => BoardTypeOK' /\ RunsSoFar'
  <2>1. WaitTimeout \/ Verdict \/ Abandoned => UNCHANGED board /\ run' = run
    BY <1>8, <1>9, Zenon DEF WaitTimeout, Verdict, Abandoned
  <2>2. QED BY <1>3, <2>1
<1>25. Clock => BoardTypeOK' /\ RunsSoFar'
  <2>1. ASSUME Clock PROVE BoardTypeOK' /\ RunsSoFar'
    <3>1. Tick /\ run' = run
      BY <2>1, Zenon DEF Clock, plan
    <3>2. BoardTypeOK'
      BY <1>1, <3>1, TickType
    <3>3. \A p \in Ports : tx'[p].run = tx[p].run
      <4>1. \A p \in Ports : tx[p] \in PortType
        BY <1>1 DEF BoardTypeOK
      <4>2. QED BY <1>1, <3>1, <4>1, TickPort
    <3>4. lost' \subseteq lost \cup {Leaving} /\ Leaving.run = tx[Cabled].run
      BY <1>1, <3>1, TickRx, LeavingType
    <3>5. tx[Cabled].run <= run
      BY ConstantTypes DEF RunsSoFar
    <3>6. \A x \in lost' : x.run <= run'
      BY <3>1, <3>4, <3>5 DEF RunsSoFar
    <3>7. \A p \in Ports : tx'[p].run <= run'
      BY <3>1, <3>3 DEF RunsSoFar
    <3>8. QED BY <3>2, <3>6, <3>7 DEF RunsSoFar
  <2>2. QED BY <2>1
<1>26. AtRest => BoardTypeOK' /\ RunsSoFar'
  <2>1. AtRest => UNCHANGED board /\ run' = run
    BY Zenon DEF AtRest, vars, plan
  <2>2. QED BY <1>3, <2>1
<1>27. QED BY <1>12, <1>13, <1>14, <1>15, <1>16, <1>17, <1>18, <1>19, <1>20, <1>21, <1>22,
              <1>23, <1>24, <1>25, <1>26, Zenon DEF Next, Launches

-----------------------------------------------------------------------------
(* The synchronized start.                                                 *)

\* A port that was armed in time keeps waiting for its target, and starts at it.
LEMMA AlignedKept ==
    ASSUME TypeOK, NEW p \in Ports, Aligned(p), Tick, UNCHANGED <<armed, target>>
    PROVE  Aligned(p)'
<1>1. PICK q \in PortType : q = tx[p]
  BY DEF TypeOK, BoardTypeOK
<1>2. BoardTypeOK /\ tick \in Nat /\ tick' = tick + 1 /\ target \in Nat /\ armed[p] \in Nat
      /\ Warmup \in Nat /\ packets \in Nat /\ packets # 0
  <2>1. armed[p] \in Nat /\ target \in Nat
    BY DEF TypeOK, ToolTypeOK
  <2>2. tick \in Nat /\ BoardTypeOK
    BY DEF TypeOK, BoardTypeOK
  <2>3. tick' = tick + 1
    BY Zenon DEF Tick
  <2>4. packets \in Nat /\ packets # 0 /\ Warmup \in Nat
    BY ConstantTypes
  <2>5. QED BY <2>1, <2>2, <2>3, <2>4
<1>3. PICK opens \in Nat : opens = armed[p] + Warmup
  BY <1>2
<1>4. SUFFICES ASSUME opens < target
               PROVE  /\ tx'[p].sync /\ ~tx'[p].pause
                      /\ tick' <= target =>
                            /\ tx'[p].first = 0 /\ tx'[p].left = packets
                            /\ tx'[p].target = target /\ tx'[p].opens = opens
                            /\ IF tx'[p].egress
                               THEN tx'[p].held \/ (tx'[p].running /\ tick' <= tx'[p].opens)
                               ELSE tx'[p].running /\ ~tx'[p].held
                      /\ tick' > target => tx'[p].first = target
  BY <1>2, <1>3 DEF Aligned
<1>5. /\ q.sync /\ ~q.pause
      /\ tick <= target =>
            /\ q.first = 0 /\ q.left = packets /\ q.target = target /\ q.opens = opens
            /\ IF q.egress THEN q.held \/ (q.running /\ tick <= q.opens)
               ELSE q.running /\ ~q.held
      /\ tick > target => q.first = target
  BY <1>1, <1>3, <1>4 DEF Aligned
<1>6. /\ tx'[p].sync = q.sync /\ tx'[p].egress = q.egress /\ tx'[p].pause = q.pause
      /\ tx'[p].opens = q.opens /\ tx'[p].held = Handed(p).held
      /\ tx'[p].left = IF Sends(p) THEN q.left - 1 ELSE q.left
      /\ tx'[p].target = IF Sends(p) THEN NextTarget(q) ELSE q.target
      /\ tx'[p].first = IF Sends(p) /\ q.first = 0 THEN tick ELSE q.first
      /\ tx'[p].running = (Handed(p).running /\ ~(Sends(p) /\ ~q.held /\ q.left = 1))
  BY <1>1, <1>2, TickPort
<1>7. /\ EgressActive(p) = q.egress
      /\ Enabled(p) = (q.running /\ tick >= q.opens)
      /\ Now(p) = tick
  BY <1>1, <1>5 DEF EgressActive, Enabled, Now, PortType
<1>8. /\ Sends(p) <=> /\ q.left # 0
                      /\ IF q.held THEN ~EgressActive(p) \/ q.target <= tick
                         ELSE Enabled(p) /\ ~EgressActive(p) /\ q.target <= Now(p)
  BY <1>1 DEF Sends
<1>9. IF Enabled(p) /\ q.egress THEN Handed(p).held /\ ~Handed(p).running
      ELSE Handed(p).held = q.held /\ Handed(p).running = q.running
  BY <1>1, <1>2, <1>7, HandedPort
<1>10. tx'[p].sync /\ ~tx'[p].pause
  BY <1>5, <1>6
<1>11. CASE tick < target
  <2>1. ~(target <= tick) /\ tick <= target
    BY <1>2, <1>11
  <2>2. ~Sends(p)
    BY <1>5, <1>7, <1>8, <2>1
  <2>3. /\ tx'[p].first = 0 /\ tx'[p].left = packets
        /\ tx'[p].target = target /\ tx'[p].opens = opens
    BY <1>5, <1>6, <2>1, <2>2
  <2>4. ASSUME q.egress PROVE tx'[p].held \/ (tx'[p].running /\ tick' <= opens)
    <3>1. CASE q.held
      BY <1>6, <1>9, <3>1
    <3>2. CASE ~q.held /\ tick = opens
      <4>1. Enabled(p)
        BY <1>2, <1>5, <1>7, <2>1, <2>4, <3>2
      <4>2. QED BY <1>6, <1>9, <2>4, <4>1
    <3>3. CASE ~q.held /\ tick # opens
      <4>1. q.running /\ tick < opens /\ q.opens = opens
        BY <1>2, <1>5, <2>1, <2>4, <3>3
      <4>2. tick' <= opens /\ ~(tick >= q.opens)
        <5>1. tick \in Nat /\ opens \in Nat /\ tick' = tick + 1 /\ tick < opens
          BY <1>2, <4>1
        <5>2. QED BY <4>1, <5>1
      <4>3. ~Enabled(p)
        BY <1>7, <4>2, Zenon
      <4>4. QED BY <1>6, <1>9, <2>2, <4>1, <4>2, <4>3
    <3>4. QED BY <3>1, <3>2, <3>3
  <2>5. ASSUME ~q.egress PROVE tx'[p].running /\ ~tx'[p].held
    BY <1>5, <1>6, <1>9, <2>1, <2>2, <2>5
  <2>6. ~(tick' > target)
    BY <1>2, <1>11
  <2>7. IF tx'[p].egress
        THEN tx'[p].held \/ (tx'[p].running /\ tick' <= tx'[p].opens)
        ELSE tx'[p].running /\ ~tx'[p].held
    BY <1>6, <2>3, <2>4, <2>5
  <2>8. QED BY <1>10, <2>3, <2>6, <2>7
<1>12. CASE tick = target
  <2>1. tick <= target /\ target <= tick /\ tick > opens /\ ~(tick <= opens)
    BY <1>2, <1>3, <1>4, <1>12
  <2>2. Sends(p)
    <3>1. q.left # 0 /\ q.target <= tick /\ q.opens = opens
      BY <1>2, <1>5, <2>1
    <3>2. CASE q.held
      BY <1>8, <3>1, <3>2
    <3>3. CASE ~q.held
      <4>1. ~q.egress /\ q.running
        <5>1. ~(tick <= q.opens)
          BY <2>1, <3>1
        <5>2. QED BY <1>5, <2>1, <3>3, <5>1, Zenon
      <4>2. Enabled(p)
        <5>1. tick >= q.opens
          <6>1. tick \in Nat /\ opens \in Nat /\ tick > opens /\ q.opens = opens
            BY <1>2, <2>1, <3>1
          <6>2. QED BY <6>1
        <5>2. QED BY <1>7, <4>1, <5>1, Zenon
      <4>3. QED BY <1>7, <1>8, <3>1, <3>3, <4>1, <4>2
    <3>4. QED BY <3>2, <3>3
  <2>3. tx'[p].first = target
    BY <1>5, <1>6, <1>12, <2>1, <2>2
  <2>4. ~(tick' <= target)
    BY <1>2, <1>12
  <2>5. QED BY <1>10, <2>3, <2>4
<1>13. CASE tick > target
  <2>1. q.first = target /\ q.first # 0
    BY <1>2, <1>3, <1>4, <1>5, <1>13
  <2>2. tx'[p].first = target
    BY <1>6, <2>1
  <2>3. ~(tick' <= target)
    BY <1>2, <1>13
  <2>4. QED BY <1>10, <2>2, <2>3
<1>14. QED BY <1>2, <1>11, <1>12, <1>13

LEMMA SyncKept ==
    ASSUME TypeOK, SyncInv, Next
    PROVE  SyncInv'
<1>1. \A p \in Ports : NotArmed[p] = 0
  BY DEF NotArmed
<1>2. ASSUME armed' = NotArmed, pc' \notin {"target", "arm"}, pc' = "now" => todo' = ports',
             outcome' # "armed"
      PROVE  SyncInv'
  BY <1>1, <1>2 DEF SyncInv
<1>3. pc \notin {"arm", "idle"} => armed = NotArmed
  BY Zenon DEF SyncInv
<1>4. pc # "idle" => outcome = ""
  BY Zenon DEF TypeOK, ToolTypeOK
<1>5. ASSUME pc \notin {"arm", "idle"}, UNCHANGED armed, pc' \notin {"target", "arm"},
             pc' = "now" => todo' = ports', outcome' \in {outcome, "loaded", "configured", "PASS",
                                                          "FAIL", "abandoned", ""}
      PROVE  SyncInv'
  BY <1>2, <1>3, <1>4, <1>5
<1>6. ASSUME NEW next, next \notin {"now", "target", "arm", "idle"}, Continue(next),
             pc \notin {"arm", "idle"}
      PROVE  SyncInv'
  <2>1. pc' = next /\ UNCHANGED <<armed, outcome>>
    BY <1>6, ContinueKept
  <2>2. QED BY <1>5, <1>6, <2>1
<1>7. ASSUME NEW how, how \in {"loaded", "configured", "PASS", "FAIL", "abandoned"}, End(how),
             pc \notin {"arm", "idle"}
      PROVE  SyncInv'
  <2>1. pc' = "idle" /\ outcome' = how /\ UNCHANGED armed
    BY <1>7, EndKept
  <2>2. QED BY <1>5, <1>7, <2>1
<1>8. ASSUME NEW this, NEW next, this \notin {"now", "target", "arm"},
             next \notin {"target", "arm"}, NextPort(this, next), UNCHANGED armed, pc \notin {"arm", "idle"},
             outcome' \in {outcome, "FAIL", ""}
      PROVE  SyncInv'
  <2>1. UNCHANGED ports /\ (pc' = this \/ (pc' = next /\ todo' = ports))
    <3>1. NextPort(this, next) /\ pc # "idle"
      BY <1>8
    <3>2. QED BY <3>1, NextPortKept
  <2>2. QED BY <1>5, <1>8, <2>1
<1>9. ASSUME Launches PROVE SyncInv'
  <2>1. PICK name, on, first : Begins(name, on, first)
    BY <1>9, Launched
  <2>2. on \in SUBSET Ports /\ on # {} /\ Invoke(name, on, first) /\ first \notin {"target", "arm"}
    BY <2>1 DEF Begins
  <2>3. /\ pc' \notin {"target", "arm"} /\ outcome' = "" /\ armed' = NotArmed
        /\ todo' = on /\ ports' = on
    BY <2>2, InvokeKept
  <2>4. QED BY <1>2, <2>3
<1>10. ASSUME Command PROVE SyncInv'
  <2>1. pc' = "idle" /\ outcome' = "" /\ armed' = NotArmed
    BY <1>10, Zenon DEF Command, Invoke
  <2>2. QED BY <1>2, <2>1
<1>11. ASSUME LoadConfigure PROVE SyncInv'
  BY <1>6, <1>11 DEF LoadConfigure
<1>12. ASSUME LoadStart PROVE SyncInv'
  BY <1>7, <1>12 DEF LoadStart
<1>13. ASSUME SyncEgress PROVE SyncInv'
  BY <1>8, <1>13 DEF SyncEgress
<1>14. ASSUME SyncNow PROVE SyncInv'
  <2>1. /\ pc = "now" /\ target' = tick + Delay /\ pc' = "target"
        /\ UNCHANGED <<ports, todo, armed, outcome>>
    BY <1>14, Zenon DEF SyncNow, plan
  <2>2. target' > 0
    <3>1. tick \in Nat /\ Delay \in Nat /\ Delay # 0
      BY ConstantTypes DEF TypeOK, BoardTypeOK
    <3>2. QED BY <2>1, <3>1
  <2>3. todo = ports /\ armed = NotArmed
    BY <2>1 DEF SyncInv
  <2>4. QED BY <1>1, <1>4, <2>1, <2>2, <2>3 DEF SyncInv
<1>15. ASSUME SyncTarget PROVE SyncInv'
  <2>1. /\ pc = "target" /\ TxBecomes(port, [tx[port] EXCEPT !.start = target, !.sync = TRUE])
        /\ NextPort("target", "arm") /\ UNCHANGED <<target, armed, outcome>>
    BY <1>15, Zenon DEF SyncTarget
  <2>2. /\ target > 0 /\ armed = NotArmed /\ outcome = ""
        /\ \A p \in ports \ todo : Given(p)
    BY <1>3, <1>4, <2>1, Zenon DEF SyncInv
  <2>3. BoardTypeOK /\ port \in Ports /\ tx[port] \in PortType /\ target \in Nat
        /\ ports \subseteq Ports
    BY <2>1, PortToDo DEF TypeOK, ToolTypeOK
  <2>4. PICK r : r = [tx[port] EXCEPT !.start = target, !.sync = TRUE]
    OBVIOUS
  <2>5. r \in PortType /\ r.start = target /\ r.sync
    BY <2>3, <2>4, TargetedPort
  <2>6. tx'[port] = r /\ \A o \in Ports \ {port} : tx'[o] = tx[o]
    <3>1. TxBecomes(port, r)
      BY <2>1, <2>4, Zenon
    <3>2. QED BY <2>3, <2>5, <3>1, TxWritten
  <2>7. \A p \in Ports : p = port => Given(p)'
    BY <2>1, <2>5, <2>6 DEF Given
  <2>8. \A p \in ports \ todo : Given(p)'
    <3>1. ASSUME NEW p \in ports \ todo, p # port PROVE Given(p)'
      <4>1. tx'[p] = tx[p] /\ target' = target
        BY <2>1, <2>3, <2>6, <3>1
      <4>2. QED BY <2>2, <4>1 DEF Given
    <3>2. QED BY <2>3, <2>7, <3>1
  <2>9. /\ UNCHANGED ports
        /\ \/ pc' = "target" /\ todo' = todo \ {port}
           \/ pc' = "arm" /\ todo' = ports /\ todo = {port}
    BY <2>1, NextPortKept
  <2>10. target' > 0 /\ armed' = NotArmed /\ outcome' = ""
    BY <2>1, <2>2
  <2>11. CASE pc' = "target"
    <3>1. \A p \in ports' \ todo' : Given(p)'
      <4>1. ports' \ todo' \subseteq (ports \ todo) \cup {port}
        BY <2>9, <2>11
      <4>2. QED BY <2>3, <2>7, <2>8, <4>1, Zenon
    <3>2. QED BY <1>1, <2>10, <2>11, <3>1 DEF SyncInv
  <2>12. CASE pc' = "arm"
    <3>1. \A p \in ports' : Given(p)'
      <4>1. ports' \subseteq (ports \ todo) \cup {port}
        BY <2>9, <2>12
      <4>2. QED BY <2>3, <2>7, <2>8, <4>1, Zenon
    <3>2. ports' \ todo' = {}
      BY <2>9, <2>12
    <3>3. QED BY <1>1, <2>10, <2>12, <3>1, <3>2 DEF SyncInv
  <2>13. QED BY <2>9, <2>11, <2>12
<1>16. ASSUME SyncArm PROVE SyncInv'
  <2>1. /\ pc = "arm" /\ Start(port, run) /\ armed' = [armed EXCEPT ![port] = tick]
        /\ NextPort("arm", "idle") /\ UNCHANGED target
        /\ outcome' = IF Others = {} THEN "armed" ELSE ""
    BY <1>16, Zenon DEF SyncArm
  <2>2. /\ target > 0 /\ \A p \in ports : Given(p)
        /\ \A p \in ports \ todo : armed[p] # 0
        /\ \A p \in Ports : armed[p] # 0 => Aligned(p)
    BY <2>1, Zenon DEF SyncInv
  <2>3. /\ port \in ports /\ port \in todo /\ port \in Ports /\ ports \subseteq Ports
        /\ run \in Nat /\ tick \in Nat \ {0} /\ armed \in [Ports -> Nat] /\ target \in Nat
        /\ Warmup \in Nat
    BY <2>1, ConstantTypes, PortToDo DEF TypeOK, ToolTypeOK, BoardTypeOK
  <2>4. /\ tick' = tick
        /\ \A o \in Ports \ {port} : tx'[o] = tx[o]
        /\ tx'[port].running /\ ~tx'[port].held /\ ~tx'[port].pause
        /\ tx'[port].left = packets /\ tx'[port].first = 0
        /\ tx'[port].opens = tick + Warmup
        /\ tx'[port].start = tx[port].start
        /\ tx'[port].sync = tx[port].sync /\ tx'[port].egress = tx[port].egress
        /\ tx[port].start # 0 => tx'[port].target = tx[port].start
    BY <2>1, <2>3, StartWritten
  <2>5. armed'[port] = tick /\ \A o \in Ports \ {port} : armed'[o] = armed[o]
    BY <2>1, <2>3
  <2>6. tx[port].start = target /\ tx[port].sync /\ tx[port].start # 0
    BY <2>2, <2>3 DEF Given
  <2>7. \A p \in ports : Given(p)'
    BY <2>1, <2>2, <2>3, <2>4 DEF Given
  <2>8. ASSUME NEW p \in Ports, p = port PROVE Aligned(p)'
    <3>1. tick <= tick + Warmup /\ (tick + Warmup < target => ~(tick > target))
      BY <2>3
    <3>2. QED BY <2>1, <2>4, <2>5, <2>6, <2>8, <3>1 DEF Aligned
  <2>9. ASSUME NEW p \in Ports, armed'[p] # 0 PROVE Aligned(p)'
    <3>1. CASE p = port
      BY <2>8, <3>1
    <3>2. CASE p # port
      <4>1. armed'[p] = armed[p] /\ tx'[p] = tx[p] /\ tick' = tick /\ target' = target
        BY <2>1, <2>4, <2>5, <3>2
      <4>2. QED BY <2>2, <2>9, <4>1 DEF Aligned
    <3>3. QED BY <3>1, <3>2
  <2>10. armed'[port] # 0 /\ \A p \in ports \ todo : armed'[p] # 0
    BY <2>2, <2>3, <2>5
  <2>11. /\ UNCHANGED ports
         /\ \/ pc' = "arm" /\ todo' = todo \ {port} /\ Others # {}
            \/ pc' = "idle" /\ todo = {port} /\ Others = {}
    BY <2>1, NextPortKept
  <2>12. CASE pc' = "arm"
    <3>1. \A p \in ports' \ todo' : armed'[p] # 0
      BY <2>10, <2>11, <2>12
    <3>2. outcome' = ""
      BY <2>1, <2>11, <2>12
    <3>3. \A p \in ports' : Given(p)'
      BY <2>7, <2>11
    <3>4. target' > 0
      BY <2>1, <2>2
    <3>5. QED BY <2>9, <2>12, <3>1, <3>2, <3>3, <3>4 DEF SyncInv
  <2>13. CASE pc' = "idle"
    <3>1. \A p \in ports' : armed'[p] # 0
      BY <2>10, <2>11, <2>13
    <3>2. QED BY <2>9, <2>13, <3>1 DEF SyncInv
  <2>14. QED BY <2>11, <2>12, <2>13
<1>17. ASSUME ZeroRing \/ RxOff \/ RxClear \/ RxOn \/ TxStop PROVE SyncInv'
  BY <1>6, <1>17 DEF ZeroRing, RxOff, RxClear, RxOn, TxStop
<1>18. ASSUME TxConfigure \/ TxStart PROVE SyncInv'
  BY <1>8, <1>18 DEF TxConfigure, TxStart
<1>19. ASSUME WaitTimeout PROVE SyncInv'
  BY <1>6, <1>7, <1>19 DEF WaitTimeout
<1>20. ASSUME StopAndClear PROVE SyncInv'
  <2>1. /\ pc = "abort" /\ NextPort("abort", "idle") /\ UNCHANGED armed
        /\ outcome' \in {outcome, "FAIL", ""}
    BY <1>20 DEF StopAndClear
  <2>2. QED BY <1>8, <2>1
<1>21. ASSUME Verdict PROVE SyncInv'
  BY <1>7, <1>21 DEF Verdict
<1>22. ASSUME Abandoned PROVE SyncInv'
  <2>1. /\ pc # "idle" /\ pc' = "idle" /\ outcome' = "abandoned" /\ UNCHANGED <<armed, target>>
        /\ UNCHANGED <<tick, tx>>
    BY <1>22, Zenon DEF Abandoned, End, progress, board
  <2>2. \A p \in Ports : armed'[p] # 0 => Aligned(p)'
    BY <2>1 DEF SyncInv, Aligned
  <2>3. QED BY <2>1, <2>2 DEF SyncInv
<1>23. ASSUME Clock PROVE SyncInv'
  <2>1. Tick /\ UNCHANGED <<ports, pc, todo, target, armed, outcome>>
    BY <1>23, Zenon DEF Clock, plan, progress
  <2>2. \A p \in Ports : armed'[p] # 0 => Aligned(p)'
    <3>1. \A p \in Ports : armed[p] # 0 => Aligned(p)
      BY DEF SyncInv
    <3>2. QED BY <2>1, <3>1, AlignedKept
  <2>3. \A p \in Ports : Given(p) => Given(p)'
    <3>1. \A p \in Ports : tx'[p].start = tx[p].start /\ tx'[p].sync = tx[p].sync
      BY <2>1, TickPort DEF TypeOK, BoardTypeOK
    <3>2. QED BY <2>1, <3>1 DEF Given
  <2>4. ports \subseteq Ports
    BY DEF TypeOK, ToolTypeOK
  <2>5. QED BY <2>1, <2>2, <2>3, <2>4 DEF SyncInv
<1>24. ASSUME AtRest PROVE SyncInv'
  BY <1>24 DEF AtRest, vars, board, plan, progress, SyncInv, Aligned, Given
<1>25. QED BY <1>9, <1>10, <1>11, <1>12, <1>13, <1>14, <1>15, <1>16, <1>17, <1>18, <1>19,
              <1>20, <1>21, <1>22, <1>23, <1>24, Zenon DEF Next, Launches

-----------------------------------------------------------------------------
(* Which tool is where.                                                    *)

LEMMA BareKept ==
    ASSUME TypeOK, NEW p \in Ports, Bare(p), Tick
    PROVE  Bare(p)' /\ tx'[p].left = 0
<1>1. PICK q \in PortType : q = tx[p]
  BY DEF TypeOK, BoardTypeOK
<1>2. q.left = 0 /\ ~q.running /\ ~q.held /\ q.sent = 0
  BY <1>1 DEF Bare
<1>3. ~Sends(p) /\ ~Enabled(p)
  BY <1>1, <1>2 DEF Sends, Enabled
<1>4. Handed(p) = q
  BY <1>1, <1>3 DEF Handed
<1>5. /\ tx'[p].held = Handed(p).held /\ tx'[p].left = q.left
      /\ tx'[p].sent = Handed(p).sent
      /\ tx'[p].running => Handed(p).running
  <2>1. /\ tx'[p].held = Handed(p).held
        /\ tx'[p].left = IF Sends(p) THEN q.left - 1 ELSE q.left
        /\ tx'[p].sent = IF Sends(p) /\ ~q.held THEN Handed(p).sent + 1 ELSE Handed(p).sent
        /\ tx'[p].running = (Handed(p).running /\ ~(Sends(p) /\ ~q.held /\ q.left = 1))
    BY <1>1, TickPort DEF TypeOK
  <2>2. QED BY <1>3, <2>1
<1>6. QED BY <1>2, <1>4, <1>5 DEF Bare

\* Every packet that leaves the core is counted, and the core is done with the last one.
LEMMA ReplayingKept ==
    ASSUME TypeOK, NEW p \in Ports, Replaying(p), Tick, run' = run
    PROVE  Replaying(p)'
<1>1. PICK q \in PortType : q = tx[p]
  BY DEF TypeOK, BoardTypeOK
<1>2. /\ tx'[p].run = q.run /\ tx'[p].held = Handed(p).held
      /\ tx'[p].left = IF Sends(p) THEN q.left - 1 ELSE q.left
      /\ tx'[p].sent = IF Sends(p) /\ ~q.held THEN Handed(p).sent + 1 ELSE Handed(p).sent
      /\ tx'[p].running = (Handed(p).running /\ ~(Sends(p) /\ ~q.held /\ q.left = 1))
  BY <1>1, TickPort DEF TypeOK
<1>3. IF Enabled(p) /\ EgressActive(p) THEN Handed(p).held ELSE Handed(p) = q
  BY <1>1, HandedPort DEF TypeOK
<1>4. /\ q.run = run
      /\ ~q.held => q.sent = packets - q.left /\ (~q.running => q.left = 0)
  BY <1>1 DEF Replaying
<1>5. CASE tx'[p].held
  BY <1>2, <1>4, <1>5 DEF Replaying
<1>6. CASE ~tx'[p].held
  <2>1. ~q.held /\ Handed(p) = q
    BY <1>2, <1>3, <1>6
  <2>2. q.sent \in Nat /\ q.left \in 0..packets /\ packets \in Nat
    BY ConstantTypes DEF PortType, Lefts
  <2>3. tx'[p].sent = packets - tx'[p].left
    <3>1. CASE Sends(p)
      BY <1>2, <1>4, <2>1, <2>2, <3>1
    <3>2. CASE ~Sends(p)
      BY <1>2, <1>4, <2>1, <3>2
    <3>3. QED BY <3>1, <3>2
  <2>4. ~tx'[p].running => tx'[p].left = 0
    <3>1. CASE Sends(p)
      <4>1. q.running
        BY <1>1, <2>1, <3>1 DEF Sends, Enabled
      <4>2. ~tx'[p].running => q.left = 1
        BY <1>2, <2>1, <4>1
      <4>3. tx'[p].left = q.left - 1
        BY <1>2, <3>1
      <4>4. QED BY <4>2, <4>3
    <3>2. CASE ~Sends(p)
      BY <1>2, <1>4, <2>1, <3>2
    <3>3. QED BY <3>1, <3>2
  <2>5. QED BY <1>2, <1>4, <2>3, <2>4 DEF Replaying
<1>7. QED BY <1>5, <1>6

\* Where a tool is when no conjunct of ToolInv but one asks anything of it.
Elsewhere == {"idle", "configure", "start", "egress", "now", "target", "arm", "abort"}

LEMMA ToolKept ==
    ASSUME TypeOK, ToolInv, Next
    PROVE  ToolInv'
<1>1. ports \subseteq Ports /\ todo \subseteq ports /\ run \in Nat
  BY Zenon DEF TypeOK, ToolTypeOK
<1>2. ASSUME pc' \in Elsewhere, tool' \in Checks => ports' = {Cabled}
      PROVE  ToolInv'
  BY <1>2 DEF ToolInv, Elsewhere
<1>3. tool \in Checks => ports = {Cabled}
  BY Zenon DEF ToolInv
<1>4. ASSUME pc' \in Elsewhere, UNCHANGED <<tool, ports>>
      PROVE  ToolInv'
  BY <1>2, <1>3, <1>4
<1>5. ASSUME NEW next, next \in Elsewhere \ {"idle"}, Continue(next), pc # "idle"
      PROVE  ToolInv'
  BY <1>4, <1>5, ContinueKept DEF Elsewhere
<1>6. ASSUME NEW how, End(how) PROVE ToolInv'
  BY <1>4, <1>6, EndKept DEF Elsewhere
<1>7. ASSUME NEW this, NEW next, {this, next} \subseteq Elsewhere, NextPort(this, next),
             pc # "idle"
      PROVE  ToolInv'
  <2>1. UNCHANGED <<tool, ports>> /\ (pc' = this \/ pc' = next)
    <3>1. NextPort(this, next) /\ pc # "idle"
      BY <1>7
    <3>2. QED BY <3>1, NextPortKept
  <2>2. QED BY <1>4, <1>7, <2>1
<1>8. ASSUME Launches PROVE ToolInv'
  <2>1. PICK name, on, first : Begins(name, on, first)
    BY <1>8, Launched
  <2>2. /\ on \in SUBSET Ports /\ on # {} /\ Invoke(name, on, first)
        /\ first \in {"configure", "egress", "now", "rx off", "zero", "tx stop"}
        /\ name \in Checks => on = {Cabled} /\ first \in {"rx off", "zero"}
        /\ first \in {"rx off", "zero"} => name \in Checks
        /\ first = "zero" <=> name = "loopback"
        /\ first = "tx stop" => name = "strict"
    BY <2>1 DEF Begins
  <2>3. /\ tool' = name /\ ports' = on /\ todo' = on /\ pc' = first
    BY <2>2, InvokeKept
  <2>4. QED BY <2>2, <2>3 DEF ToolInv
<1>9. ASSUME Command PROVE ToolInv'
  <2>1. pc' = "idle" /\ tool' = "command"
    BY <1>9, Zenon DEF Command, Invoke
  <2>2. QED BY <1>2, <2>1 DEF Checks, Elsewhere
<1>10. ASSUME LoadConfigure PROVE ToolInv'
  BY <1>5, <1>10 DEF LoadConfigure, Elsewhere
<1>11. ASSUME LoadStart PROVE ToolInv'
  BY <1>6, <1>11 DEF LoadStart
<1>12. ASSUME SyncEgress \/ SyncTarget \/ SyncArm \/ StopAndClear PROVE ToolInv'
  BY <1>7, <1>12 DEF SyncEgress, SyncTarget, SyncArm, StopAndClear, Elsewhere
<1>13. ASSUME SyncNow PROVE ToolInv'
  BY <1>4, <1>13 DEF SyncNow, plan, Elsewhere
<1>14. ASSUME ZeroRing \/ RxOff \/ RxClear PROVE ToolInv'
  <2>1. /\ pc' \in {"rx off", "rx clear", "rx on"} /\ UNCHANGED <<tool, ports, todo>>
        /\ pc \in {"zero", "rx off", "rx clear"}
    BY <1>14, ContinueKept DEF ZeroRing, RxOff, RxClear
  <2>2. tool \in Checks /\ todo = ports
    BY <2>1, Zenon DEF ToolInv
  <2>3. QED BY <1>3, <2>1, <2>2 DEF ToolInv
<1>15. ASSUME RxOn PROVE ToolInv'
  <2>1. pc' = "tx stop" /\ UNCHANGED <<tool, ports, todo>> /\ pc = "rx on"
    BY <1>15, ContinueKept DEF RxOn
  <2>2. tool \in Checks /\ todo = ports
    BY <2>1 DEF ToolInv
  <2>3. QED BY <1>3, <2>1, <2>2 DEF ToolInv
<1>16. ASSUME TxStop PROVE ToolInv'
  <2>1. pc' = "tx configure" /\ UNCHANGED <<tool, ports, todo, run>> /\ pc = "tx stop" /\ Stop(port)
    BY <1>16, ContinueKept DEF TxStop
  <2>2. tool \in Checks \cup {"strict"} /\ \A p \in ports \ todo : Bare(p)
    BY <2>1 DEF ToolInv
  <2>3. port \in todo /\ port \in Ports
    BY <2>1, PortToDo
  <2>4. \A o \in Ports \ {port} : tx'[o] = tx[o]
    <3>1. 0 \in Nat
      OBVIOUS
    <3>2. QED BY <2>1, <2>3, <3>1, ClearWritten
  <2>5. \A p \in ports \ todo : Bare(p)'
    <3>1. ASSUME NEW p \in ports \ todo PROVE Bare(p)'
      <4>1. tx'[p] = tx[p]
        BY <1>1, <2>3, <2>4
      <4>2. QED BY <2>2, <4>1 DEF Bare
    <3>2. QED BY <3>1
  <2>6. QED BY <1>3, <2>1, <2>2, <2>5 DEF ToolInv
<1>17. ASSUME TxConfigure PROVE ToolInv'
  <2>1. /\ pc = "tx configure" /\ NextPort("tx stop", "tx start")
        /\ TxBecomes(port, [Cleared(tx[port]) EXCEPT !.pause = FALSE, !.start = 0])
    BY <1>17, Zenon DEF TxConfigure
  <2>2. tool \in Checks \cup {"strict"} /\ \A p \in ports \ todo : Bare(p)
    BY <2>1 DEF ToolInv
  <2>3. port \in todo /\ port \in Ports
    BY <2>1, PortToDo
  <2>4. /\ \A o \in Ports \ {port} : tx'[o] = tx[o]
        /\ tx'[port].left = 0 /\ ~tx'[port].running /\ ~tx'[port].held /\ tx'[port].sent = 0
    <3>1. 0 \in Nat
      OBVIOUS
    <3>2. QED BY <2>1, <2>3, <3>1, ClearWritten
  <2>5. \A p \in (ports \ todo) \cup {port} : Bare(p)'
    <3>1. ASSUME NEW p \in ports \ todo PROVE Bare(p)'
      <4>1. tx'[p] = tx[p]
        BY <1>1, <2>3, <2>4
      <4>2. QED BY <2>2, <4>1 DEF Bare
    <3>2. ASSUME NEW p, p = port PROVE Bare(p)'
      BY <2>4, <3>2 DEF Bare
    <3>3. QED BY <3>1, <3>2
  <2>6. /\ UNCHANGED <<run, tool, ports>>
        /\ \/ pc' = "tx stop" /\ todo' = todo \ {port}
           \/ pc' = "tx start" /\ todo' = ports /\ todo = {port}
    BY <2>1, NextPortKept
  <2>7. CASE pc' = "tx stop"
    <3>1. ports' \ todo' \subseteq (ports \ todo) \cup {port}
      BY <2>6, <2>7
    <3>2. \A p \in ports' \ todo' : Bare(p)'
      BY <2>5, <3>1, Zenon
    <3>3. QED BY <1>3, <2>2, <2>6, <2>7, <3>2 DEF ToolInv
  <2>8. CASE pc' = "tx start"
    <3>1. todo' \subseteq (ports \ todo) \cup {port} /\ ports' \ todo' = {}
      BY <2>6, <2>8
    <3>2. \A p \in todo' : Bare(p)'
      BY <2>5, <3>1, Zenon
    <3>3. QED BY <1>3, <2>2, <2>6, <2>8, <3>1, <3>2 DEF ToolInv
  <2>9. QED BY <2>6, <2>7, <2>8
<1>18. ASSUME TxStart PROVE ToolInv'
  <2>1. pc = "tx start" /\ NextPort("tx start", "wait") /\ Start(port, run)
    BY <1>18, Zenon DEF TxStart
  <2>2. /\ tool \in Checks \cup {"strict"}
        /\ \A p \in todo : Bare(p)
        /\ \A p \in ports \ todo : Replaying(p)
    BY <2>1 DEF ToolInv
  <2>3. port \in todo /\ port \in Ports /\ Bare(port)
    BY <2>1, <2>2, PortToDo
  <2>4. /\ \A o \in Ports \ {port} : tx'[o] = tx[o]
        /\ tx'[port].left = packets /\ tx'[port].running /\ tx'[port].run = run
        /\ tx'[port].sent = tx[port].sent
    BY <1>1, <2>1, <2>3, StartWritten
  <2>5. /\ UNCHANGED <<run, tool, ports>>
        /\ \/ pc' = "tx start" /\ todo' = todo \ {port}
           \/ pc' = "wait" /\ todo = {port}
    BY <2>1, NextPortKept
  <2>6. \A p \in (ports \ todo) \cup {port} : Replaying(p)'
    <3>1. ASSUME NEW p \in ports \ todo PROVE Replaying(p)'
      <4>1. tx'[p] = tx[p]
        BY <1>1, <2>3, <2>4
      <4>2. QED BY <2>2, <2>5, <4>1 DEF Replaying
    <3>2. ASSUME NEW p, p = port PROVE Replaying(p)'
      <4>1. tx'[p].sent = packets - tx'[p].left
        <5>1. tx'[p].sent = 0 /\ tx'[p].left = packets /\ packets \in Nat
          BY <2>3, <2>4, <3>2, ConstantTypes DEF Bare
        <5>2. QED BY <5>1
      <4>2. QED BY <2>4, <2>5, <3>2, <4>1 DEF Replaying
    <3>3. QED BY <3>1, <3>2
  <2>7. CASE pc' = "tx start"
    <3>1. ports' \ todo' \subseteq (ports \ todo) \cup {port} /\ todo' \subseteq todo \ {port}
      BY <2>5, <2>7
    <3>2. \A p \in ports' \ todo' : Replaying(p)'
      BY <2>6, <3>1, Zenon
    <3>3. \A p \in todo' : Bare(p)'
      <4>1. ASSUME NEW p \in todo' PROVE Bare(p)'
        <5>1. tx'[p] = tx[p] /\ Bare(p)
          BY <1>1, <2>2, <2>4, <3>1
        <5>2. QED BY <5>1 DEF Bare
      <4>2. QED BY <4>1
    <3>4. QED BY <1>3, <2>2, <2>5, <2>7, <3>2, <3>3 DEF ToolInv
  <2>8. CASE pc' = "wait"
    <3>1. ports' \subseteq (ports \ todo) \cup {port}
      BY <2>5, <2>8
    <3>2. \A p \in ports' : Replaying(p)'
      BY <2>6, <3>1, Zenon
    <3>3. QED BY <1>3, <2>2, <2>5, <2>8, <3>2 DEF ToolInv
  <2>9. QED BY <2>5, <2>7, <2>8
<1>19. ASSUME WaitTimeout PROVE ToolInv'
  BY <1>5, <1>6, <1>19 DEF WaitTimeout, Elsewhere
<1>20. ASSUME Verdict \/ Abandoned PROVE ToolInv'
  BY <1>6, <1>20, Zenon DEF Verdict, Abandoned
<1>21. ASSUME Clock PROVE ToolInv'
  <2>1. Tick /\ UNCHANGED <<run, tool, ports, pc, todo>>
    BY <1>21, Zenon DEF Clock, plan, progress
  <2>2. \A p \in ports : Bare(p) => Bare(p)'
    BY <1>1, <2>1, BareKept
  <2>3. \A p \in ports : Replaying(p) => Replaying(p)'
    BY <1>1, <2>1, ReplayingKept
  <2>4. QED BY <1>1, <2>1, <2>2, <2>3 DEF ToolInv
<1>22. ASSUME AtRest PROVE ToolInv'
  <2>1. UNCHANGED <<tx, run, tool, ports, pc, todo>>
    BY <1>22, Zenon DEF AtRest, vars, board, plan, progress
  <2>2. QED BY <2>1 DEF ToolInv, Bare, Replaying
<1>23. QED BY <1>8, <1>9, <1>10, <1>11, <1>12, <1>13, <1>14, <1>15, <1>16, <1>17, <1>18,
              <1>19, <1>20, <1>21, <1>22, Zenon DEF Next, Launches

-----------------------------------------------------------------------------
(* What a check measures.                                                  *)

LEMMA RxEnabled ==
    ASSUME NEW r \in RxType, NEW size \in Nat, NEW capture \in BOOLEAN
    PROVE  /\ LET cleared == [RxCleared(r) EXCEPT !.size = size]
              IN  cleared.got = <<>> /\ cleared.pointer = 0 /\ ~cleared.errors
           /\ LET enabled == RxControl(r, TRUE, capture)
              IN  /\ enabled.got = r.got /\ enabled.pointer = r.pointer
                  /\ enabled.errors = r.errors /\ enabled.capture = capture
<1>1. LET cleared == [RxCleared(r) EXCEPT !.size = size]
      IN  cleared.got = <<>> /\ cleared.pointer = 0 /\ ~cleared.errors
  BY DEF RxCleared, RxType
<1>2. PICK errors \in BOOLEAN : errors = (TRUE /\ r.errors)
  OBVIOUS
<1>3. RxControl(r, TRUE, capture)
        = [r EXCEPT !.enable = TRUE, !.capture = capture, !.got = r.got, !.errors = errors]
  BY <1>2, Zenon DEF RxControl
<1>4. errors = r.errors
  BY <1>2 DEF RxType
<1>5. QED BY <1>1, <1>3, <1>4 DEF RxType

\* While its replay runs: what a tick adds is the next packet of the trace, or is missing.
LEMMA WaitKept ==
    ASSUME TypeOK, ToolInv, MeasureInv, tool \in Checks, Cabled \in quiet, pc = "wait", Tick,
           UNCHANGED <<run, tool, pc>>
    PROVE  /\ rx'.capture = (tool = "loopback")
           /\ tool = "loopback" => Wiped'
           /\ \A x \in lost' : x.run < run \/ x.index <= Off'
           /\ rx'.pointer <= Len(rx'.got) /\ Len(rx'.got) <= Off'
           /\ Len(rx'.got) = Off' => 
                 /\ \A k \in 1..Len(rx'.got) : rx'.got[k].packet = [run |-> run, index |-> k]
                 /\ (~rx'.errors /\ (tool = "loopback" => rx'.pointer = Len(rx'.got))) => Fresh'
<1>1. /\ BoardTypeOK /\ Cabled \in Ports /\ tx[Cabled] \in PortType /\ rx \in RxType
      /\ run \in Nat /\ packets \in Nat /\ rx.pointer \in Nat /\ Len(rx.got) \in Nat
      /\ tx[Cabled].left \in 0..packets
  <2>1. BoardTypeOK /\ Cabled \in Ports /\ tx[Cabled] \in PortType /\ rx \in RxType
    BY ConstantTypes DEF TypeOK, BoardTypeOK
  <2>2. run \in Nat /\ packets \in Nat
    BY ConstantTypes DEF TypeOK, ToolTypeOK
  <2>3. rx.pointer \in Nat /\ Len(rx.got) \in Nat
    BY <2>1, LenProperties DEF RxType
  <2>4. tx[Cabled].left \in 0..packets
    BY <2>1 DEF PortType, Lefts
  <2>5. QED BY <2>1, <2>2, <2>3, <2>4
<1>2. /\ rx.capture = (tool = "loopback")
      /\ tool = "loopback" => Wiped
      /\ \A x \in lost : x.run < run \/ x.index <= Off
      /\ rx.pointer <= Len(rx.got) /\ Len(rx.got) <= Off
      /\ Len(rx.got) = Off => 
            /\ \A k \in 1..Len(rx.got) : rx.got[k].packet = [run |-> run, index |-> k]
            /\ (~rx.errors /\ (tool = "loopback" => rx.pointer = Len(rx.got))) => Fresh
  BY DEF MeasureInv, Starting
<1>3. /\ rx'.capture = rx.capture
      /\ ~Sends(Cabled) => UNCHANGED <<rx, ring, lost>>
      /\ lost' \subseteq lost \cup {Leaving}
      /\ \/ UNCHANGED rx
         \/ rx'.got = Counted.got /\ rx'.pointer \in {rx.pointer, rx.pointer + 1}
      /\ rx'.pointer # rx.pointer => rx'.got = Counted.got
      /\ \A s \in 1..packets : ring'[s] # ring[s] =>
            s = rx.pointer + 1 /\ rx'.pointer = rx.pointer + 1
      /\ lost' # lost => \/ UNCHANGED rx
                         \/ rx'.errors
                         \/ rx.capture /\ rx'.pointer = rx.pointer
      /\ rx'.errors \/ rx'.errors = rx.errors
  BY <1>1, TickRx
<1>4. tx'[Cabled].left = IF Sends(Cabled) THEN tx[Cabled].left - 1 ELSE tx[Cabled].left
  BY <1>1, TickPort
<1>5. rx'.capture = (tool = "loopback")
  BY <1>2, <1>3
<1>6. tool = "loopback" => Wiped'
  <2>1. ASSUME Wiped, NEW s \in 1..packets, s > rx'.pointer PROVE ring'[s] = 0
    <3>1. rx'.pointer \in {rx.pointer, rx.pointer + 1}
      BY <1>3
    <3>2. s > rx.pointer /\ ~(s = rx.pointer + 1 /\ rx'.pointer = rx.pointer + 1)
      BY <1>1, <2>1, <3>1
    <3>3. ring'[s] = ring[s]
      BY <1>3, <3>2
    <3>4. QED BY <2>1, <3>2, <3>3 DEF Wiped
  <2>2. QED BY <1>2, <2>1 DEF Wiped
<1>7. CASE ~Sends(Cabled)
  <2>1. UNCHANGED <<rx, lost>> /\ Off' = Off
    BY <1>3, <1>4, <1>7 DEF Off
  <2>2. QED BY <1>2, <1>5, <1>6, <2>1 DEF Fresh
<1>8. CASE Sends(Cabled)
  <2>1. Off' = Off + 1 /\ Off \in Nat
    BY <1>1, <1>4, <1>8 DEF Off
  <2>2. Leaving = [run |-> run, index |-> Off + 1]
    <3>1. Leaving \in PacketType /\ Leaving.run = tx[Cabled].run
          /\ Leaving.index = packets - tx[Cabled].left + 1
      BY <1>1, LeavingType
    <3>2. tx[Cabled].run = run
      <4>1. Cabled \in ports
        BY Zenon DEF ToolInv
      <4>2. QED BY <4>1 DEF ToolInv, Replaying
    <3>3. QED BY <3>1, <3>2 DEF PacketType, Off
  <2>3. \A x \in lost' : x.run < run \/ x.index <= Off'
    <3>1. ASSUME NEW x \in lost' PROVE x.run < run \/ x.index <= Off'
      <4>1. CASE x = Leaving
        BY <2>1, <2>2, <4>1
      <4>2. CASE x \in lost
        <5>1. x \in PacketType
          BY <1>1, <4>2 DEF BoardTypeOK
        <5>2. x.index \in Nat
          BY <5>1 DEF PacketType
        <5>3. x.run < run \/ x.index <= Off
          BY <1>2, <4>2
        <5>4. QED BY <2>1, <5>2, <5>3
      <4>3. QED BY <1>3, <4>1, <4>2
    <3>2. QED BY <3>1
  <2>4. /\ Len(Counted.got) = Len(rx.got) + 1
        /\ Counted.got[Len(rx.got) + 1].packet = Leaving
        /\ \A k \in 1..Len(rx.got) : Counted.got[k] = rx.got[k]
    BY <1>1, CountedType
  <2>5. CASE UNCHANGED rx
    <3>1. rx'.pointer <= Len(rx'.got) /\ Len(rx'.got) <= Off' /\ Len(rx'.got) # Off'
      BY <1>1, <1>2, <2>1, <2>5
    <3>2. QED BY <1>5, <1>6, <2>3, <3>1
  <2>6. CASE rx'.got = Counted.got /\ rx'.pointer \in {rx.pointer, rx.pointer + 1}
    <3>1. rx'.pointer <= Len(rx'.got) /\ Len(rx'.got) <= Off'
      BY <1>1, <1>2, <2>1, <2>4, <2>6
    <3>2. ASSUME Len(rx'.got) = Off'
          PROVE  \A k \in 1..Len(rx'.got) : rx'.got[k].packet = [run |-> run, index |-> k]
      <4>1. Len(rx.got) = Off /\ Len(rx'.got) = Len(rx.got) + 1
        BY <1>1, <2>1, <2>4, <2>6, <3>2
      <4>2. ASSUME NEW k \in 1..Len(rx'.got)
            PROVE  rx'.got[k].packet = [run |-> run, index |-> k]
        <5>1. CASE k = Len(rx.got) + 1
          BY <2>2, <2>4, <2>6, <4>1, <5>1
        <5>2. CASE k # Len(rx.got) + 1
          <6>1. k \in 1..Len(rx.got)
            BY <1>1, <4>1, <5>2
          <6>2. QED BY <1>2, <2>4, <2>6, <4>1, <6>1
        <5>3. QED BY <5>1, <5>2
      <4>3. QED BY <4>2
    <3>3. ASSUME Len(rx'.got) = Off', ~rx'.errors,
                 tool = "loopback" => rx'.pointer = Len(rx'.got)
          PROVE  Fresh'
      <4>1. Len(rx.got) = Off /\ Len(rx'.got) = Len(rx.got) + 1
        BY <1>1, <2>1, <2>4, <2>6, <3>3
      <4>2. ~rx.errors
        BY <1>3, <3>3
      <4>3. tool = "loopback" => rx.pointer = Len(rx.got) /\ rx'.pointer # rx.pointer
        BY <1>1, <1>2, <2>6, <3>3, <4>1
      <4>4. Fresh
        BY <1>2, <4>1, <4>2, <4>3
      <4>5. rx' # rx
        BY <1>1, <4>1
      <4>6. lost' = lost
        BY <1>2, <1>3, <3>3, <4>3, <4>5
      <4>7. QED BY <4>4, <4>6 DEF Fresh
    <3>4. QED BY <1>5, <1>6, <2>3, <3>1, <3>2, <3>3
  <2>7. QED BY <1>3, <2>5, <2>6
<1>9. QED BY <1>7, <1>8

LEMMA MeasureKept ==
    ASSUME TypeOK, RunsSoFar, ToolInv, MeasureInv, Next
    PROVE  MeasureInv'
<1>1. /\ Cabled \in Ports /\ tx[Cabled] \in PortType /\ rx \in RxType /\ run \in Nat
      /\ packets \in Nat /\ N \in Nat /\ 0 \in Nat
  BY ConstantTypes DEF TypeOK, ToolTypeOK, BoardTypeOK, N
<1>2. ASSUME pc' \in Elsewhere PROVE MeasureInv'
  BY <1>2 DEF MeasureInv, Elsewhere, Starting
<1>3. ASSUME tool' \notin Checks PROVE MeasureInv'
  BY <1>3 DEF MeasureInv
<1>4. ASSUME Launches PROVE MeasureInv'
  <2>1. PICK name, on, first : Begins(name, on, first)
    BY <1>4, Launched
  <2>2. /\ on \in SUBSET Ports /\ on # {} /\ Invoke(name, on, first)
        /\ name \in Checks => first \in {"rx off", "zero"}
        /\ first = "zero" <=> name = "loopback"
    BY <2>1 DEF Begins
  <2>3. UNCHANGED <<tx, rx, ring, lost>>
    BY <2>1, Zenon DEF Begins, board
  <2>4. /\ tool' = name /\ pc' = first /\ run' = run + 1
        /\ \A p \in quiet' : tx[p].left = 0
    BY <2>2, InvokeKept
  <2>5. Fresh'
    <3>1. \A x \in lost : x.run \in Nat /\ x.run <= run
      BY DEF TypeOK, BoardTypeOK, PacketType, RunsSoFar
    <3>2. \A x \in lost : x.run < run + 1
      BY <1>1, <3>1
    <3>3. QED BY <2>3, <2>4, <3>2 DEF Fresh
  <2>6. Cabled \in quiet' => tx'[Cabled].left = 0
    BY <2>3, <2>4
  <2>7. QED BY <2>2, <2>4, <2>5, <2>6 DEF MeasureInv, Starting
<1>5. ASSUME Command PROVE MeasureInv'
  <2>1. tool' = "command"
    BY <1>5, Zenon DEF Command, Invoke
  <2>2. QED BY <1>3, <2>1 DEF Checks
<1>6. ASSUME LoadConfigure PROVE MeasureInv'
  BY <1>2, <1>6 DEF LoadConfigure, Continue, Elsewhere
<1>7. ASSUME LoadStart \/ Verdict \/ Abandoned PROVE MeasureInv'
  BY <1>2, <1>7 DEF LoadStart, Verdict, Abandoned, End, Elsewhere
<1>8. ASSUME SyncEgress \/ SyncTarget \/ SyncArm \/ StopAndClear PROVE MeasureInv'
  <2>1. PICK this, next : {this, next} \subseteq Elsewhere /\ NextPort(this, next)
    BY <1>8 DEF SyncEgress, SyncTarget, SyncArm, StopAndClear, Elsewhere
  <2>2. pc' \in Elsewhere
    BY <2>1 DEF NextPort
  <2>3. QED BY <1>2, <2>2
<1>9. ASSUME SyncNow PROVE MeasureInv'
  BY <1>2, <1>9 DEF SyncNow, Elsewhere
<1>10. ASSUME WaitTimeout PROVE MeasureInv'
  BY <1>2, <1>10 DEF WaitTimeout, Continue, End, Elsewhere
<1>11. ASSUME NEW next, pc # "idle", next # "idle", Continue(next), ~(tool \in Checks /\ Cabled \in quiet)
       PROVE  MeasureInv'
  <2>1. UNCHANGED <<tool, quiet>>
    BY <1>11, ContinueKept
  <2>2. QED BY <1>11, <2>1 DEF MeasureInv
<1>12. ASSUME ZeroRing PROVE MeasureInv'
  <2>1. /\ pc = "zero" /\ pc' = "rx off" /\ ring' = [s \in 1..packets |-> 0]
        /\ UNCHANGED <<tx, lost, run, tool, quiet>>
    BY <1>12, Zenon DEF ZeroRing, Continue, plan, N
  <2>2. \A s \in 1..packets : ring'[s] = 0
    BY <2>1
  <2>3. QED BY <2>1, <2>2 DEF MeasureInv, Starting, Fresh
<1>13. ASSUME RxOff PROVE MeasureInv'
  <2>1. /\ pc = "rx off" /\ pc' = "rx clear"
        /\ UNCHANGED <<tx, ring, lost, run, tool, quiet>>
    BY <1>13, Zenon DEF RxOff, RxBecomes, Continue, plan
  <2>2. QED BY <2>1 DEF MeasureInv, Starting, Fresh
<1>14. ASSUME RxClear PROVE MeasureInv'
  <2>1. PICK size \in Nat : size = IF tool = "loopback" THEN N ELSE 0
    BY <1>1
  <2>2. /\ pc = "rx clear" /\ pc' = "rx on"
        /\ UNCHANGED <<tx, ring, lost, run, tool, quiet>>
        /\ rx' = [RxCleared(rx) EXCEPT !.size = size]
    BY <1>14, <2>1, Zenon DEF RxClear, RxBecomes, Continue, plan
  <2>3. Clean'
    BY <1>1, <2>2, RxEnabled DEF Clean
  <2>4. QED BY <2>2, <2>3 DEF MeasureInv, Starting, Fresh, Wiped
<1>15. ASSUME RxOn PROVE MeasureInv'
  <2>1. PICK capture \in BOOLEAN : capture = (tool = "loopback")
    OBVIOUS
  <2>2. /\ pc = "rx on" /\ pc' = "tx stop"
        /\ UNCHANGED <<tx, ring, lost, run, tool, quiet>>
        /\ rx' = RxControl(rx, TRUE, capture)
    BY <1>15, <2>1, Zenon DEF RxOn, RxBecomes, Continue, plan
  <2>3. /\ rx'.got = rx.got /\ rx'.pointer = rx.pointer /\ rx'.errors = rx.errors
        /\ rx'.capture = capture
    BY <1>1, <2>2, RxEnabled
  <2>4. Clean => Clean'
    BY <2>3 DEF Clean
  <2>5. Wiped => Wiped'
    BY <2>2, <2>3 DEF Wiped
  <2>6. rx'.capture = (tool' = "loopback")
    BY <2>1, <2>2, <2>3
  <2>7. QED BY <2>2, <2>4, <2>5, <2>6 DEF MeasureInv, Starting, Fresh
<1>16. ASSUME tool \in Checks, pc # "idle" PROVE todo = {Cabled} /\ port = Cabled /\ Others = {}
  <2>1. ports = {Cabled} /\ port \in todo /\ todo \subseteq ports
    BY <1>16, PortToDo DEF ToolInv, TypeOK, ToolTypeOK
  <2>2. QED BY <2>1 DEF Others
<1>17. ASSUME TxStop \/ TxConfigure PROVE MeasureInv'
  <2>1. /\ pc \in {"tx stop", "tx configure"}
        /\ pc' \in {"tx stop", "tx configure", "tx start"}
        /\ UNCHANGED <<rx, ring, lost, run, tool, quiet>>
        /\ \/ Stop(port)
           \/ TxBecomes(port, [Cleared(tx[port]) EXCEPT !.pause = FALSE, !.start = 0])
    <3>1. /\ pc \in {"tx stop", "tx configure"}
          /\ \/ Stop(port)
             \/ TxBecomes(port, [Cleared(tx[port]) EXCEPT !.pause = FALSE, !.start = 0])
      BY <1>17, Zenon DEF TxStop, TxConfigure
    <3>2. UNCHANGED <<rx, ring, lost>>
      BY <3>1, Zenon DEF Stop, TxBecomes
    <3>3. /\ pc' \in {"tx stop", "tx configure", "tx start"}
          /\ UNCHANGED <<run, tool, quiet>>
      BY <1>17 DEF TxStop, TxConfigure, Continue, NextPort, plan
    <3>4. QED BY <3>1, <3>2, <3>3
  <2>2. tool \in Checks => tx'[Cabled].left = 0
    <3>1. pc # "idle"
      BY <2>1
    <3>2. port \in Ports
      BY <3>1, PortToDo
    <3>3. tx'[port].left = 0
      BY <1>1, <2>1, <3>2, ClearWritten
    <3>4. QED BY <1>16, <3>1, <3>3
  <2>3. pc \in Starting /\ pc' \in Starting /\ pc \notin {"rx off", "rx clear"}
        /\ pc' \notin {"rx off", "rx clear", "wait"} /\ pc # "zero"
    BY <2>1 DEF Starting
  <2>4. QED BY <2>1, <2>2, <2>3 DEF MeasureInv, Fresh, Clean, Wiped
<1>18. ASSUME TxStart PROVE MeasureInv'
  <2>1. pc = "tx start" /\ Start(port, run) /\ NextPort("tx start", "wait")
    BY <1>18, Zenon DEF TxStart
  <2>2. UNCHANGED <<run, tool, quiet>> /\ (Others = {} => pc' = "wait")
    BY <2>1 DEF NextPort, plan
  <2>3. SUFFICES ASSUME tool \in Checks, Cabled \in quiet PROVE MeasureInv'
    BY <2>2 DEF MeasureInv
  <2>4. port = Cabled /\ pc' = "wait"
    BY <1>16, <2>1, <2>2, <2>3
  <2>5. UNCHANGED <<rx, ring, lost>> /\ tx'[Cabled].left = packets
    BY <1>1, <2>1, <2>4, StartWritten
  <2>6. Fresh /\ Clean /\ rx.capture = (tool = "loopback") /\ (tool = "loopback" => Wiped)
    BY <2>1, <2>3 DEF MeasureInv, Starting
  <2>7. Off' = 0 /\ Len(rx.got) = 0 /\ rx.pointer = 0 /\ 1..Len(rx.got) = {}
    BY <1>1, <2>5, <2>6 DEF Off, Clean
  <2>8. Fresh' /\ (tool = "loopback" => Wiped')
    BY <2>2, <2>5, <2>6 DEF Fresh, Wiped
  <2>9. \A x \in lost' : x.run < run' \/ x.index <= Off'
    BY <2>8 DEF Fresh
  <2>10. rx'.pointer <= Len(rx'.got) /\ Len(rx'.got) <= Off' /\ 1..Len(rx'.got) = {}
    BY <2>5, <2>7
  <2>11. QED BY <2>2, <2>4, <2>5, <2>6, <2>8, <2>9, <2>10 DEF MeasureInv, Starting
<1>19. ASSUME Clock PROVE MeasureInv'
  <2>1. Tick /\ UNCHANGED <<run, tool, quiet, pc>>
    BY <1>19, Zenon DEF Clock, plan
  <2>2. SUFFICES ASSUME tool \in Checks, Cabled \in quiet PROVE MeasureInv'
    BY <2>1 DEF MeasureInv
  <2>3. CASE pc = "wait"
    <3>1. /\ rx'.capture = (tool = "loopback")
          /\ tool = "loopback" => Wiped'
          /\ \A x \in lost' : x.run < run \/ x.index <= Off'
          /\ rx'.pointer <= Len(rx'.got) /\ Len(rx'.got) <= Off'
          /\ Len(rx'.got) = Off' => 
               /\ \A k \in 1..Len(rx'.got) : rx'.got[k].packet = [run |-> run, index |-> k]
               /\ (~rx'.errors /\ (tool = "loopback" => rx'.pointer = Len(rx'.got))) => Fresh'
      BY <2>1, <2>2, <2>3, WaitKept
    <3>2. QED BY <2>1, <2>3, <3>1 DEF MeasureInv, Starting
  <2>4. CASE pc \in Starting
    <3>1. tx[Cabled].left = 0
      BY <2>2, <2>4 DEF MeasureInv
    <3>2. ~Sends(Cabled)
      BY <3>1 DEF Sends
    <3>3. UNCHANGED <<rx, ring, lost>> /\ tx'[Cabled].left = 0
      BY <1>1, <2>1, <3>1, <3>2, TickRx, TickPort DEF TypeOK
    <3>4. pc # "wait"
      BY <2>4 DEF Starting
    <3>5. QED BY <2>1, <2>2, <3>3, <3>4 DEF MeasureInv, Fresh, Clean, Wiped
  <2>5. CASE pc \notin Starting \cup {"wait"}
    BY <2>1, <2>5 DEF MeasureInv, Starting
  <2>6. QED BY <2>3, <2>4, <2>5
<1>20. ASSUME AtRest PROVE MeasureInv'
  <2>1. pc' = "idle"
    BY <1>20, Zenon DEF AtRest, vars
  <2>2. QED BY <1>2, <2>1 DEF Elsewhere
<1>21. QED BY <1>4, <1>5, <1>6, <1>7, <1>8, <1>9, <1>10, <1>12, <1>13, <1>14, <1>15, <1>17,
              <1>18, <1>19, <1>20, Zenon DEF Next, Launches

-----------------------------------------------------------------------------
(* The verdict.                                                            *)

\* The trace has N packets.
LEMMA OwnPackets == Cardinality(Own) = N
<1>1. N \in Nat
  BY ConstantTypes DEF N
<1>2. PICK f : f = [i \in 1..N |-> [run |-> run, index |-> i]]
  OBVIOUS
<1>3. f \in Surjection(1..N, Own) /\ f \in Injection(1..N, Own)
  <2>1. f \in [1..N -> Own] /\ \A x \in Own : \E i \in 1..N : f[i] = x
    BY <1>2 DEF Own
  <2>2. \A i, j \in 1..N : f[i] = f[j] => i = j
    <3>1. \A i \in 1..N : f[i].index = i
      BY <1>2
    <3>2. QED BY <3>1
  <2>3. QED BY <2>1, <2>2 DEF Surjection, Injection, IsInjective
<1>4. IsFiniteSet(1..N) /\ Cardinality(1..N) = N
  BY <1>1, FS_Interval
<1>5. QED BY <1>3, <1>4, FS_Surjection

LEMMA GapsLength ==
    ASSUME TypeOK, Len(rx.got) > 0
    PROVE  Len(gaps) = Len(rx.got) - 1
<1>1. PICK s \in Seq([packet : PacketType, at : Nat]) : s = rx.got
  <2>1. rx \in RxType
    BY DEF TypeOK, BoardTypeOK
  <2>2. QED BY <2>1 DEF RxType
<1>2. PICK n \in Nat : n = Len(s) - 1
  <2>1. Len(s) \in Nat
    BY LenProperties
  <2>2. Len(s) > 0
    BY <1>1
  <2>3. QED BY <2>1, <2>2
<1>3. gaps = [k \in 1..n |-> s[k + 1].at - s[k].at]
  BY <1>1, <1>2 DEF gaps
<1>4. \A k \in 1..n : s[k + 1].at - s[k].at \in Int
  <2>1. ASSUME NEW k \in 1..n PROVE s[k + 1].at - s[k].at \in Int
    <3>1. k \in 1..Len(s) /\ k + 1 \in 1..Len(s)
      BY <1>2
    <3>2. s[k] \in [packet : PacketType, at : Nat] /\ s[k + 1] \in [packet : PacketType, at : Nat]
      BY <1>1, <3>1, ElementOfSeq
    <3>3. QED BY <3>2
  <2>2. QED BY <2>1
<1>5. gaps \in [1..n -> Int]
  BY <1>3, <1>4
<1>6. gaps \in Seq(Int) /\ Len(gaps) = n
  BY <1>5
<1>7. QED BY <1>1, <1>2, <1>6

\* What the checks ask for is all that came, when as many packets came as the trace has.
LEMMA OnlyOwn ==
    ASSUME TypeOK, Len(rx.got) = N, Own \subseteq Seen
    PROVE  Seen = Own
<1>1. PICK s \in Seq([packet : PacketType, at : Nat]) : s = rx.got
  <2>1. rx \in RxType
    BY DEF TypeOK, BoardTypeOK
  <2>2. QED BY <2>1 DEF RxType
<1>2. N \in Nat /\ DOMAIN s = 1..N /\ s \in [1..N -> [packet : PacketType, at : Nat]]
  BY <1>1, ConstantTypes, LenProperties DEF N
<1>3. PICK sample : sample = [k \in 1..N |-> s[k].packet]
  OBVIOUS
<1>4. sample \in [1..N -> PacketType]
  BY <1>2, <1>3
<1>5. \A k \in 1..N : sample[k] \in Seen
  BY <1>1, <1>2, <1>3 DEF Seen
<1>6. \A x \in Seen : \E k \in 1..N : sample[k] = x
  BY <1>1, <1>2, <1>3 DEF Seen
<1>7. Cardinality(Own) = N
  BY OwnPackets
<1>8. IsFiniteSet(1..N) /\ Cardinality(1..N) = N
  BY <1>2, FS_Interval
<1>9. sample \in Surjection(1..N, Seen)
  <2>1. sample \in [1..N -> Seen]
    BY <1>4, <1>5
  <2>2. QED BY <1>6, <2>1 DEF Surjection
<1>10. IsFiniteSet(Seen) /\ Cardinality(Seen) <= N
  BY <1>8, <1>9, FS_Surjection
<1>11. Own \in SUBSET Seen
  OBVIOUS
<1>12. Cardinality(Own) <= Cardinality(Seen) /\ (Cardinality(Seen) = Cardinality(Own) => Seen = Own)
  BY <1>10, <1>11, FS_Subset
<1>13. Cardinality(Seen) \in Nat
  BY <1>10, FS_CardinalityType
<1>14. QED BY <1>2, <1>7, <1>10, <1>12, <1>13

\* Every check that passes had all the packets it asks for counted.
LEMMA PassCounts ==
    ASSUME TypeOK, tool \in Checks, Passes
    PROVE  /\ Len(rx.got) \in Nat /\ Len(rx.got) >= N /\ ~rx.errors
           /\ tool # "loopback" => Len(rx.got) = N
           /\ tool = "loopback" => \A s \in 1..N : ring[s] = s
<1>1. N \in Nat /\ N > 1 /\ Len(rx.got) \in Nat
  <2>1. rx \in RxType
    BY DEF TypeOK, BoardTypeOK
  <2>2. rx.got \in Seq([packet : PacketType, at : Nat])
    BY <2>1 DEF RxType
  <2>3. QED BY <2>2, ConstantTypes, LenProperties DEF N
<1>2. CountersClean
  BY DEF Passes, Checks, IntervalPass, SpacingPass, LoopbackPass
<1>3. Len(rx.got) >= N /\ ~rx.errors
  BY <1>2 DEF CountersClean
<1>4. Len(gaps) = Len(rx.got) - 1
  BY <1>1, <1>3, GapsLength
<1>5. CASE tool = "interval"
  <2>1. first_desc_index + compare_count <= N
    BY <1>5 DEF Passes, IntervalPass
  <2>2. compare_count \in Nat
    <3>1. PICK S : S = {Len(gaps), MaxSamples, N - 1}
      OBVIOUS
    <3>2. S \subseteq Nat /\ S # {}
      BY <1>1, <1>3, <1>4, <3>1, ConstantTypes
    <3>3. QED BY <3>1, <3>2, MinIsIn DEF compare_count
  <2>3. first_desc_index = Len(gaps) - compare_count + 1
    BY DEF first_desc_index
  <2>4. Len(rx.got) = N
    BY <1>1, <1>3, <1>4, <2>1, <2>2, <2>3
  <2>5. QED BY <1>1, <1>3, <1>5, <2>4
<1>6. CASE tool = "spacing"
  <2>1. Len(gaps) = N - 1
    BY <1>6 DEF Passes, SpacingPass
  <2>2. Len(rx.got) = N
    BY <1>1, <1>4, <2>1
  <2>3. QED BY <1>1, <1>3, <1>6, <2>2
<1>7. CASE tool = "loopback"
  <2>1. \A s \in 1..N : ring[s] = s
    BY <1>7 DEF Passes, LoopbackPass
  <2>2. QED BY <1>1, <1>3, <1>7, <2>1
<1>8. QED BY <1>5, <1>6, <1>7 DEF Checks

\* A cable that was silent at the launch brought nothing but the check's own packets.
LEMMA QuietPass ==
    ASSUME TypeOK, MeasureInv, pc = "wait", tool \in Checks, Passes, Cabled \in quiet
    PROVE  Own \subseteq Seen \ lost
<1>1. /\ N = packets /\ packets \in Nat /\ packets > 1 /\ run \in Nat
      /\ tx[Cabled].left \in 0..packets /\ rx.pointer \in Nat /\ rx \in RxType
  <2>1. tx[Cabled] \in PortType /\ rx \in RxType /\ run \in Nat
    BY ConstantTypes DEF TypeOK, BoardTypeOK, ToolTypeOK
  <2>2. tx[Cabled].left \in 0..packets
    BY <2>1 DEF PortType, Lefts
  <2>3. rx.pointer \in Nat
    BY <2>1 DEF RxType
  <2>4. QED BY <2>1, <2>2, <2>3, ConstantTypes DEF N
<1>2. /\ Len(rx.got) \in Nat /\ Len(rx.got) >= N /\ ~rx.errors
      /\ tool = "loopback" => \A s \in 1..N : ring[s] = s
  BY PassCounts
<1>3. /\ tool = "loopback" => Wiped
      /\ rx.pointer <= Len(rx.got) /\ Len(rx.got) <= Off
      /\ Len(rx.got) = Off =>
            /\ \A k \in 1..Len(rx.got) : rx.got[k].packet = [run |-> run, index |-> k]
            /\ (~rx.errors /\ (tool = "loopback" => rx.pointer = Len(rx.got))) => Fresh
  BY DEF MeasureInv, Starting
<1>4. Len(rx.got) = N /\ Len(rx.got) = Off
  BY <1>1, <1>2, <1>3 DEF Off
<1>5. tool = "loopback" => rx.pointer = Len(rx.got)
  <2>1. ASSUME tool = "loopback" PROVE rx.pointer = Len(rx.got)
    <3>1. N \in 1..packets /\ ring[N] = N /\ N # 0
      BY <1>1, <1>2, <2>1
    <3>2. ~(N > rx.pointer)
      BY <1>3, <2>1, <3>1 DEF Wiped
    <3>3. QED BY <1>1, <1>3, <1>4, <3>2
  <2>2. QED BY <2>1
<1>6. Fresh /\ \A k \in 1..N : rx.got[k].packet = [run |-> run, index |-> k]
  BY <1>2, <1>3, <1>4, <1>5
<1>7. ASSUME NEW k \in 1..N PROVE [run |-> run, index |-> k] \in Seen \ lost
  <2>1. [run |-> run, index |-> k] \notin lost
    <3>1. ASSUME NEW x \in lost, x = [run |-> run, index |-> k] PROVE FALSE
      <4>1. x.run < run /\ x.run = run
        BY <1>6, <3>1 DEF Fresh
      <4>2. QED BY <1>1, <4>1
    <3>2. QED BY <3>1
  <2>2. k \in DOMAIN rx.got
    <3>1. rx.got \in Seq([packet : PacketType, at : Nat])
      BY <1>1 DEF RxType
    <3>2. QED BY <1>4, <3>1, LenProperties
  <2>3. QED BY <1>6, <2>1, <2>2 DEF Seen
<1>8. QED BY <1>7 DEF Own

LEMMA VerdictRight ==
    ASSUME TypeOK, ToolInv, MeasureInv, Verdict, outcome' = "PASS"
    PROVE  IF tool = "strict" THEN \A p \in ports : HandedOver(p)
           ELSE IF Own \subseteq Seen \ lost THEN tool # "loopback" => Seen = Own
           ELSE Cabled \notin quiet
<1>1. pc = "wait" /\ Completed /\ Passes
  BY DEF Verdict, End
<1>2. tool \in Checks \cup {"strict"} /\ \A p \in ports : Replaying(p)
  BY <1>1 DEF ToolInv
<1>3. CASE tool = "strict"
  <2>1. ASSUME NEW p \in ports PROVE HandedOver(p)
    <3>1. PICK q \in PortType : q = tx[p]
      BY DEF TypeOK, BoardTypeOK, ToolTypeOK
    <3>2. q.left \in 0..packets /\ packets \in Nat /\ q.held \in BOOLEAN
      BY ConstantTypes DEF PortType, Lefts
    <3>3. /\ q.run = run
          /\ ~q.held => q.sent = packets - q.left /\ (~q.running => q.left = 0)
      BY <1>2, <3>1 DEF Replaying
    <3>4. ~q.running \/ q.sent >= packets
      BY <1>1, <3>1 DEF Completed, PortDone
    <3>5. ~q.held => q.left = 0
      BY <3>2, <3>3, <3>4
    <3>6. QED BY <3>1, <3>3, <3>5 DEF HandedOver
  <2>2. QED BY <1>3, <2>1
<1>4. CASE tool \in Checks
  <2>1. ASSUME Own \subseteq Seen \ lost, tool # "loopback" PROVE Seen = Own
    <3>1. Len(rx.got) = N
      BY <1>1, <1>4, <2>1, PassCounts
    <3>2. QED BY <2>1, <3>1, OnlyOwn
  <2>2. Cabled \in quiet => Own \subseteq Seen \ lost
    BY <1>1, <1>4, QuietPass
  <2>3. tool # "strict"
    BY <1>4 DEF Checks
  <2>4. QED BY <2>1, <2>2, <2>3
<1>5. QED BY <1>2, <1>3, <1>4

-----------------------------------------------------------------------------
(* The theorems.                                                           *)

\* The inductive invariant: what the ports, the armed ports, the tool that runs and its
\* counts are between any two accesses of any tool (start, sync-start, wait, verdicts).
THEOREM InvariantsHold == Spec => [](TypeOK /\ RunsSoFar /\ SyncInv /\ ToolInv /\ MeasureInv)
<1>1. Init => TypeOK /\ RunsSoFar /\ SyncInv /\ ToolInv /\ MeasureInv
  <2>1. SUFFICES ASSUME Init PROVE TypeOK /\ RunsSoFar /\ SyncInv /\ ToolInv /\ MeasureInv
    OBVIOUS
  <2>2. BoardTypeOK
    BY <2>1, BoardInitial DEF Init
  <2>3. /\ run = 0 /\ ports = {} /\ pc = "idle" /\ todo = {} /\ target = 0 /\ armed = NotArmed
        /\ quiet = Ports /\ outcome = ""
    BY <2>1, Zenon DEF Init
  <2>4. NotArmed \in [Ports -> Nat] /\ \A p \in Ports : NotArmed[p] = 0
    BY DEF NotArmed
  <2>5. ToolTypeOK
    BY <2>3, <2>4 DEF ToolTypeOK
  <2>6. RunsSoFar
    <3>1. \A p \in Ports : tx[p].run = 0
      BY <2>1 DEF Init, BoardInit, PowerOn
    <3>2. lost = {}
      BY <2>1 DEF Init, BoardInit
    <3>3. 0 <= 0
      OBVIOUS
    <3>4. QED BY <2>3, <3>1, <3>2, <3>3, Zenon DEF RunsSoFar
  <2>7. SyncInv
    BY <2>3, <2>4 DEF SyncInv
  <2>8. ToolInv /\ MeasureInv
    <3>1. tool = ""
      BY <2>1, Zenon DEF Init
    <3>2. QED BY <2>3, <3>1 DEF ToolInv, MeasureInv, Checks
  <2>9. QED BY <2>2, <2>5, <2>6, <2>7, <2>8 DEF TypeOK
<1>2. TypeOK /\ RunsSoFar /\ SyncInv /\ ToolInv /\ MeasureInv /\ [Next]_vars => (TypeOK /\ RunsSoFar /\ SyncInv /\ ToolInv /\ MeasureInv)'
  <2>1. SUFFICES ASSUME TypeOK, RunsSoFar, SyncInv, ToolInv, MeasureInv, [Next]_vars
                 PROVE  (TypeOK /\ RunsSoFar /\ SyncInv /\ ToolInv /\ MeasureInv)'
    OBVIOUS
  <2>2. CASE Next
    <3>1. BoardTypeOK' /\ RunsSoFar'
      BY <2>1, <2>2, BoardKept
    <3>2. ToolTypeOK' /\ SyncInv'
      BY <2>1, <2>2, ToolTypeKept, SyncKept
    <3>3. ToolInv' /\ MeasureInv'
      BY <2>1, <2>2, ToolKept, MeasureKept
    <3>4. QED BY <3>1, <3>2, <3>3 DEF TypeOK
  <2>3. CASE UNCHANGED vars
    <3>1. /\ UNCHANGED <<tick, tx, rx, ring, lost, run, tool, ports, quiet>>
          /\ UNCHANGED <<todo, target, armed, pc, outcome>>
      BY <2>3, Zenon DEF vars, board, plan, progress
    <3>2. TypeOK'
      BY <2>1, <3>1 DEF TypeOK, BoardTypeOK, ToolTypeOK
    <3>3. RunsSoFar'
      BY <2>1, <3>1 DEF RunsSoFar
    <3>4. SyncInv'
      BY <2>1, <3>1 DEF SyncInv, Aligned, Given
    <3>5. ToolInv'
      BY <2>1, <3>1 DEF ToolInv, Bare, Replaying
    <3>6. MeasureInv'
      BY <2>1, <3>1 DEF MeasureInv, Off, Fresh, Clean, Wiped
    <3>7. QED BY <3>2, <3>3, <3>4, <3>5, <3>6
  <2>4. QED BY <2>1, <2>2, <2>3
<1>3. QED BY <1>1, <1>2, PTL DEF Spec

\* The ports that sync-start has armed in time, before the tick they were given, begin
\* at that tick: SyncInv holds of every port, whatever it was doing at the launch, as far
\* as a start pulse is modelled.
THEOREM SyncStartAligns == Spec => []SyncAligned
<1>1. TypeOK /\ SyncInv => SyncAligned
  <2>1. SUFFICES ASSUME TypeOK, SyncInv, outcome = "armed", InTime, NEW p \in ports
                 PROVE  tx[p].first \in {0, target} /\ (tick > target => tx[p].first = target)
    BY DEF SyncAligned
  <2>2. p \in Ports /\ armed[p] # 0 /\ Aligned(p)
    BY <2>1 DEF TypeOK, ToolTypeOK, SyncInv
  <2>3. armed[p] + Warmup < target
    BY <2>1 DEF InTime
  <2>4. tick <= target \/ tick > target
    BY <2>1 DEF TypeOK, BoardTypeOK, ToolTypeOK
  <2>5. QED BY <2>2, <2>3, <2>4 DEF Aligned
<1>2. QED BY <1>1, InvariantsHold, PTL

\* A check that prints PASS is right, whatever the invocations before it left on the
\* board, and a strict test that passes has counted its own packets.
THEOREM VerdictIsTrue == Spec => PassIsTrue
<1>1. TypeOK /\ ToolInv /\ MeasureInv /\ [Next]_vars =>
        [(pc # "idle" /\ outcome' = "PASS") =>
           IF tool = "strict" THEN \A p \in ports : HandedOver(p)
           ELSE IF Own \subseteq Seen \ lost THEN tool # "loopback" => Seen = Own
           ELSE Cabled \notin quiet]_vars
  <2>1. SUFFICES ASSUME TypeOK, ToolInv, MeasureInv, Next, pc # "idle", outcome' = "PASS"
                 PROVE  IF tool = "strict" THEN \A p \in ports : HandedOver(p)
                        ELSE IF Own \subseteq Seen \ lost THEN tool # "loopback" => Seen = Own
                        ELSE Cabled \notin quiet
    OBVIOUS
  <2>2. outcome = ""
    BY <2>1 DEF TypeOK, ToolTypeOK
  <2>3. ~Launches /\ ~Command
    BY <2>1 DEF Launches, LaunchLoad, LaunchSync, LaunchInterval, LaunchSpacing,
                LaunchLoopback, LaunchStrict, Launch, Command, Invoke
  <2>4. ~(UNCHANGED outcome)
    BY <2>1, <2>2
  <2>5. Verdict
    <3>1. ~LoadConfigure /\ ~LoadStart /\ ~WaitTimeout /\ ~Abandoned
      BY <2>1, <2>4 DEF LoadConfigure, LoadStart, WaitTimeout, Abandoned, Continue, End
    <3>2. ~SyncEgress /\ ~SyncNow /\ ~SyncTarget /\ ~SyncArm /\ ~StopAndClear
      BY <2>1, <2>4 DEF SyncEgress, SyncNow, SyncTarget, SyncArm, StopAndClear
    <3>3. ~ZeroRing /\ ~RxOff /\ ~RxClear /\ ~RxOn /\ ~TxStop
      BY <2>4, Zenon DEF ZeroRing, RxOff, RxClear, RxOn, TxStop, Continue
    <3>4. ~TxConfigure /\ ~TxStart /\ ~Clock /\ ~AtRest
      BY <2>4, Zenon DEF TxConfigure, TxStart, Clock, AtRest, vars
    <3>5. QED BY <2>1, <2>3, <3>1, <3>2, <3>3, <3>4, Zenon DEF Next, Launches
  <2>6. QED BY <2>1, <2>5, VerdictRight
<1>2. QED BY <1>1, InvariantsHold, PTL DEF Spec, PassIsTrue
=============================================================================
