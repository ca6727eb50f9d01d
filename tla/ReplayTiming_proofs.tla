------------------------- MODULE ReplayTiming_proofs -------------------------
(* Theorems about the way of a packet from the capture to the wire, at its   *)
(* two ends.  TraceFiles: for every source, tick rate and kill, the gaps of  *)
(* a stream never add up to more than half a tick off, and a finished block  *)
(* list tells where each of its records is.  ReplayScheduler: for every      *)
(* depth, set of gaps and settings it keeps order, is never early and marks  *)
(* late packets exactly.                                                     *)
EXTENDS ReplayScheduler, TraceFiles, ModLemmas, SequenceTheorems

-----------------------------------------------------------------------------
(* The scheduler.                                                          *)

\* A clock without a start or a clear.
RunClock(enable, gap, pkt_ready) ==
    LET meta_fire == gap # NoMeta /\ s_meta_ready(FALSE)
    IN  /\ HistoryClock(meta_fire, gap, pkt_ready, FALSE)
        /\ TimeClock(enable)
        /\ EntryClock(meta_fire, gap)
        /\ QueueClock(pkt_ready)
        /\ OutClock(pkt_ready)

RestartClock(gap, pkt_ready) ==
    /\ Flushed
    /\ \E meta_fire \in BOOLEAN : HistoryClock(meta_fire, gap, pkt_ready, TRUE)

\* The bounds are numbers.
LEMMA Bounds ==
    /\ PKT_FIFO_DEPTH \in Nat \ {0} /\ MaxAdvance \in Nat \ {0}
    /\ MaxTarget \in Nat /\ MaxTicks \in Nat /\ MaxTarget + 3 < MaxTicks
    /\ Gaps \subseteq Nat
    /\ \A c \in Configs : c.start_time \in Nat
  BY SchedulerAssumption

\* The places a record can be in, added up.
LEMMA HeldSum ==
    ASSUME delivered \in Nat, accepted \in Nat, Len(mem) \in Nat,
           accepted = LastStored + Held(meta_stage)
    PROVE  total_count = accepted - delivered
<1>1. PICK d \in Nat, a \in Nat, n \in Nat : d = delivered /\ a = accepted /\ n = Len(mem)
  OBVIOUS
<1>2. PICK h1 \in Nat, h2 \in Nat, h3 \in Nat, h4 \in Nat :
        h1 = Held(out) /\ h2 = Held(head) /\ h3 = Held(prefetch) /\ h4 = Held(meta_stage)
  <2>1. \A x : Held(x) \in Nat
    BY DEF Held
  <2>2. QED BY <2>1
<1>3. a = d + h1 + h2 + h3 + n + h4
  BY <1>1, <1>2 DEF LastStored, LastPrefetched, LastHead, LastOut
<1>4. n + h4 + h3 + h2 + h1 = a - d
  BY <1>3
<1>5. QED BY <1>1, <1>2, <1>4 DEF total_count

\* A step is one of these two clocks in some surroundings.
LEMMA TwoClocks ==
    ASSUME SchedulerNext
    PROVE  \E enable, pkt_ready \in BOOLEAN, command \in {"none", "start", "clear"},
              gap \in Gaps \cup {NoMeta} :
             /\ Surroundings(command, gap)
             /\ \/ command = "none" /\ RunClock(enable, gap, pkt_ready)
                \/ RestartClock(gap, pkt_ready)
<1>1. PICK enable \in BOOLEAN, pkt_ready \in BOOLEAN, command \in {"none", "start", "clear"},
           gap \in Gaps \cup {NoMeta} :
             Surroundings(command, gap) /\ SchedulerClock(enable, command, gap, pkt_ready)
  BY DEF SchedulerNext
<1> DEFINE meta_fire == gap # NoMeta /\ s_meta_ready(command = "clear")
<1>2. meta_fire \in BOOLEAN
  BY DEF s_meta_ready
<1>3. CASE command = "none"
  <2>1. RunClock(enable, gap, pkt_ready)
    BY <1>1, <1>3 DEF SchedulerClock, RunClock
  <2>2. QED BY <1>1, <1>3, <2>1
<1>4. CASE command # "none"
  <2>1. Flushed /\ HistoryClock(meta_fire, gap, pkt_ready, TRUE)
    BY <1>1, <1>4 DEF SchedulerClock
  <2>2. RestartClock(gap, pkt_ready)
    BY <1>2, <2>1 DEF RestartClock
  <2>3. QED BY <1>1, <2>2
<1>5. QED BY <1>3, <1>4

\* What the surroundings do to the settings, the shared time and the input.
LEMMA SurroundingFacts ==
    ASSUME TypeOK, NEW command, NEW gap \in Gaps \cup {NoMeta}, Surroundings(command, gap)
    PROVE  /\ cfg' \in Configs /\ global_ticks' \in 0..MaxTicks /\ global_ticks <= global_ticks'
           /\ command = "none" => cfg' = cfg
           /\ gap # NoMeta => gap \in Nat /\ push_target(gap) \in 0..MaxTarget /\ Asked(gap) \in Nat
<1>1. PICK advance \in Nat :
        global_ticks' = IF global_ticks + advance <= MaxTicks THEN global_ticks + advance ELSE MaxTicks
  <2>1. \A n \in 0..(IF cfg.sync THEN MaxAdvance ELSE 0) : n \in Nat
    OBVIOUS
  <2>2. QED BY <2>1 DEF Surroundings
<1>2. global_ticks' \in 0..MaxTicks /\ global_ticks <= global_ticks'
  BY <1>1, Bounds DEF TypeOK
<1>3. cfg' \in Configs /\ (command = "none" => cfg' = cfg)
  BY DEF Surroundings, TypeOK
<1>4. ASSUME gap # NoMeta
      PROVE  gap \in Nat /\ push_target(gap) \in 0..MaxTarget /\ Asked(gap) \in Nat
  <2>1. gap \in Nat /\ cfg.start_time \in Nat /\ target_accum \in Nat /\ global_ticks \in Nat
    BY <1>4, Bounds DEF TypeOK
  <2>2. push_target(gap) \in Nat /\ push_target(gap) <= MaxTarget
    BY <1>4, <2>1 DEF Surroundings, push_target
  <2>3. Asked(gap) \in Nat
    BY <2>1 DEF TypeOK, Asked, NoneAsked
  <2>4. QED BY <2>1, <2>2, <2>3, Bounds
<1>5. QED BY <1>2, <1>3, <1>4

\* A restart leaves an empty scheduler: the invariant's parts hold of it at once.
LEMMA RestartKeeps ==
    ASSUME SchedulerInv, NEW command, NEW gap \in Gaps \cup {NoMeta}, NEW pkt_ready \in BOOLEAN,
           Surroundings(command, gap), RestartClock(gap, pkt_ready)
    PROVE  SchedulerInv'
<1>1. PICK meta_fire \in BOOLEAN : HistoryClock(meta_fire, gap, pkt_ready, TRUE)
  BY DEF RestartClock
<1>2. PICK in \in Nat : accepted' = in /\ delivered' = in
  <2>1. accepted' = accepted + Bit(meta_fire) /\ delivered' = accepted'
    BY <1>1 DEF HistoryClock
  <2>2. accepted + Bit(meta_fire) \in Nat
    BY DEF SchedulerInv, TypeOK, Bit
  <2>3. QED BY <2>1, <2>2
<1>12. elapsed' = 0 /\ asked' = NoneAsked /\ steady' = 0
  BY <1>1 DEF HistoryClock
<1>3. Flushed
  BY DEF RestartClock
<1>4. cfg' \in Configs /\ global_ticks' \in 0..MaxTicks
  BY SurroundingFacts DEF SchedulerInv
<1>5. NoRecord \in Records /\ <<>> \in Seq(Records) /\ NoRecord.rec = 0 /\ NoRecord.target = 0
  BY DEF NoRecord, Records
<1>6. TypeOK'
  <2>6. relative_ticks' = 0 /\ target_accum' = 0 /\ enable_q' = FALSE /\ first_pkt' = TRUE
    BY <1>3 DEF Flushed
  <2>1. relative_ticks' \in 0..MaxTicks /\ target_accum' \in Nat
    BY <2>6, Bounds
  <2>7. enable_q' \in BOOLEAN /\ first_pkt' \in BOOLEAN
    BY <2>6
  <2>5. mem' \in Seq(Records)
    BY <1>3, <1>5 DEF Flushed
  <2>2. /\ meta_stage' \in Records /\ prefetch' \in Records /\ head' \in Records
        /\ out' \in Records
        /\ head_due_q' \in BOOLEAN /\ head_late_q' \in BOOLEAN
        /\ out_late' \in BOOLEAN /\ late_pulse' \in BOOLEAN
    BY <1>3, <1>5 DEF Flushed
  <2>3. elapsed' \in Nat /\ asked' \in Nat \cup {NoneAsked} /\ steady' \in 0..2
    BY <1>12
  <2>4. QED BY <1>2, <1>4, <1>12, <2>1, <2>2, <2>3, <2>5, <2>7 DEF TypeOK
<1>7. /\ Len(mem') = 0 /\ mem' = <<>>
      /\ out'.rec = 0 /\ head'.rec = 0 /\ prefetch'.rec = 0 /\ meta_stage'.rec = 0
  BY <1>3, <1>5 DEF Flushed
<1>8. InOrder'
  <2>1. ~Valid(out)' /\ ~Valid(head)' /\ ~Valid(prefetch)' /\ ~Valid(meta_stage)'
    BY <1>7 DEF Valid
  <2>2. \A i \in (1..Len(mem))' : FALSE
    BY <1>7
  <2>6. LastStored' = accepted'
    BY <1>2, <1>7 DEF LastOut, LastHead, LastPrefetched, LastStored, Held
  <2>3. total_count' = 0
    BY <1>7 DEF total_count, Held
  <2>7. accepted' = LastStored' + Held(meta_stage')
    BY <1>2, <1>7, <2>6 DEF Held
  <2>8. total_count' <= PKT_FIFO_DEPTH
    BY <2>3, Bounds
  <2>4. QED BY <2>1, <2>2, <2>7, <2>8 DEF InOrder
<1>9. TargetsBounded'
  BY <1>3, <1>5, <1>7, Bounds DEF TargetsBounded, Flushed
<1>11. DueBitsInTime' /\ NeverEarly'
  BY <1>3, <1>7 DEF DueBitsInTime, NeverEarly, Flushed, Valid
<1>10. QED BY <1>6, <1>8, <1>9, <1>11 DEF SchedulerInv

\* The counters of the invariant are numbers.
LEMMA Amounts ==
    ASSUME TypeOK
    PROVE  /\ delivered \in Nat /\ accepted \in Nat /\ Len(mem) \in Nat
           /\ out.rec \in Nat /\ head.rec \in Nat /\ prefetch.rec \in Nat /\ meta_stage.rec \in Nat
           /\ LastOut \in Nat /\ LastHead \in Nat /\ LastPrefetched \in Nat /\ LastStored \in Nat
<1>1. /\ delivered \in Nat /\ accepted \in Nat /\ Len(mem) \in Nat
      /\ out.rec \in Nat /\ head.rec \in Nat /\ prefetch.rec \in Nat /\ meta_stage.rec \in Nat
  BY DEF TypeOK, Records
<1>2. LastOut \in Nat
  BY <1>1 DEF LastOut, Held
<1>3. LastHead \in Nat
  BY <1>1, <1>2 DEF LastHead, Held
<1>4. LastPrefetched \in Nat
  BY <1>1, <1>3 DEF LastPrefetched, Held
<1>5. LastStored \in Nat
  BY <1>1, <1>4 DEF LastStored
<1>6. QED BY <1>1, <1>2, <1>3, <1>4, <1>5

\* The output register: a load takes the head's record on, a packet that leaves
\* is the next one.
LEMMA OutMoves ==
    ASSUME SchedulerInv, NEW gap, NEW pkt_ready \in BOOLEAN, NEW meta_fire \in BOOLEAN,
           HistoryClock(meta_fire, gap, pkt_ready, FALSE), OutClock(pkt_ready)
    PROVE  /\ LastOut' = IF load_fire(pkt_ready) THEN LastHead ELSE LastOut
           /\ Valid(out') => out'.rec = LastOut'
           /\ delivered' = IF pkt_fire(pkt_ready) THEN LastOut ELSE delivered
           /\ load_fire(pkt_ready) => Valid(head)
           /\ pkt_fire(pkt_ready) => Valid(out)
<1>1. /\ delivered \in Nat /\ out.rec \in Nat /\ head.rec \in Nat
      /\ LastOut \in Nat /\ LastHead \in Nat
  BY Amounts DEF SchedulerInv
<1>2. /\ pkt_fire(pkt_ready) => Valid(out)
      /\ load_fire(pkt_ready) => Valid(head) /\ (~Valid(out) \/ pkt_fire(pkt_ready))
  BY DEF pkt_fire, m_pkt_valid, load_fire, out_can_load
<1>3. /\ Valid(out) => out.rec = LastOut
      /\ Valid(head) => head.rec = LastHead
  BY DEF SchedulerInv, InOrder
<1>4. delivered' = IF pkt_fire(pkt_ready) THEN LastOut ELSE delivered
  BY <1>2, <1>3 DEF HistoryClock
<1>5. CASE load_fire(pkt_ready)
  <2>1. out' = head /\ Valid(head)
    BY <1>2, <1>5 DEF OutClock
  <2>2. delivered' = LastOut
    BY <1>1, <1>2, <1>4, <1>5 DEF LastOut, Held, Valid
  <2>3. LastHead = LastOut + 1
    BY <2>1 DEF LastHead, Held, Valid
  <2>4. LastOut' = LastOut + 1
    BY <2>1, <2>2 DEF LastOut, Held, Valid
  <2>5. QED BY <1>2, <1>3, <1>4, <1>5, <2>1, <2>3, <2>4
<1>6. CASE ~load_fire(pkt_ready)
  <2>1. CASE pkt_fire(pkt_ready)
    <3>1. out' = NoRecord /\ delivered' = LastOut
      BY <1>4, <1>6, <2>1 DEF OutClock
    <3>2. out'.rec = 0
      BY <3>1 DEF NoRecord
    <3>3. LastOut' = LastOut
      BY <1>1, <3>1, <3>2 DEF LastOut, Held
    <3>4. QED BY <1>2, <1>4, <1>6, <3>2, <3>3 DEF Valid
  <2>2. CASE ~pkt_fire(pkt_ready)
    <3>1. out' = out /\ delivered' = delivered
      BY <1>4, <1>6, <2>2 DEF OutClock
    <3>2. LastOut' = LastOut
      BY <3>1 DEF LastOut, Held
    <3>3. QED BY <1>2, <1>3, <1>4, <1>6, <3>1, <3>2
  <2>3. QED BY <2>1, <2>2
<1>7. QED BY <1>5, <1>6

\* The head and the prefetch register: each takes the next record, or keeps or
\* hands on its own.
LEMMA QueueMoves ==
    ASSUME SchedulerInv, NEW gap, NEW pkt_ready \in BOOLEAN, NEW meta_fire \in BOOLEAN,
           HistoryClock(meta_fire, gap, pkt_ready, FALSE), OutClock(pkt_ready),
           QueueClock(pkt_ready)
    PROVE  /\ LastHead' = IF prefetch_to_head(pkt_ready) THEN LastPrefetched ELSE LastHead
           /\ Valid(head') => head'.rec = LastHead'
           /\ LastPrefetched' = IF mem_read_issue(pkt_ready) THEN LastPrefetched + 1
                                                             ELSE LastPrefetched
           /\ Valid(prefetch') => prefetch'.rec = LastPrefetched'
<1>1. /\ head.rec \in Nat /\ prefetch.rec \in Nat /\ Len(mem) \in Nat
      /\ LastOut \in Nat /\ LastHead \in Nat /\ LastPrefetched \in Nat
  BY Amounts DEF SchedulerInv
<1> DEFINE load == load_fire(pkt_ready)
           take == prefetch_to_head(pkt_ready)
           read == mem_read_issue(pkt_ready)
<1>2. LastOut' = IF load THEN LastHead ELSE LastOut
  BY OutMoves
<1>3. load => Valid(head)
  BY OutMoves
<1>4. /\ Valid(head) => head.rec = LastHead
      /\ Valid(prefetch) => prefetch.rec = LastPrefetched
      /\ \A i \in 1..Len(mem) : mem[i].rec = LastPrefetched + i
  BY DEF SchedulerInv, InOrder
<1>5. /\ head' = IF take THEN prefetch ELSE IF load THEN NoRecord ELSE head
      /\ prefetch' = IF read THEN mem[1] ELSE IF take THEN NoRecord ELSE prefetch
  BY DEF QueueClock
<1>6. take => Valid(prefetch) /\ (~Valid(head) \/ load)
  BY DEF prefetch_to_head
<1>7. read => mem # <<>> /\ (~Valid(prefetch) \/ take)
  BY DEF mem_read_issue
<1>8. NoRecord.rec = 0
  BY DEF NoRecord
<1> HIDE DEF load, take, read
<1>9. LastHead' = IF take THEN LastPrefetched ELSE LastHead
  <2>1. CASE take
    <3>1. head' = prefetch /\ Valid(prefetch)
      BY <1>5, <1>6, <2>1
    <3>2. LastOut' = LastHead
      BY <1>1, <1>2, <1>6, <2>1 DEF LastHead, Held, Valid
    <3>3. QED BY <2>1, <3>1, <3>2 DEF LastHead, LastPrefetched, Held, Valid
  <2>2. CASE ~take /\ load
    <3>1. head'.rec = 0 /\ LastOut' = LastHead
      BY <1>2, <1>5, <1>8, <2>2
    <3>2. QED BY <1>1, <2>2, <3>1 DEF LastHead, Held
  <2>3. CASE ~take /\ ~load
    <3>1. head' = head /\ LastOut' = LastOut
      BY <1>2, <1>5, <2>3
    <3>2. QED BY <2>3, <3>1 DEF LastHead, Held
  <2>4. QED BY <2>1, <2>2, <2>3
<1>10. Valid(head') => head'.rec = LastHead'
  BY <1>4, <1>5, <1>6, <1>8, <1>9 DEF Valid
<1>11. read => prefetch' = mem[1] /\ mem[1].rec = LastPrefetched + 1
  BY <1>1, <1>4, <1>5, <1>7 DEF SchedulerInv, TypeOK
<1>12. LastPrefetched' = IF read THEN LastPrefetched + 1 ELSE LastPrefetched
  <2>1. CASE read
    <3>1. LastHead' = LastPrefetched
      BY <1>1, <1>7, <1>9, <2>1 DEF LastPrefetched, Held, Valid
    <3>2. prefetch'.rec # 0
      BY <1>1, <1>11, <2>1
    <3>3. QED BY <2>1, <3>1, <3>2 DEF LastPrefetched, Held
  <2>2. CASE ~read /\ take
    <3>1. prefetch'.rec = 0 /\ LastHead' = LastPrefetched
      BY <1>5, <1>8, <1>9, <2>2
    <3>2. QED BY <1>1, <2>2, <3>1 DEF LastPrefetched, Held
  <2>3. CASE ~read /\ ~take
    <3>1. prefetch' = prefetch /\ LastHead' = LastHead
      BY <1>5, <1>9, <2>3
    <3>2. QED BY <2>3, <3>1 DEF LastPrefetched, Held
  <2>4. QED BY <2>1, <2>2, <2>3
<1>13. Valid(prefetch') => prefetch'.rec = LastPrefetched'
  BY <1>4, <1>5, <1>8, <1>11, <1>12 DEF Valid
<1>14. QED BY <1>9, <1>10, <1>12, <1>13 DEF take, read

\* The block RAM: what is read goes, what the stage register held comes last.
LEMMA MemMoves ==
    ASSUME TypeOK, NEW pkt_ready \in BOOLEAN, QueueClock(pkt_ready),
           NEW shift, shift = (IF mem_read_issue(pkt_ready) THEN 1 ELSE 0)
    PROVE  /\ mem' \in Seq(Records)
           /\ Len(mem') = Len(mem) - shift + Held(meta_stage)
           /\ \A i \in 1..Len(mem') :
                mem'[i] = IF i <= Len(mem) - shift THEN mem[i + shift] ELSE meta_stage
           /\ shift = 1 => Len(mem) > 0 /\ mem[1] \in Records
<1>1. mem \in Seq(Records) /\ meta_stage \in Records
  BY DEF TypeOK
<1>2. Len(mem) \in Nat /\ (shift = 1 => Len(mem) > 0 /\ mem[1] \in Records) /\ shift \in {0, 1}
  BY <1>1 DEF mem_read_issue
<1>3. PICK rest \in Seq(Records) :
        rest = IF mem_read_issue(pkt_ready) THEN Tail(mem) ELSE mem
  <2>1. CASE mem_read_issue(pkt_ready)
    <3>1. mem # <<>>
      BY <2>1 DEF mem_read_issue
    <3>2. Tail(mem) \in Seq(Records)
      BY <1>1, <3>1
    <3>3. QED BY <2>1, <3>2
  <2>2. CASE ~mem_read_issue(pkt_ready)
    BY <1>1, <2>2
  <2>3. QED BY <2>1, <2>2
<1>4. Len(rest) = Len(mem) - shift /\ \A i \in 1..Len(rest) : rest[i] = mem[i + shift]
  <2>1. CASE mem_read_issue(pkt_ready)
    BY <1>1, <1>2, <1>3, <2>1
  <2>2. CASE ~mem_read_issue(pkt_ready)
    BY <1>1, <1>2, <1>3, <2>2
  <2>3. QED BY <2>1, <2>2
<1>5. CASE Valid(meta_stage)
  <2>1. mem' = Append(rest, meta_stage) /\ Held(meta_stage) = 1
    BY <1>3, <1>5 DEF QueueClock, MemAfter, Held, Valid
  <2>2. PICK t : t = Append(rest, meta_stage)
    OBVIOUS
  <2>3. t \in Seq(Records) /\ Len(t) = Len(rest) + 1
    BY <1>1, <2>2
  <2>4. \A i \in 1..Len(t) : t[i] = IF i <= Len(rest) THEN rest[i] ELSE meta_stage
    BY <1>1, <2>2
  <2>5. \A i \in 1..Len(t) : t[i] = IF i <= Len(mem) - shift THEN mem[i + shift] ELSE meta_stage
    BY <1>2, <1>4, <2>3, <2>4
  <2>6. mem' = t
    BY <2>1, <2>2
  <2>7. QED BY <1>2, <1>4, <2>1, <2>3, <2>5, <2>6
<1>6. CASE ~Valid(meta_stage)
  <2>1. mem' = rest /\ Held(meta_stage) = 0
    BY <1>3, <1>6 DEF QueueClock, MemAfter, Held, Valid
  <2>2. QED BY <1>2, <1>3, <1>4, <2>1
<1>7. QED BY <1>5, <1>6

\* The order of the records, and how many there are.
LEMMA OrderKept ==
    ASSUME SchedulerInv, NEW enable, NEW gap \in Gaps \cup {NoMeta}, NEW pkt_ready \in BOOLEAN,
           RunClock(enable, gap, pkt_ready)
    PROVE  InOrder'
<1> DEFINE meta_fire == gap # NoMeta /\ s_meta_ready(FALSE)
<1>1. /\ HistoryClock(meta_fire, gap, pkt_ready, FALSE) /\ EntryClock(meta_fire, gap)
      /\ QueueClock(pkt_ready) /\ OutClock(pkt_ready)
  BY DEF RunClock
<1>2. meta_fire \in BOOLEAN /\ (meta_fire => total_count < PKT_FIFO_DEPTH)
  BY DEF s_meta_ready
<1> HIDE DEF meta_fire
<1>3. /\ delivered \in Nat /\ accepted \in Nat /\ Len(mem) \in Nat
      /\ meta_stage.rec \in Nat /\ LastOut \in Nat /\ LastPrefetched \in Nat
      /\ LastStored \in Nat /\ LastHead \in Nat
  BY Amounts DEF SchedulerInv
<1>4. PICK shift \in {0, 1} : shift = IF mem_read_issue(pkt_ready) THEN 1 ELSE 0
  OBVIOUS
<1>5. LastPrefetched' = LastPrefetched + shift
  <2>1. LastPrefetched' = IF mem_read_issue(pkt_ready) THEN LastPrefetched + 1 ELSE LastPrefetched
    BY <1>1, <1>2, QueueMoves
  <2>2. LastPrefetched + 0 = LastPrefetched
    BY <1>3
  <2>3. QED BY <1>4, <2>1, <2>2
<1>6. /\ Len(mem') = Len(mem) - shift + Held(meta_stage)
      /\ \A i \in 1..Len(mem') :
            mem'[i] = IF i <= Len(mem) - shift THEN mem[i + shift] ELSE meta_stage
      /\ shift = 1 => Len(mem) > 0
  BY <1>1, <1>4, MemMoves DEF SchedulerInv
<1>7. /\ \A i \in 1..Len(mem) : mem[i].rec = LastPrefetched + i
      /\ Valid(meta_stage) => meta_stage.rec = accepted
      /\ accepted = LastStored + Held(meta_stage)
      /\ total_count <= PKT_FIFO_DEPTH
  BY DEF SchedulerInv, InOrder
<1>8. LastStored' = accepted
  <2>1. LastStored' = LastPrefetched + shift + (Len(mem) - shift + Held(meta_stage))
    BY <1>5, <1>6 DEF LastStored
  <2>2. LastPrefetched + shift + (Len(mem) - shift + Held(meta_stage)) = accepted
    <3>1. Held(meta_stage) \in {0, 1}
      BY DEF Held
    <3>2. accepted = LastPrefetched + Len(mem) + Held(meta_stage)
      BY <1>7 DEF LastStored
    <3>3. QED BY <1>3, <1>4, <3>1, <3>2
  <2>3. QED BY <2>1, <2>2
<1>9. ASSUME NEW i \in 1..Len(mem')
      PROVE  mem'[i].rec = LastPrefetched' + i
  <2>0. PICK len \in Nat : Len(mem') = len /\ len = Len(mem) - shift + Held(meta_stage)
    <3>1. Len(mem) - shift + Held(meta_stage) \in Nat
      BY <1>3, <1>6 DEF Held
    <3>2. QED BY <1>6, <3>1
  <2>1. CASE i <= Len(mem) - shift
    <3>1. mem'[i] = mem[i + shift] /\ i + shift \in 1..Len(mem) /\ i \in Nat
      BY <1>3, <1>6, <2>0, <2>1
    <3>2. mem'[i].rec = LastPrefetched + (i + shift)
      BY <1>7, <3>1
    <3>3. QED BY <1>3, <1>5, <3>1, <3>2
  <2>2. CASE ~(i <= Len(mem) - shift)
    <3>1. mem'[i] = meta_stage /\ Held(meta_stage) = 1 /\ i = Len(mem) - shift + 1
      BY <1>3, <1>6, <2>0, <2>2 DEF Held
    <3>2. mem'[i].rec = LastStored + 1
      BY <1>7, <3>1 DEF Held, Valid
    <3>3. QED BY <1>3, <1>5, <3>1, <3>2 DEF LastStored
  <2>3. QED BY <2>1, <2>2
<1>10. accepted' = accepted + Held(meta_stage') /\ (Valid(meta_stage') => meta_stage'.rec = accepted')
  <2>1. CASE meta_fire
    <3>1. accepted' = accepted + 1 /\ meta_stage'.rec = accepted + 1
      BY <1>1, <2>1 DEF HistoryClock, EntryClock, Bit
    <3>2. QED BY <1>3, <3>1 DEF Held
  <2>2. CASE ~meta_fire
    <3>1. accepted' = accepted + 0 /\ meta_stage'.rec = 0
      BY <1>1, <2>2 DEF HistoryClock, EntryClock, Bit, NoRecord
    <3>2. QED BY <3>1 DEF Held, Valid
  <2>3. QED BY <2>1, <2>2
<1>11. total_count' <= PKT_FIFO_DEPTH
  <2>1. total_count = accepted - delivered
    BY <1>3, <1>7, HeldSum
  <2>2. PICK gone \in {0, 1} : delivered' = delivered + gone
    <3>1. delivered' = IF pkt_fire(pkt_ready) THEN LastOut ELSE delivered
      BY <1>1, <1>2, OutMoves
    <3>2. LastOut = delivered \/ LastOut = delivered + 1
      BY <1>3 DEF LastOut, Held
    <3>3. delivered' = delivered + 0 \/ delivered' = delivered + 1
      BY <1>3, <3>1, <3>2
    <3>4. QED BY <3>3
  <2>3. PICK come \in {0, 1} : accepted' = accepted + come /\ (come = 1 => meta_fire)
    <3>1. CASE meta_fire
      BY <1>1, <3>1 DEF HistoryClock, Bit
    <3>2. CASE ~meta_fire
      BY <1>1, <3>2 DEF HistoryClock, Bit
    <3>3. QED BY <3>1, <3>2
  <2>7. Len(mem') \in Nat
    <3>1. Len(mem) - shift + Held(meta_stage) \in Nat
      BY <1>3, <1>6 DEF Held
    <3>2. QED BY <1>6, <3>1
  <2>4. total_count' = accepted' - delivered'
    <3>1. /\ total_count' = Len(mem') + Held(meta_stage') + Held(prefetch') + Held(head') + Held(out')
          /\ LastStored' = delivered' + Held(out') + Held(head') + Held(prefetch') + Len(mem')
      BY DEF total_count, LastStored, LastPrefetched, LastHead, LastOut
    <3>2. PICK a \in {0, 1}, b \in {0, 1}, c \in {0, 1}, d \in {0, 1} :
            /\ Held(out') = a /\ Held(head') = b /\ Held(prefetch') = c /\ Held(meta_stage') = d
      BY DEF Held
    <3>4. PICK len \in Nat : Len(mem') = len
      BY <2>7
    <3>5. PICK n \in Nat, m \in Nat : accepted' = n /\ delivered' = m
      BY <1>3, <2>2, <2>3
    <3>6. n = m + a + b + c + len + d
      <4>1. accepted' = LastStored' + Held(meta_stage')
        BY <1>8, <1>10
      <4>2. QED BY <3>1, <3>2, <3>4, <3>5, <4>1
    <3>7. total_count' = len + d + c + b + a
      BY <3>1, <3>2, <3>4
    <3>8. QED BY <3>5, <3>6, <3>7
  <2>5. total_count' = total_count + come - gone
    BY <1>3, <2>1, <2>2, <2>3, <2>4
  <2>6. total_count \in Int /\ (come = 1 => total_count < PKT_FIFO_DEPTH) /\ PKT_FIFO_DEPTH \in Int
    BY <1>2, <1>3, <2>1, <2>3, Bounds
  <2>8. QED BY <1>7, <2>2, <2>3, <2>5, <2>6
<1>12. /\ Valid(out') => out'.rec = LastOut'
       /\ Valid(head') => head'.rec = LastHead'
       /\ Valid(prefetch') => prefetch'.rec = LastPrefetched'
  BY <1>1, <1>2, OutMoves, QueueMoves
<1>13. accepted' = LastStored' + Held(meta_stage')
  BY <1>8, <1>10
<1>14. QED BY <1>9, <1>10, <1>11, <1>12, <1>13 DEF InOrder

\* The types, and the bound on the targets, after a clock.
LEMMA TypesKept ==
    ASSUME SchedulerInv, NEW enable \in BOOLEAN, NEW gap \in Gaps \cup {NoMeta},
           NEW pkt_ready \in BOOLEAN, Surroundings("none", gap), RunClock(enable, gap, pkt_ready)
    PROVE  TypeOK' /\ TargetsBounded'
<1> DEFINE meta_fire == gap # NoMeta /\ s_meta_ready(FALSE)
<1>1. /\ HistoryClock(meta_fire, gap, pkt_ready, FALSE) /\ EntryClock(meta_fire, gap)
      /\ QueueClock(pkt_ready) /\ OutClock(pkt_ready) /\ TimeClock(enable)
  BY DEF RunClock
<1>2. meta_fire \in BOOLEAN /\ (meta_fire => gap # NoMeta)
  BY DEF s_meta_ready
<1> HIDE DEF meta_fire
<1>3. TypeOK /\ TargetsBounded
  BY DEF SchedulerInv
<1>4. /\ cfg' \in Configs /\ global_ticks' \in 0..MaxTicks
      /\ meta_fire => push_target(gap) \in 0..MaxTarget /\ Asked(gap) \in Nat
  BY <1>2, <1>3, SurroundingFacts
<1>5. NoRecord \in Records /\ NoRecord.target = 0
  BY DEF NoRecord, Records
<1>6. /\ target_accum' \in Nat /\ first_pkt' \in BOOLEAN
      /\ meta_stage' \in Records /\ meta_stage'.target <= MaxTarget
  <2>1. CASE meta_fire
    <3>1. accepted + 1 \in Nat /\ push_target(gap) \in Nat /\ push_target(gap) <= MaxTarget
      BY <1>3, <1>4, <2>1, Bounds DEF TypeOK
    <3>2. /\ target_accum' = push_target(gap) /\ first_pkt' = FALSE
          /\ meta_stage' = [rec |-> accepted + 1, target |-> push_target(gap), asked |-> Asked(gap)]
      BY <1>1, <2>1 DEF EntryClock
    <3>3. QED BY <1>4, <2>1, <3>1, <3>2 DEF Records
  <2>2. CASE ~meta_fire
    <3>1. target_accum' = target_accum /\ first_pkt' = first_pkt /\ meta_stage' = NoRecord
      BY <1>1, <2>2 DEF EntryClock, targets
    <3>2. QED BY <1>3, <1>5, <3>1, Bounds DEF TypeOK
  <2>3. QED BY <2>1, <2>2
<1>7. PICK shift \in {0, 1} : shift = IF mem_read_issue(pkt_ready) THEN 1 ELSE 0
  OBVIOUS
<1>8. /\ mem' \in Seq(Records)
      /\ Len(mem') = Len(mem) - shift + Held(meta_stage)
      /\ \A i \in 1..Len(mem') :
            mem'[i] = IF i <= Len(mem) - shift THEN mem[i + shift] ELSE meta_stage
      /\ shift = 1 => Len(mem) > 0 /\ mem[1] \in Records
  BY <1>1, <1>3, <1>7, MemMoves
<1>9. ASSUME NEW i \in 1..Len(mem') PROVE mem'[i].target <= MaxTarget
  <2>1. Len(mem) \in Nat /\ i \in Nat /\ i > 0
    BY <1>3, <1>8 DEF TypeOK
  <2>2. CASE i <= Len(mem) - shift
    <3>1. i + shift \in 1..Len(mem) /\ mem'[i] = mem[i + shift]
      BY <1>8, <2>1, <2>2
    <3>2. QED BY <1>3, <3>1 DEF TargetsBounded
  <2>3. CASE ~(i <= Len(mem) - shift)
    BY <1>3, <1>8, <2>3 DEF TargetsBounded
  <2>4. QED BY <2>2, <2>3
<1>10. mem_read_issue(pkt_ready) => mem[1] \in Records /\ mem[1].target <= MaxTarget
  <2>1. Len(mem) \in Nat
    BY <1>3 DEF TypeOK
  <2>2. QED BY <1>3, <1>7, <1>8, <2>1 DEF TargetsBounded
<1>11. /\ prefetch' = IF mem_read_issue(pkt_ready) THEN mem[1]
                      ELSE IF prefetch_to_head(pkt_ready) THEN NoRecord ELSE prefetch
       /\ head' = IF prefetch_to_head(pkt_ready) THEN prefetch
                  ELSE IF load_fire(pkt_ready) THEN NoRecord ELSE head
       /\ out' = IF load_fire(pkt_ready) THEN head
                 ELSE IF pkt_fire(pkt_ready) THEN NoRecord ELSE out
  BY <1>1 DEF QueueClock, OutClock
<1>12. prefetch' \in Records /\ head' \in Records /\ out' \in Records
  BY <1>3, <1>5, <1>10, <1>11 DEF TypeOK
<1>13. NoRecord.target <= MaxTarget
  BY <1>5, Bounds
<1>14. prefetch'.target <= MaxTarget
  BY <1>3, <1>10, <1>11, <1>13 DEF TargetsBounded
<1>15. head'.target <= MaxTarget
  BY <1>3, <1>11, <1>13 DEF TargetsBounded
<1>16. out'.target <= MaxTarget
  BY <1>3, <1>11, <1>13 DEF TargetsBounded
<1>17. head_due_q' \in BOOLEAN /\ head_late_q' \in BOOLEAN /\ late_pulse' \in BOOLEAN
  BY <1>1 DEF QueueClock, OutClock
<1>18. out_late' \in BOOLEAN
  BY <1>1, <1>3 DEF OutClock, TypeOK
<1>19. enable_q' \in BOOLEAN
  BY <1>1 DEF TimeClock
<1>20. relative_ticks' \in 0..MaxTicks
  <2>1. \/ relative_ticks' = relative_ticks
        \/ relative_ticks' = relative_ticks + 1 /\ relative_ticks < MaxTicks
    BY <1>1 DEF TimeClock
  <2>2. relative_ticks \in 0..MaxTicks
    BY <1>3 DEF TypeOK
  <2>3. QED BY <2>1, <2>2, Bounds
<1>21. accepted' \in Nat
  <2>1. accepted' = accepted + Bit(meta_fire)
    BY <1>1 DEF HistoryClock
  <2>2. accepted + Bit(meta_fire) \in Nat
    BY <1>3 DEF TypeOK, Bit
  <2>3. QED BY <2>1, <2>2
<1>22. delivered' \in Nat
  <2>1. delivered' = IF pkt_fire(pkt_ready) THEN out.rec ELSE delivered
    BY <1>1 DEF HistoryClock
  <2>2. delivered \in Nat /\ out.rec \in Nat
    BY <1>3 DEF TypeOK, Records
  <2>3. QED BY <2>1, <2>2
<1>23. elapsed' \in Nat
  <2>1. \/ elapsed' = elapsed
        \/ elapsed' = elapsed + 1
    BY <1>1 DEF HistoryClock
  <2>2. QED BY <1>3, <2>1 DEF TypeOK
<1>24. asked' \in Nat \cup {NoneAsked}
  <2>1. asked' = IF meta_fire THEN Asked(gap) ELSE asked
    BY <1>1 DEF HistoryClock
  <2>2. QED BY <1>3, <1>4, <2>1 DEF TypeOK
<1>25. steady' \in 0..2
  <2>1. steady' = 0 \/ steady' = 2 \/ (steady' = steady + 1 /\ steady < 2)
    BY <1>1 DEF HistoryClock
  <2>2. QED BY <1>3, <2>1 DEF TypeOK
<1>26. TypeOK'
  BY <1>4, <1>6, <1>8, <1>12, <1>17, <1>18, <1>19, <1>20, <1>21, <1>22, <1>23, <1>24, <1>25
  DEF TypeOK
<1>27. TargetsBounded'
  BY <1>6, <1>9, <1>14, <1>15, <1>16 DEF TargetsBounded
<1>28. QED BY <1>26, <1>27

\* Local time and the count of steady clocks move together.
LEMMA LocalTime ==
    ASSUME SchedulerInv, NEW enable, NEW gap, NEW pkt_ready, NEW meta_fire,
           TimeClock(enable), HistoryClock(meta_fire, gap, pkt_ready, FALSE)
    PROVE  /\ ~enable_q => relative_ticks' = relative_ticks /\ steady' = 0
           /\ enable_q => /\ \/ relative_ticks' = relative_ticks + 1
                             \/ relative_ticks' = relative_ticks /\ relative_ticks = MaxTicks
                          /\ steady' = IF steady = 0 THEN 1 ELSE 2
<1>1. steady \in 0..2 /\ relative_ticks \in 0..MaxTicks
  BY DEF SchedulerInv, TypeOK
<1>2. relative_ticks' = IF enable_q /\ relative_ticks < MaxTicks
                        THEN relative_ticks + 1 ELSE relative_ticks
  BY DEF TimeClock
<1>3. steady' = IF ~enable_q THEN 0 ELSE IF steady < 2 THEN steady + 1 ELSE 2
  BY DEF HistoryClock
<1>4. CASE enable_q
  <2>1. relative_ticks' = IF relative_ticks < MaxTicks THEN relative_ticks + 1 ELSE relative_ticks
    BY <1>2, <1>4
  <2>2. steady' = IF steady < 2 THEN steady + 1 ELSE 2
    BY <1>3, <1>4
  <2>3. (IF steady < 2 THEN steady + 1 ELSE 2) = (IF steady = 0 THEN 1 ELSE 2)
    BY <1>1
  <2>4. relative_ticks < MaxTicks \/ relative_ticks = MaxTicks
    BY <1>1, Bounds
  <2>5. QED BY <1>4, <2>1, <2>2, <2>3, <2>4
<1>5. CASE ~enable_q
  BY <1>2, <1>3, <1>5
<1>6. QED BY <1>4, <1>5

\* The due and late bits after a clock: the look-ahead has become one shorter,
\* unless time stood still.
LEMMA BitsKept ==
    ASSUME SchedulerInv, NEW enable \in BOOLEAN, NEW gap \in Gaps \cup {NoMeta},
           NEW pkt_ready \in BOOLEAN, Surroundings("none", gap), RunClock(enable, gap, pkt_ready)
    PROVE  DueBitsInTime'
<1> DEFINE meta_fire == gap # NoMeta /\ s_meta_ready(FALSE)
<1>1. HistoryClock(meta_fire, gap, pkt_ready, FALSE) /\ QueueClock(pkt_ready) /\ TimeClock(enable)
  BY DEF RunClock
<1> HIDE DEF meta_fire
<1>2. TypeOK /\ TypeOK' /\ TargetsBounded'
  BY TypesKept DEF SchedulerInv
<1>0. cfg' = cfg /\ global_ticks \in Nat /\ global_ticks' \in Nat /\ global_ticks <= global_ticks'
  BY <1>2, SurroundingFacts, Bounds DEF TypeOK
<1>3. \A t \in Nat : t <= global_ticks + 3 => t <= global_ticks' + 3
  <2>1. PICK now \in Nat : global_ticks' = now
    BY <1>0
  <2>2. global_ticks <= now /\ global_ticks \in Nat
    BY <1>0, <2>1
  <2>3. QED BY <2>1, <2>2
<1>4. PICK target \in Nat : head'.target = target /\ target <= MaxTarget
  BY <1>2 DEF TypeOK, Records, TargetsBounded
<1>5. /\ head_due_q' => Valid(head') /\ target <= schedule_tick_cmp
      /\ Valid(head') => (head_late_q' <=> target < schedule_tick_cmp)
  BY <1>1, <1>4 DEF QueueClock
<1>6. relative_ticks \in Nat /\ relative_ticks <= MaxTicks /\ steady \in 0..2
  BY <1>2, Bounds DEF TypeOK
<1>7. ASSUME head_due_q', cfg.sync PROVE target <= global_ticks' + 3
  <2>1. target <= global_ticks + 3
    BY <1>5, <1>7 DEF schedule_tick_cmp, now_ticks
  <2>2. QED BY <1>3, <1>4, <2>1
<1>8. ASSUME ~cfg.sync PROVE schedule_tick_cmp = relative_ticks + 2
  BY <1>8 DEF schedule_tick_cmp, now_ticks
<1>9. ASSUME ~cfg.sync, enable_q
      PROVE  /\ steady' > 0
             /\ target <= relative_ticks + 2 => target <= relative_ticks' + 1
             /\ relative_ticks' < MaxTicks => relative_ticks' + 1 = relative_ticks + 2
  <2>1. steady' = IF steady = 0 THEN 1 ELSE 2
    BY <1>1, <1>9, LocalTime
  <2>2. CASE relative_ticks' = relative_ticks + 1
    BY <1>6, <2>1, <2>2
  <2>3. CASE relative_ticks' = relative_ticks /\ relative_ticks = MaxTicks
    BY <1>4, <1>6, <2>1, <2>3, Bounds
  <2>4. QED BY <1>1, <1>9, <2>2, <2>3, LocalTime
<1>10. ASSUME ~cfg.sync, ~enable_q PROVE relative_ticks' = relative_ticks /\ steady' = 0
  BY <1>1, <1>10, LocalTime
<1>11. ASSUME head_due_q', ~cfg.sync
       PROVE  target <= relative_ticks' + (IF steady' > 0 THEN 1 ELSE 2)
  <2>1. target <= relative_ticks + 2
    BY <1>5, <1>8, <1>11
  <2>2. CASE enable_q
    BY <1>9, <1>11, <2>1, <2>2
  <2>3. CASE ~enable_q
    <3>1. relative_ticks' = relative_ticks /\ ~(steady' > 0)
      BY <1>10, <1>11, <2>3
    <3>2. QED BY <2>1, <3>1
  <2>4. QED BY <2>2, <2>3
<1>12. ASSUME Valid(head'), ~cfg.sync, steady' > 0, relative_ticks' < MaxTicks
       PROVE  head_late_q' <=> target < relative_ticks' + 1
  <2>1. enable_q
    BY <1>10, <1>12
  <2>2. head_late_q' <=> target < relative_ticks + 2
    BY <1>5, <1>8, <1>12
  <2>3. QED BY <1>9, <1>12, <2>1, <2>2
<1>13. QED BY <1>0, <1>4, <1>5, <1>7, <1>11, <1>12 DEF DueBitsInTime

\* A packet on offer after a clock is not before its time.
LEMMA EarlyKept ==
    ASSUME SchedulerInv, NEW enable \in BOOLEAN, NEW gap \in Gaps \cup {NoMeta},
           NEW pkt_ready \in BOOLEAN, Surroundings("none", gap), RunClock(enable, gap, pkt_ready)
    PROVE  NeverEarly'
<1> DEFINE meta_fire == gap # NoMeta /\ s_meta_ready(FALSE)
<1>1. HistoryClock(meta_fire, gap, pkt_ready, FALSE) /\ OutClock(pkt_ready) /\ TimeClock(enable)
  BY DEF RunClock
<1> HIDE DEF meta_fire
<1>2. TypeOK /\ TypeOK' /\ TargetsBounded' /\ DueBitsInTime /\ NeverEarly
  BY TypesKept DEF SchedulerInv
<1>0. cfg' = cfg /\ global_ticks \in Nat /\ global_ticks' \in Nat /\ global_ticks <= global_ticks'
  BY <1>2, SurroundingFacts, Bounds DEF TypeOK
<1>3. \A t \in Nat : t <= global_ticks + 3 => t <= global_ticks' + 3
  <2>1. PICK now \in Nat : global_ticks' = now
    BY <1>0
  <2>2. global_ticks <= now /\ global_ticks \in Nat
    BY <1>0, <2>1
  <2>3. QED BY <2>1, <2>2
<1>4. SUFFICES ASSUME Valid(out'), ~egress
               PROVE  /\ cfg.sync => out'.target <= global_ticks' + 3
                      /\ ~cfg.sync => out'.target <= relative_ticks' + 1
                      /\ ~cfg.sync /\ steady' = 2 => out'.target <= relative_ticks'
  BY <1>0 DEF NeverEarly, egress
<1>5. PICK target \in Nat : out'.target = target /\ target <= MaxTarget
  BY <1>2 DEF TypeOK, Records, TargetsBounded
<1>6. relative_ticks \in Nat /\ relative_ticks <= MaxTicks /\ steady \in 0..2
  BY <1>2, Bounds DEF TypeOK
<1>7. CASE load_fire(pkt_ready)
  <2>1. out' = head /\ enable_q /\ head_due_q
    BY <1>1, <1>4, <1>7 DEF OutClock, load_fire
  <2>2. /\ cfg.sync => target <= global_ticks + 3
        /\ ~cfg.sync => target <= relative_ticks + (IF steady > 0 THEN 1 ELSE 2)
    BY <1>2, <1>5, <2>1 DEF DueBitsInTime
  <2>3. cfg.sync => target <= global_ticks' + 3
    BY <1>3, <1>5, <2>2
  <2>4. steady' = IF steady = 0 THEN 1 ELSE 2
    BY <1>1, <2>1, LocalTime
  <2>5. ASSUME ~cfg.sync
        PROVE  target <= relative_ticks' + 1 /\ (steady' = 2 => target <= relative_ticks')
    <3>1. target <= relative_ticks + 2 /\ (steady > 0 => target <= relative_ticks + 1)
      BY <1>6, <2>2, <2>5
    <3>2. CASE relative_ticks' = relative_ticks + 1
      BY <1>6, <2>4, <3>1, <3>2
    <3>3. CASE relative_ticks' = relative_ticks /\ relative_ticks = MaxTicks
      BY <1>5, <1>6, <3>3, Bounds
    <3>4. QED BY <1>1, <2>1, <3>2, <3>3, LocalTime
  <2>6. QED BY <1>5, <2>3, <2>5
<1>8. CASE ~load_fire(pkt_ready)
  <2>1. out' = out
    <3>1. out' = out \/ out' = NoRecord
      BY <1>1, <1>8 DEF OutClock
    <3>2. ~Valid(NoRecord)
      BY DEF Valid, NoRecord
    <3>3. QED BY <1>4, <3>1, <3>2
  <2>2. /\ cfg.sync => target <= global_ticks + 3
        /\ ~cfg.sync => target <= relative_ticks + 1
        /\ ~cfg.sync /\ steady = 2 => target <= relative_ticks
    BY <1>2, <1>4, <1>5, <2>1 DEF NeverEarly
  <2>3. cfg.sync => target <= global_ticks' + 3
    BY <1>3, <1>5, <2>2
  <2>4. ASSUME ~cfg.sync
        PROVE  target <= relative_ticks' + 1 /\ (steady' = 2 => target <= relative_ticks')
    <3>1. CASE ~enable_q
      <4>1. relative_ticks' = relative_ticks /\ steady' = 0
        BY <1>1, <3>1, LocalTime
      <4>2. QED BY <2>2, <2>4, <4>1
    <3>2. CASE enable_q /\ relative_ticks' = relative_ticks + 1
      BY <1>6, <2>2, <2>4, <3>2
    <3>3. CASE relative_ticks' = relative_ticks /\ relative_ticks = MaxTicks
      BY <1>5, <1>6, <3>3, Bounds
    <3>4. QED BY <1>1, <3>1, <3>2, <3>3, LocalTime
  <2>5. QED BY <1>5, <2>3, <2>4
<1>9. QED BY <1>7, <1>8

LEMMA InitScheduler == SchedulerInit => SchedulerInv
<1>1. SUFFICES ASSUME SchedulerInit PROVE SchedulerInv
  OBVIOUS
<1>2. NoRecord \in Records /\ <<>> \in Seq(Records) /\ NoRecord.rec = 0 /\ NoRecord.target = 0
  BY DEF NoRecord, Records
<1>3. TypeOK
  <2>1. /\ relative_ticks = 0 /\ global_ticks = 0 /\ target_accum = 0 /\ elapsed = 0
        /\ accepted = 0 /\ delivered = 0 /\ asked = NoneAsked /\ steady = 0
    BY <1>1 DEF SchedulerInit
  <2>2. /\ enable_q \in BOOLEAN /\ first_pkt \in BOOLEAN /\ head_due_q \in BOOLEAN
        /\ head_late_q \in BOOLEAN /\ out_late \in BOOLEAN /\ late_pulse \in BOOLEAN
    BY <1>1 DEF SchedulerInit
  <2>3. /\ cfg \in Configs /\ mem \in Seq(Records) /\ meta_stage \in Records
        /\ prefetch \in Records /\ head \in Records /\ out \in Records
    BY <1>1, <1>2 DEF SchedulerInit
  <2>4. 0 \in 0..MaxTicks /\ 0 \in 0..2 /\ 0 \in Nat
    BY Bounds
  <2>5. QED BY <2>1, <2>2, <2>3, <2>4 DEF TypeOK
<1>4. /\ mem = <<>> /\ Len(mem) = 0 /\ delivered = 0 /\ accepted = 0
      /\ out.rec = 0 /\ head.rec = 0 /\ prefetch.rec = 0 /\ meta_stage.rec = 0
  BY <1>1, <1>2 DEF SchedulerInit
<1>5. InOrder
  <2>1. accepted = LastStored + Held(meta_stage)
    BY <1>4 DEF LastOut, LastHead, LastPrefetched, LastStored, Held
  <2>2. total_count <= PKT_FIFO_DEPTH
    BY <1>4, Bounds DEF total_count, Held
  <2>3. QED BY <1>4, <2>1, <2>2 DEF InOrder, Valid
<1>6. TargetsBounded
  BY <1>1, <1>2, <1>4, Bounds DEF SchedulerInit, TargetsBounded
<1>7. DueBitsInTime /\ NeverEarly
  BY <1>1, <1>4 DEF SchedulerInit, DueBitsInTime, NeverEarly, Valid
<1>8. QED BY <1>3, <1>5, <1>6, <1>7 DEF SchedulerInv

LEMMA NextScheduler == SchedulerInv /\ [SchedulerNext]_vars => SchedulerInv'
<1> SUFFICES ASSUME SchedulerInv, [SchedulerNext]_vars PROVE SchedulerInv'
  OBVIOUS
<1>1. CASE SchedulerNext
  <2>1. PICK enable \in BOOLEAN, pkt_ready \in BOOLEAN, command \in {"none", "start", "clear"},
             gap \in Gaps \cup {NoMeta} :
               /\ Surroundings(command, gap)
               /\ \/ command = "none" /\ RunClock(enable, gap, pkt_ready)
                  \/ RestartClock(gap, pkt_ready)
    BY <1>1, TwoClocks
  <2>2. CASE command = "none" /\ RunClock(enable, gap, pkt_ready)
    <3>1. Surroundings("none", gap) /\ RunClock(enable, gap, pkt_ready)
      BY <2>1, <2>2
    <3>2. QED BY <3>1, OrderKept, TypesKept, BitsKept, EarlyKept DEF SchedulerInv
  <2>3. CASE RestartClock(gap, pkt_ready)
    BY <2>1, <2>3, RestartKeeps
  <2>4. QED BY <2>1, <2>2, <2>3
<1>2. CASE UNCHANGED vars
  BY <1>2 DEF vars, time, targets, queue, output, history, SchedulerInv, TypeOK, InOrder,
     TargetsBounded, DueBitsInTime, NeverEarly, LastOut, LastHead, LastPrefetched, LastStored,
     total_count, egress
<1>3. QED BY <1>1, <1>2

\* The inductive invariant: types, order, bounds, and what the due and late bits
\* say one clock after the comparison, at every depth, gap and setting.
THEOREM SchedulerSafe == SchedulerSpec => []SchedulerInv
<1>1. QED BY InitScheduler, NextScheduler, PTL DEF SchedulerSpec

\* No packet is offered before its target, but for the look-ahead's slack
\* (schedule_tick_cmp, load_fire).
THEOREM IsNeverEarly == SchedulerSpec => []NeverEarly
<1>1. SchedulerInv => NeverEarly
  BY DEF SchedulerInv
<1>2. QED BY <1>1, SchedulerSafe, PTL

\* One clock loads the output register exactly in time, or marks it late.
LEMMA LoadOnTime ==
    ASSUME SchedulerInv, SchedulerNext, Loads, ~cfg.sync, steady > 0, relative_ticks' < MaxTicks
    PROVE  IF out_late' THEN out'.target < relative_ticks' ELSE out'.target = relative_ticks'
<1>1. PICK enable \in BOOLEAN, pkt_ready \in BOOLEAN, command \in {"none", "start", "clear"},
           gap \in Gaps \cup {NoMeta} :
             /\ Surroundings(command, gap)
             /\ \/ command = "none" /\ RunClock(enable, gap, pkt_ready)
                \/ RestartClock(gap, pkt_ready)
  BY TwoClocks
<1>2. ~Valid(NoRecord)
  BY DEF Valid, NoRecord
<1>3. RunClock(enable, gap, pkt_ready)
  BY <1>1, <1>2 DEF RestartClock, Flushed, Loads
<1> DEFINE meta_fire == gap # NoMeta /\ s_meta_ready(FALSE)
<1>4. HistoryClock(meta_fire, gap, pkt_ready, FALSE) /\ OutClock(pkt_ready) /\ TimeClock(enable)
  BY <1>3 DEF RunClock
<1> HIDE DEF meta_fire
<1>5. load_fire(pkt_ready)
  BY <1>2, <1>4 DEF OutClock, Loads
<1>6. /\ out' = head /\ (out_late' <=> head_late_q) /\ enable_q /\ head_due_q /\ Valid(head)
  BY <1>4, <1>5 DEF OutClock, load_fire, egress
<1>7. /\ relative_ticks \in Nat /\ relative_ticks <= MaxTicks /\ steady \in 0..2
      /\ head.target \in Nat
  BY Bounds DEF SchedulerInv, TypeOK, Records
<1>8. relative_ticks' = relative_ticks + 1 /\ relative_ticks < MaxTicks
  <2>1. \/ relative_ticks' = relative_ticks + 1
        \/ relative_ticks' = relative_ticks /\ relative_ticks = MaxTicks
    BY <1>4, <1>6, LocalTime
  <2>2. relative_ticks' = relative_ticks + 1
    BY <1>7, <2>1, Bounds
  <2>3. QED BY <1>7, <2>2, Bounds
<1>9. /\ head.target <= relative_ticks + 1
      /\ head_late_q <=> head.target < relative_ticks + 1
  BY <1>6, <1>8 DEF SchedulerInv, DueBitsInTime
<1>10. CASE out_late'
  BY <1>6, <1>8, <1>9, <1>10
<1>11. CASE ~out_late'
  <2>1. head.target = relative_ticks + 1
    BY <1>6, <1>7, <1>9, <1>11
  <2>2. QED BY <1>6, <1>8, <1>11, <2>1
<1>12. QED BY <1>10, <1>11

\* In local time that runs, a packet is offered exactly at its target or is
\* marked late, and only then (head_due_q, head_late_q, out_late).
THEOREM LateMarkIsExact == SchedulerSpec => LateExact
<1>1. SchedulerInv /\ [SchedulerNext]_vars =>
        [Loads /\ ~cfg.sync /\ steady > 0 /\ relative_ticks' < MaxTicks =>
           IF out_late' THEN out'.target < relative_ticks' ELSE out'.target = relative_ticks']_vars
  BY LoadOnTime
<1>2. QED BY <1>1, SchedulerSafe, PTL DEF SchedulerSpec, LateExact

\* The number of records inside, and the place of the one on offer.
CountFacts ==
    /\ accepted - delivered <= PKT_FIFO_DEPTH
    /\ out.rec # 0 => out.rec = delivered + 1 /\ out.rec <= accepted

LEMMA Counted ==
    ASSUME SchedulerInv
    PROVE  CountFacts
<1>1. /\ delivered \in Nat /\ accepted \in Nat /\ Len(mem) \in Nat
  BY Amounts DEF SchedulerInv
<1>2. /\ Held(out) \in {0, 1} /\ Held(head) \in {0, 1} /\ Held(prefetch) \in {0, 1}
      /\ Held(meta_stage) \in {0, 1}
  BY DEF Held
<1>3. accepted = delivered + Held(out) + Held(head) + Held(prefetch) + Len(mem) + Held(meta_stage)
  BY DEF SchedulerInv, InOrder, LastStored, LastPrefetched, LastHead, LastOut
<1>4. accepted - delivered <= PKT_FIFO_DEPTH
  <2>1. total_count = accepted - delivered
    <3>1. accepted = LastStored + Held(meta_stage)
      BY DEF SchedulerInv, InOrder
    <3>2. QED BY <1>1, <3>1, HeldSum
  <2>2. QED BY <2>1 DEF SchedulerInv, InOrder
<1>5. ASSUME Valid(out) PROVE out.rec = delivered + 1 /\ out.rec <= accepted
  <2>1. out.rec = delivered + 1 /\ Held(out) = 1
    BY <1>5 DEF SchedulerInv, InOrder, LastOut, Held, Valid
  <2>2. QED BY <1>1, <1>2, <1>3, <2>1
<1>6. QED BY <1>4, <1>5 DEF CountFacts, Valid

\* One clock of the scheduler is a step of the abstract channel.
LEMMA ClockOfChannel ==
    ASSUME SchedulerInv, [SchedulerNext]_vars, SchedulerInv', CountFacts'
    PROVE  [Channel!Transfer \/ Channel!Drop]_(Channel!channelVars)
<1>1. CASE UNCHANGED vars
  BY <1>1 DEF vars, output, history, Channel!channelVars
<1>2. CASE SchedulerNext
  <2>1. PICK enable \in BOOLEAN, pkt_ready \in BOOLEAN, command \in {"none", "start", "clear"},
             gap \in Gaps \cup {NoMeta} :
               /\ Surroundings(command, gap)
               /\ \/ command = "none" /\ RunClock(enable, gap, pkt_ready)
                  \/ RestartClock(gap, pkt_ready)
    BY <1>2, TwoClocks
  <2>2. accepted \in Nat /\ delivered \in Nat
    BY DEF SchedulerInv, TypeOK
  <2>3. \A fire \in BOOLEAN : accepted + Bit(fire) \in accepted..(accepted + 1)
    BY <2>2 DEF Bit
  <2>4. CASE RestartClock(gap, pkt_ready)
    <3>1. PICK fire \in BOOLEAN : accepted' = accepted + Bit(fire) /\ delivered' = accepted'
      BY <2>4 DEF RestartClock, HistoryClock
    <3>2. out'.rec = 0
      BY <2>4 DEF RestartClock, Flushed, NoRecord
    <3>3. QED BY <2>3, <3>1, <3>2 DEF Channel!Drop
  <2>5. CASE RunClock(enable, gap, pkt_ready)
    <3> DEFINE fire == gap # NoMeta /\ s_meta_ready(FALSE)
    <3>1. HistoryClock(fire, gap, pkt_ready, FALSE) /\ OutClock(pkt_ready) /\ fire \in BOOLEAN
      BY <2>5 DEF RunClock
    <3> HIDE DEF fire
    <3>2. accepted' \in accepted..(accepted + 1)
      BY <2>3, <3>1 DEF HistoryClock
    <3>3. \/ delivered' = delivered /\ (out.rec # 0 => out'.rec = out.rec)
          \/ out.rec # 0 /\ delivered' = out.rec
      <4>1. CASE pkt_fire(pkt_ready)
        BY <3>1, <4>1 DEF HistoryClock, pkt_fire, m_pkt_valid, Valid
      <4>2. CASE ~pkt_fire(pkt_ready)
        <5>1. delivered' = delivered
          BY <3>1, <4>2 DEF HistoryClock
        <5>2. Valid(out) => ~load_fire(pkt_ready)
          BY <4>2 DEF load_fire, out_can_load
        <5>3. Valid(out) => out' = out
          BY <3>1, <4>2, <5>2 DEF OutClock
        <5>4. QED BY <5>1, <5>3 DEF Valid
      <4>3. QED BY <4>1, <4>2
    <3>4. /\ accepted' - delivered' <= PKT_FIFO_DEPTH
          /\ out'.rec # 0 => out'.rec = delivered' + 1 /\ out'.rec <= accepted'
      BY DEF CountFacts
    <3>5. out'.rec <= accepted'
      <4>1. PICK n \in Nat : accepted' = n
        BY DEF SchedulerInv, TypeOK
      <4>2. QED BY <3>4, <4>1
    <3>6. QED BY <3>2, <3>3, <3>4, <3>5 DEF Channel!Transfer
  <2>6. QED BY <2>1, <2>4, <2>5
<1>3. QED BY <1>1, <1>2

\* The scheduler implements the abstract channel through pauses and restarts:
\* order, nothing lost or doubled, a stable offer, at most PKT_FIFO_DEPTH inside.
THEOREM MeetsChannel == SchedulerSpec => ImplementsChannel
<1>1. SchedulerInit => Channel!ChannelInit
  BY DEF SchedulerInit, Channel!ChannelInit, NoRecord
<1>2. SchedulerInv => CountFacts
  BY Counted
<1>3. SchedulerInv /\ [SchedulerNext]_vars /\ SchedulerInv' /\ CountFacts'
        => [Channel!Transfer \/ Channel!Drop]_(Channel!channelVars)
  BY ClockOfChannel
<1>4. QED BY <1>1, <1>2, <1>3, SchedulerSafe, PTL DEF SchedulerSpec, ImplementsChannel,
             Channel!ChannelSpec

-----------------------------------------------------------------------------
(* A link that takes every packet and a source that is early enough.       *)

\* The setting OnTime is about: no pause, a link that always takes, gaps of at
\* least a tick, and a source ahead by one tick for each of the five registers.
Unhindered == ~Pauses /\ ~Holds /\ Lead >= 5 /\ 0 \notin Gaps

\* The records that have not reached the output register.
Waiting ==
    {x \in {head, prefetch, meta_stage} \cup {mem[i] : i \in 1..Len(mem)} : Valid(x)}

\* Two counts of the same clocks; a clock that is not enabled follows a restart.
SameTime ==
    /\ elapsed = relative_ticks
    /\ ~enable_q => ~Valid(head) /\ ~Valid(prefetch)

\* In local time a record's target is what it asks for, and each target is later
\* than the one before it.
TargetsRise ==
    /\ first_pkt <=> asked = NoneAsked
    /\ ~first_pkt => target_accum = asked
    /\ \A x \in Waiting : x.target = x.asked /\ ~first_pkt /\ x.target <= target_accum
    /\ \A x, y \in Waiting : x.rec < y.rec => x.target < y.target

\* A record is one tick ahead of its target for each register it has still to pass.
AheadOfTime ==
    /\ Valid(meta_stage) => meta_stage.target >= relative_ticks + 4
    /\ \A i \in 1..Len(mem) : mem[i].target >= relative_ticks + 3
    /\ Valid(prefetch) => prefetch.target >= relative_ticks + 2
    /\ Valid(head) => /\ head.target >= relative_ticks + 1
                      /\ head_due_q <=> head.target <= relative_ticks + 1
                      /\ ~head_late_q

PromptInv == SameTime /\ (~cfg.sync => TargetsRise /\ AheadOfTime)

\* A step is a clock that is enabled and takes, or a restart.
LEMMA UnhinderedClock ==
    ASSUME SchedulerNext, Unhindered
    PROVE  \E command \in {"none", "start", "clear"}, gap \in Gaps \cup {NoMeta} :
             /\ Surroundings(command, gap)
             /\ \/ command = "none" /\ RunClock(TRUE, gap, TRUE)
                \/ RestartClock(gap, TRUE)
<1>1. PICK enable \in BOOLEAN, pkt_ready \in BOOLEAN, command \in {"none", "start", "clear"},
           gap \in Gaps \cup {NoMeta} :
             /\ enable \/ Pauses
             /\ pkt_ready \/ Holds
             /\ Surroundings(command, gap) /\ SchedulerClock(enable, command, gap, pkt_ready)
  BY DEF SchedulerNext
<1>2. enable = TRUE /\ pkt_ready = TRUE
  BY <1>1 DEF Unhindered
<1> DEFINE meta_fire == gap # NoMeta /\ s_meta_ready(command = "clear")
<1>3. meta_fire \in BOOLEAN
  BY DEF s_meta_ready
<1>4. CASE command = "none"
  <2>1. RunClock(TRUE, gap, TRUE)
    BY <1>1, <1>2, <1>4 DEF SchedulerClock, RunClock
  <2>2. QED BY <1>1, <1>4, <2>1
<1>5. CASE command # "none"
  <2>1. Flushed /\ HistoryClock(meta_fire, gap, TRUE, TRUE)
    BY <1>1, <1>2, <1>5 DEF SchedulerClock
  <2>2. RestartClock(gap, TRUE)
    BY <1>3, <2>1 DEF RestartClock
  <2>3. QED BY <1>1, <2>2
<1>6. QED BY <1>4, <1>5

\* What waits: records that were accepted, of bounded targets, in their order.
LEMMA WaitingFacts ==
    ASSUME SchedulerInv
    PROVE  /\ \A x \in Waiting : x \in Records /\ x.rec <= accepted /\ x.target <= MaxTarget
           /\ Valid(head) => head \in Waiting
           /\ Valid(prefetch) => prefetch \in Waiting
           /\ Valid(meta_stage) => meta_stage \in Waiting
           /\ \A i \in 1..Len(mem) : mem[i] \in Waiting
           /\ Valid(head) /\ Valid(prefetch) => head.rec < prefetch.rec
           /\ \A i \in 1..Len(mem) : Valid(prefetch) => prefetch.rec < mem[i].rec
           /\ \A i, j \in 1..Len(mem) : i < j => mem[i].rec < mem[j].rec
<1>1. /\ accepted \in Nat /\ Len(mem) \in Nat
      /\ LastOut \in Nat /\ LastHead \in Nat /\ LastPrefetched \in Nat /\ LastStored \in Nat
  BY Amounts DEF SchedulerInv
<1>2. /\ meta_stage \in Records /\ prefetch \in Records /\ head \in Records
      /\ \A i \in 1..Len(mem) : mem[i] \in Records
  BY DEF SchedulerInv, TypeOK
<1>3. /\ Valid(head) => head.rec = LastHead
      /\ Valid(prefetch) => prefetch.rec = LastPrefetched
      /\ \A i \in 1..Len(mem) : mem[i].rec = LastPrefetched + i
      /\ Valid(meta_stage) => meta_stage.rec = accepted
      /\ accepted = LastStored + Held(meta_stage)
  BY DEF SchedulerInv, InOrder
<1>4. /\ LastStored <= accepted
      /\ LastStored = LastPrefetched + Len(mem)
      /\ LastHead <= LastPrefetched
      /\ Valid(prefetch) => LastPrefetched = LastHead + 1
  <2>1. LastStored = LastPrefetched + Len(mem) /\ LastPrefetched = LastHead + Held(prefetch)
    BY DEF LastStored, LastPrefetched
  <2>2. Held(prefetch) \in {0, 1} /\ (Valid(prefetch) => Held(prefetch) = 1)
    BY DEF Held, Valid
  <2>3. Held(meta_stage) \in {0, 1}
    BY DEF Held
  <2>4. LastStored <= accepted
    BY <1>1, <1>3, <2>3
  <2>5. QED BY <1>1, <2>1, <2>2, <2>4
<1>5. \A i \in 1..Len(mem) : Valid(mem[i]) /\ mem[i].rec <= accepted
  BY <1>1, <1>3, <1>4 DEF Valid
<1>6. \A x \in Waiting : x \in Records /\ x.rec <= accepted
  <2>1. SUFFICES ASSUME NEW x \in Waiting PROVE x \in Records /\ x.rec <= accepted
    OBVIOUS
  <2>2. CASE x \in {head, prefetch, meta_stage}
    BY <1>1, <1>2, <1>3, <1>4, <2>2 DEF Waiting
  <2>3. CASE \E i \in 1..Len(mem) : x = mem[i]
    BY <1>2, <1>5, <2>3
  <2>4. QED BY <2>2, <2>3 DEF Waiting
<1>7. \A x \in Waiting : x.target <= MaxTarget
  BY DEF SchedulerInv, TargetsBounded, Waiting
<1>8. /\ Valid(head) => head \in Waiting
      /\ Valid(prefetch) => prefetch \in Waiting
      /\ Valid(meta_stage) => meta_stage \in Waiting
      /\ \A i \in 1..Len(mem) : mem[i] \in Waiting
  BY <1>5 DEF Waiting
<1>9. /\ Valid(head) /\ Valid(prefetch) => head.rec < prefetch.rec
      /\ \A i \in 1..Len(mem) : Valid(prefetch) => prefetch.rec < mem[i].rec
      /\ \A i, j \in 1..Len(mem) : i < j => mem[i].rec < mem[j].rec
  BY <1>1, <1>3, <1>4
<1>10. QED BY <1>6, <1>7, <1>8, <1>9

\* What waits after a clock was waiting before it, or has just entered.
LEMMA WaitingMoves ==
    ASSUME SchedulerInv, NEW gap, QueueClock(TRUE)
    PROVE  \A y \in Waiting' : y \in Waiting \/ (y = meta_stage' /\ Valid(meta_stage'))
<1>1. SUFFICES ASSUME NEW y \in Waiting' PROVE y \in Waiting \/ (y = meta_stage' /\ Valid(meta_stage'))
  OBVIOUS
<1>2. /\ Valid(y)
      /\ \/ y = head' \/ y = prefetch' \/ y = meta_stage'
         \/ \E i \in 1..Len(mem') : y = mem'[i]
  BY <1>1 DEF Waiting, Valid
<1>3. ~Valid(NoRecord)
  BY DEF NoRecord, Valid
<1>4. CASE y = head'
  BY <1>2, <1>3, <1>4, WaitingFacts DEF QueueClock
<1>5. CASE y = prefetch'
  <2>1. mem_read_issue(TRUE) => mem[1] \in Waiting
    <3>1. mem_read_issue(TRUE) => 1 \in 1..Len(mem)
      BY DEF mem_read_issue, SchedulerInv, TypeOK
    <3>2. QED BY <3>1, WaitingFacts
  <2>2. QED BY <1>2, <1>3, <1>5, <2>1, WaitingFacts DEF QueueClock
<1>6. CASE y = meta_stage'
  BY <1>2, <1>6
<1>7. CASE \E i \in 1..Len(mem') : y = mem'[i]
  <2>1. PICK i \in 1..Len(mem') : y = mem'[i]
    BY <1>7
  <2>2. PICK shift \in {0, 1} : shift = IF mem_read_issue(TRUE) THEN 1 ELSE 0
    OBVIOUS
  <2>8. TypeOK /\ Len(mem) \in Nat
    BY Amounts DEF SchedulerInv
  <2>3. mem'[i] = IF i <= Len(mem) - shift THEN mem[i + shift] ELSE meta_stage
    BY <2>1, <2>2, <2>8, MemMoves
  <2>4. i \in Nat /\ i >= 1
    BY <2>1
  <2>5. CASE i <= Len(mem) - shift
    <3>1. i + shift \in 1..Len(mem)
      <4>1. PICK n \in Nat : n = Len(mem)
        BY <2>8
      <4>2. shift = 0 \/ shift = 1
        BY <2>2
      <4>3. QED BY <2>4, <2>5, <4>1, <4>2
    <3>2. QED BY <2>1, <2>3, <2>5, <3>1, WaitingFacts
  <2>6. CASE ~(i <= Len(mem) - shift)
    BY <1>2, <2>1, <2>3, <2>6, WaitingFacts
  <2>7. QED BY <2>5, <2>6
<1>8. QED BY <1>2, <1>4, <1>5, <1>6, <1>7

\* After a restart nothing waits.
LEMMA RestartPrompt ==
    ASSUME SchedulerInv, NEW gap, RestartClock(gap, TRUE)
    PROVE  PromptInv'
<1>1. /\ elapsed' = 0 /\ asked' = NoneAsked /\ first_pkt' = TRUE /\ relative_ticks' = 0
      /\ mem' = <<>> /\ meta_stage' = NoRecord /\ prefetch' = NoRecord /\ head' = NoRecord
  BY DEF RestartClock, HistoryClock, Flushed
<1>2. ~Valid(NoRecord)
  BY DEF NoRecord, Valid
<1>3. ~Valid(head') /\ ~Valid(prefetch') /\ ~Valid(meta_stage') /\ Len(mem') = 0
  BY <1>1, <1>2
<1>4. Waiting' = {}
  BY <1>3 DEF Waiting, Valid
<1>5. SameTime'
  BY <1>1, <1>3 DEF SameTime, Valid
<1>6. TargetsRise'
  BY <1>1, <1>4 DEF TargetsRise
<1>7. AheadOfTime'
  <2>1. \A i \in 1..Len(mem') : FALSE
    BY <1>3
  <2>2. QED BY <1>3, <2>1 DEF AheadOfTime, Valid
<1>8. QED BY <1>5, <1>6, <1>7 DEF PromptInv

\* Both counts of time take the same step.
LEMMA SameTimeKept ==
    ASSUME SchedulerInv, SameTime, NEW gap, RunClock(TRUE, gap, TRUE)
    PROVE  SameTime' /\ enable_q'
<1>1. elapsed' = relative_ticks' /\ enable_q'
  BY DEF RunClock, HistoryClock, TimeClock, SameTime
<1>2. QED BY <1>1 DEF SameTime

\* A record that enters has a later target than every one that waits.
LEMMA RiseKept ==
    ASSUME SchedulerInv, Unhindered, ~cfg.sync, TargetsRise, NEW gap \in Gaps \cup {NoMeta},
           Surroundings("none", gap), RunClock(TRUE, gap, TRUE)
    PROVE  TargetsRise'
<1> DEFINE meta_fire == gap # NoMeta /\ s_meta_ready(FALSE)
<1>1. HistoryClock(meta_fire, gap, TRUE, FALSE) /\ EntryClock(meta_fire, gap) /\ QueueClock(TRUE)
  BY DEF RunClock
<1>2. accepted \in Nat /\ target_accum \in Nat /\ asked \in Nat \cup {NoneAsked}
      /\ cfg.start_time \in Nat
  BY Bounds DEF SchedulerInv, TypeOK
<1>3. \A y \in Waiting' : y \in Waiting \/ (y = meta_stage' /\ Valid(meta_stage'))
  BY <1>1, WaitingMoves
<1>4. \A x \in Waiting : x \in Records /\ x.rec <= accepted
  BY WaitingFacts
<1>5. CASE ~meta_fire
  <2>1. /\ meta_stage' = NoRecord /\ first_pkt' = first_pkt /\ target_accum' = target_accum
        /\ asked' = asked
    BY <1>1, <1>5 DEF EntryClock, HistoryClock, targets
  <2>2. \A y \in Waiting' : y \in Waiting
    BY <1>3, <2>1 DEF NoRecord, Valid
  <2>3. QED BY <2>1, <2>2 DEF TargetsRise
<1>6. CASE meta_fire
  <2>1. gap \in Nat /\ gap > 0
    BY <1>6, Bounds DEF Unhindered
  <2>2. /\ target_accum' = push_target(gap) /\ first_pkt' = FALSE /\ asked' = Asked(gap)
        /\ meta_stage' = [rec |-> accepted + 1, target |-> push_target(gap), asked |-> Asked(gap)]
    BY <1>1, <1>6 DEF EntryClock, HistoryClock
  <2>3. push_target(gap) = Asked(gap) /\ Asked(gap) \in Nat
    <3>1. CASE first_pkt
      BY <1>2, <2>1, <3>1 DEF TargetsRise, push_target, Asked
    <3>2. CASE ~first_pkt
      BY <1>2, <2>1, <3>2 DEF TargetsRise, push_target, Asked
    <3>3. QED BY <3>1, <3>2
  <2>4. \A x \in Waiting : x.target < push_target(gap)
    <3>1. SUFFICES ASSUME NEW x \in Waiting PROVE x.target < push_target(gap)
      OBVIOUS
    <3>2. ~first_pkt /\ x.target <= target_accum /\ x.target \in Nat
      BY <1>4 DEF TargetsRise, Records
    <3>3. push_target(gap) = target_accum + gap
      BY <3>2 DEF push_target
    <3>4. QED BY <1>2, <2>1, <3>2, <3>3
  <2>5. PICK new : /\ new = meta_stage' /\ new.rec = accepted + 1
                   /\ new.target = push_target(gap) /\ new.asked = Asked(gap)
    BY <2>2
  <2>6. \A y \in Waiting' : y \in Waiting \/ y = new
    BY <1>3, <2>5
  <2>7. asked' # NoneAsked
    BY <2>2, <2>3 DEF NoneAsked
  <2>8. \A x \in Waiting' : x.target = x.asked /\ ~first_pkt' /\ x.target <= target_accum'
    <3>1. SUFFICES ASSUME NEW x \in Waiting'
                   PROVE  x.target = x.asked /\ x.target <= push_target(gap)
      BY <2>2
    <3>2. CASE x \in Waiting
      <4>1. x.target = x.asked /\ x.target \in Nat /\ x.target < push_target(gap)
        BY <1>4, <2>4, <3>2 DEF TargetsRise, Records
      <4>2. QED BY <2>3, <4>1
    <3>3. CASE x = new
      BY <2>3, <2>5, <3>3
    <3>4. QED BY <2>6, <3>2, <3>3
  <2>9. \A x, y \in Waiting' : x.rec < y.rec => x.target < y.target
    <3>1. SUFFICES ASSUME NEW x \in Waiting', NEW y \in Waiting', x.rec < y.rec
                   PROVE  x.target < y.target
      OBVIOUS
    <3>2. CASE x \in Waiting /\ y \in Waiting
      BY <3>1, <3>2 DEF TargetsRise
    <3>3. CASE x \in Waiting /\ y = new
      BY <2>4, <2>5, <3>3
    <3>4. CASE x = new
      <4>1. y.rec \in Nat /\ y.rec <= accepted + 1
        BY <1>2, <1>4, <2>5, <2>6 DEF Records
      <4>2. QED BY <1>2, <2>5, <3>1, <3>4, <4>1
    <3>5. QED BY <2>6, <3>2, <3>3, <3>4
  <2>10. QED BY <2>2, <2>3, <2>7, <2>8, <2>9 DEF TargetsRise
<1>7. QED BY <1>5, <1>6

\* No record waits longer in a register than its target allows.
LEMMA AheadKept ==
    ASSUME SchedulerInv, Unhindered, ~cfg.sync, SameTime, TargetsRise, AheadOfTime,
           NEW gap \in Gaps \cup {NoMeta}, Surroundings("none", gap), RunClock(TRUE, gap, TRUE)
    PROVE  AheadOfTime'
<1> DEFINE meta_fire == gap # NoMeta /\ s_meta_ready(FALSE)
           take == prefetch_to_head(TRUE)
           read == mem_read_issue(TRUE)
           load == load_fire(TRUE)
<1>1. /\ HistoryClock(meta_fire, gap, TRUE, FALSE) /\ EntryClock(meta_fire, gap)
      /\ QueueClock(TRUE) /\ TimeClock(TRUE)
  BY DEF RunClock
<1>2. PICK t \in Nat, now \in Nat :
        /\ relative_ticks = t /\ relative_ticks' = now /\ t <= MaxTicks
        /\ now = IF enable_q /\ t < MaxTicks THEN t + 1 ELSE t
  <2>1. relative_ticks \in Nat /\ relative_ticks <= MaxTicks /\ relative_ticks + 1 \in Nat
    BY Bounds DEF SchedulerInv, TypeOK
  <2>2. QED BY <1>1, <2>1 DEF TimeClock
<1>3. now <= t + 1
  BY <1>2
<1>4. \A x \in Waiting : x.target \in Nat /\ x.target <= MaxTarget
  BY WaitingFacts DEF Records
<1>5. /\ Valid(meta_stage) => meta_stage.target >= t + 4
      /\ \A i \in 1..Len(mem) : mem[i].target >= t + 3
      /\ Valid(prefetch) => prefetch.target >= t + 2
      /\ Valid(head) => /\ head.target >= t + 1
                        /\ head_due_q <=> head.target <= t + 1
  BY <1>2 DEF AheadOfTime
<1>6. ~Valid(NoRecord)
  BY DEF Valid, NoRecord
<1>7. ASSUME Valid(head), ~load PROVE head.target >= t + 2
  <2>1. enable_q
    BY <1>7 DEF SameTime
  <2>2. out_can_load(TRUE)
    BY <2>1 DEF out_can_load, pkt_fire, m_pkt_valid
  <2>3. ~head_due_q
    BY <1>7, <2>1, <2>2 DEF load_fire
  <2>4. head.target \in Nat
    BY <1>4, <1>7, WaitingFacts
  <2>5. QED BY <1>5, <1>7, <2>3, <2>4
<1>8. ASSUME Valid(prefetch), ~take PROVE Valid(head) /\ ~load /\ prefetch.target >= t + 3
  <2>1. Valid(head) /\ ~load
    BY <1>8 DEF prefetch_to_head
  <2>2. head \in Waiting /\ prefetch \in Waiting /\ head.rec < prefetch.rec
    BY <1>8, <2>1, WaitingFacts
  <2>3. head.target < prefetch.target
    BY <2>2 DEF TargetsRise
  <2>4. head.target \in Nat /\ prefetch.target \in Nat
    BY <1>4, <2>2
  <2>5. head.target >= t + 2
    BY <1>7, <2>1
  <2>6. prefetch.target >= t + 3
    BY <2>3, <2>4, <2>5
  <2>7. QED BY <2>1, <2>6
<1>9. ASSUME NEW i \in 1..Len(mem), ~read PROVE mem[i].target >= t + 4
  <2>1. Valid(prefetch) /\ ~take
    <3>1. mem # <<>>
      BY <1>9 DEF SchedulerInv, TypeOK
    <3>2. QED BY <1>9, <3>1 DEF mem_read_issue
  <2>2. prefetch \in Waiting /\ mem[i] \in Waiting /\ prefetch.rec < mem[i].rec
    BY <1>9, <2>1, WaitingFacts
  <2>3. prefetch.target < mem[i].target
    BY <2>2 DEF TargetsRise
  <2>4. prefetch.target \in Nat /\ mem[i].target \in Nat
    BY <1>4, <2>2
  <2>5. QED BY <1>8, <2>1, <2>3, <2>4
<1>10. ASSUME NEW i \in 1..Len(mem), i > 1 PROVE mem[i].target >= t + 4
  <2>1. 1 \in 1..Len(mem) /\ 1 < i
    BY <1>10, Amounts DEF SchedulerInv
  <2>2. mem[1] \in Waiting /\ mem[i] \in Waiting /\ mem[1].rec < mem[i].rec
    BY <1>10, <2>1, WaitingFacts
  <2>3. mem[1].target < mem[i].target
    BY <2>2 DEF TargetsRise
  <2>4. mem[1].target \in Nat /\ mem[i].target \in Nat /\ mem[1].target >= t + 3
    BY <1>4, <1>5, <2>1, <2>2
  <2>5. QED BY <2>3, <2>4
<1>11. ASSUME Valid(meta_stage') PROVE meta_stage'.target >= now + 4
  <2>1. meta_fire
    BY <1>1, <1>6, <1>11 DEF EntryClock
  <2>2. meta_stage'.target = push_target(gap)
    BY <1>1, <2>1 DEF EntryClock
  <2>3. push_target(gap) = Asked(gap)
    <3>1. CASE first_pkt
      <4>1. gap \in Nat /\ cfg.start_time \in Nat
        BY <2>1, Bounds DEF SchedulerInv, TypeOK
      <4>2. QED BY <3>1, <4>1 DEF TargetsRise, push_target, Asked
    <3>2. CASE ~first_pkt
      BY <3>2 DEF TargetsRise, push_target, Asked
    <3>3. QED BY <3>1, <3>2
  <2>4. Asked(gap) >= elapsed + Lead /\ Lead >= 5 /\ Lead \in Nat
    BY <2>1, SchedulerAssumption DEF Surroundings, Unhindered
  <2>5. Asked(gap) \in Nat
    BY <2>1, SurroundingFacts DEF SchedulerInv
  <2>6. elapsed = t
    BY <1>2 DEF SameTime
  <2>7. Asked(gap) >= t + 5
    BY <1>2, <2>4, <2>5, <2>6
  <2>8. QED BY <1>2, <1>3, <2>2, <2>3, <2>5, <2>7
<1>12. ASSUME NEW i \in 1..Len(mem') PROVE mem'[i].target >= now + 3
  <2>1. PICK shift \in {0, 1} : shift = IF read THEN 1 ELSE 0
    OBVIOUS
  <2>2. PICK n \in Nat : n = Len(mem)
    BY Amounts DEF SchedulerInv
  <2>3. TypeOK
    BY DEF SchedulerInv
  <2>4. /\ mem'[i] = IF i <= n - shift THEN mem[i + shift] ELSE meta_stage
        /\ Len(mem') = n - shift + Held(meta_stage)
    BY <1>1, <2>1, <2>2, <2>3, MemMoves
  <2>5. i \in Nat /\ i >= 1 /\ i <= Len(mem')
    <3>1. mem' \in Seq(Records)
      BY <1>1, <2>1, <2>3, MemMoves
    <3>2. Len(mem') \in Nat
      BY <3>1
    <3>3. QED BY <1>12, <3>2
  <2>6. CASE i <= n - shift
    <3>1. i + shift \in 1..Len(mem)
      <4>1. shift = 0 \/ shift = 1
        BY <2>1
      <4>2. QED BY <2>2, <2>5, <2>6, <4>1
    <3>2. mem[i + shift].target >= t + 4
      <4>1. CASE read
        <5>1. i + shift > 1
          BY <2>1, <2>5, <4>1
        <5>2. QED BY <1>10, <3>1, <5>1
      <4>2. CASE ~read
        BY <1>9, <3>1, <4>2
      <4>3. QED BY <4>1, <4>2
    <3>3. mem[i + shift].target \in Nat
      BY <1>4, <3>1, WaitingFacts
    <3>4. mem[i + shift].target >= now + 3
      BY <1>2, <1>3, <3>2, <3>3
    <3>5. mem'[i] = mem[i + shift]
      BY <2>4, <2>6
    <3>6. QED BY <3>4, <3>5
  <2>7. CASE ~(i <= n - shift)
    <3>1. mem'[i] = meta_stage
      BY <2>4, <2>7
    <3>2. Valid(meta_stage)
      <4>1. ~Valid(meta_stage) => Held(meta_stage) = 0
        BY DEF Valid, Held
      <4>2. shift \in Nat
        BY <2>1
      <4>3. QED BY <2>2, <2>4, <2>5, <2>7, <4>1, <4>2
    <3>3. meta_stage.target \in Nat /\ meta_stage.target >= t + 4
      BY <1>4, <1>5, <3>2, WaitingFacts
    <3>4. QED BY <1>2, <1>3, <3>1, <3>3
  <2>8. QED BY <2>6, <2>7
<1>13. ASSUME Valid(prefetch') PROVE prefetch'.target >= now + 2
  <2>1. prefetch' = IF read THEN mem[1] ELSE IF take THEN NoRecord ELSE prefetch
    BY <1>1 DEF QueueClock
  <2>2. CASE read
    <3>1. 1 \in 1..Len(mem)
      BY <2>2 DEF mem_read_issue, SchedulerInv, TypeOK
    <3>2. mem[1].target \in Nat /\ mem[1].target >= t + 3
      BY <1>4, <1>5, <3>1, WaitingFacts
    <3>3. QED BY <1>2, <1>3, <2>1, <2>2, <3>2
  <2>3. CASE ~read
    <3>1. prefetch' = prefetch /\ Valid(prefetch) /\ ~take
      BY <1>6, <1>13, <2>1, <2>3
    <3>2. prefetch.target \in Nat /\ prefetch.target >= t + 3
      BY <1>4, <1>8, <3>1, WaitingFacts
    <3>3. QED BY <1>2, <1>3, <3>1, <3>2
  <2>4. QED BY <2>2, <2>3
<1>14. ASSUME Valid(head')
       PROVE  /\ head'.target >= now + 1
              /\ head_due_q' <=> head'.target <= now + 1
              /\ ~head_late_q'
  <2>1. head' = IF take THEN prefetch ELSE IF load THEN NoRecord ELSE head
    BY <1>1 DEF QueueClock
  <2>2. PICK x \in Waiting : head' = x /\ x.target >= t + 2 /\ enable_q
    <3>1. CASE take
      <4>1. head' = prefetch /\ Valid(prefetch)
        BY <2>1, <3>1 DEF prefetch_to_head
      <4>2. QED BY <1>5, <4>1, WaitingFacts DEF SameTime
    <3>2. CASE ~take
      <4>1. head' = head /\ Valid(head) /\ ~load
        BY <1>6, <1>14, <2>1, <3>2
      <4>2. QED BY <1>7, <4>1, WaitingFacts DEF SameTime
    <3>3. QED BY <3>1, <3>2
  <2>3. PICK target \in Nat : target = x.target /\ target <= MaxTarget
    BY <1>4, <2>2
  <2>4. now = t + 1
    BY <1>2, <2>2, <2>3, Bounds
  <2>5. schedule_tick_cmp = t + 2
    BY <1>2 DEF schedule_tick_cmp, now_ticks
  <2>6. /\ head_due_q' <=> target <= t + 2
        /\ head_late_q' <=> target < t + 2
    BY <1>1, <1>14, <2>2, <2>3, <2>5 DEF QueueClock, Valid
  <2>7. QED BY <1>2, <2>2, <2>3, <2>4, <2>6
<1>15. relative_ticks' = now
  BY <1>2
<1>16. QED BY <1>11, <1>12, <1>13, <1>14, <1>15 DEF AheadOfTime, Valid

\* Nothing waits in the initial state.
LEMMA InitPrompt == SchedulerInit => PromptInv
<1>1. SUFFICES ASSUME SchedulerInit PROVE PromptInv
  OBVIOUS
<1>2. /\ elapsed = 0 /\ asked = NoneAsked /\ first_pkt = TRUE /\ relative_ticks = 0
      /\ ~Valid(head) /\ ~Valid(prefetch) /\ ~Valid(meta_stage) /\ Len(mem) = 0
  BY <1>1 DEF SchedulerInit, NoRecord, Valid
<1>3. Waiting = {}
  BY <1>2 DEF Waiting
<1>4. SameTime /\ TargetsRise
  BY <1>2, <1>3 DEF SameTime, TargetsRise
<1>5. AheadOfTime
  <2>1. \A i \in 1..Len(mem) : FALSE
    BY <1>2
  <2>2. QED BY <1>2, <2>1 DEF AheadOfTime
<1>6. QED BY <1>4, <1>5 DEF PromptInv

LEMMA NextPrompt ==
    ASSUME SchedulerInv, Unhindered, PromptInv, [SchedulerNext]_vars
    PROVE  PromptInv'
<1>1. CASE SchedulerNext
  <2>1. PICK command \in {"none", "start", "clear"}, gap \in Gaps \cup {NoMeta} :
             /\ Surroundings(command, gap)
             /\ \/ command = "none" /\ RunClock(TRUE, gap, TRUE)
                \/ RestartClock(gap, TRUE)
    BY <1>1, UnhinderedClock
  <2>2. CASE RestartClock(gap, TRUE)
    BY <2>2, RestartPrompt
  <2>3. CASE command = "none" /\ RunClock(TRUE, gap, TRUE)
    <3>1. Surroundings("none", gap) /\ RunClock(TRUE, gap, TRUE)
      BY <2>1, <2>3
    <3>2. cfg' = cfg
      BY <3>1, SurroundingFacts DEF SchedulerInv
    <3>3. SameTime'
      BY <3>1, SameTimeKept DEF PromptInv
    <3>4. ~cfg.sync => TargetsRise' /\ AheadOfTime'
      BY <3>1, RiseKept, AheadKept DEF PromptInv
    <3>5. QED BY <3>2, <3>3, <3>4 DEF PromptInv
  <2>4. QED BY <2>1, <2>2, <2>3
<1>2. CASE UNCHANGED vars
  <2>1. PromptInv = PromptInv'
    BY <1>2 DEF vars, time, targets, queue, history, PromptInv, SameTime, TargetsRise,
       AheadOfTime, Waiting, Valid
  <2>2. QED BY <2>1
<1>3. QED BY <1>1, <1>2

\* A load happens in the clock whose tick the record asked for.
LEMMA PromptLoad ==
    ASSUME SchedulerInv, SchedulerInv', Unhindered, PromptInv, PromptInv', SchedulerNext,
           Loads, ~cfg.sync
    PROVE  elapsed' = out'.asked /\ ~out_late'
<1>1. PICK command \in {"none", "start", "clear"}, gap \in Gaps \cup {NoMeta} :
           /\ Surroundings(command, gap)
           /\ \/ command = "none" /\ RunClock(TRUE, gap, TRUE)
              \/ RestartClock(gap, TRUE)
  BY UnhinderedClock
<1>2. ~Valid(NoRecord)
  BY DEF Valid, NoRecord
<1>3. RunClock(TRUE, gap, TRUE)
  BY <1>1, <1>2 DEF RestartClock, Flushed, Loads
<1>4. OutClock(TRUE) /\ TimeClock(TRUE)
  BY <1>3 DEF RunClock
<1>5. load_fire(TRUE)
  BY <1>2, <1>4 DEF OutClock, Loads
<1>6. /\ out' = head /\ (out_late' <=> head_late_q)
      /\ enable_q /\ head_due_q /\ Valid(head)
  BY <1>4, <1>5 DEF OutClock, load_fire, egress
<1>7. head \in Waiting /\ head.target \in Nat /\ head.target <= MaxTarget
  BY <1>6, WaitingFacts DEF Records
<1>8. /\ head.target >= relative_ticks + 1 /\ head.target <= relative_ticks + 1
      /\ ~head_late_q /\ head.target = head.asked
  BY <1>6, <1>7 DEF PromptInv, AheadOfTime, TargetsRise
<1>9. relative_ticks \in Nat
  BY DEF SchedulerInv, TypeOK
<1>10. relative_ticks' = relative_ticks + 1
  <2>1. relative_ticks < MaxTicks
    BY <1>7, <1>8, <1>9, Bounds
  <2>2. QED BY <1>4, <1>6, <2>1 DEF TimeClock
<1>11. elapsed' = relative_ticks'
  BY DEF PromptInv, SameTime
<1>12. head.target = relative_ticks + 1
  BY <1>7, <1>8, <1>9
<1>13. QED BY <1>6, <1>8, <1>10, <1>11, <1>12

\* On a link that takes every packet, from a source that is ahead by a tick for
\* each register, a packet of any trace is offered at the very tick its gaps ask
\* for and is never marked late (head_due_q, load_fire, relative_ticks).
THEOREM AlwaysOnTime == Unhindered => (SchedulerSpec => OnTime)
<1>1. SUFFICES ASSUME Unhindered PROVE SchedulerSpec => OnTime
  OBVIOUS
<1>2. SchedulerInv /\ PromptInv /\ [SchedulerNext]_vars => PromptInv'
  BY <1>1, NextPrompt
<1>3. SchedulerInv /\ SchedulerInv' /\ PromptInv /\ PromptInv' /\ [SchedulerNext]_vars
        => [Loads /\ ~cfg.sync => elapsed' = out'.asked /\ ~out_late']_vars
  BY <1>1, PromptLoad
<1>4. QED BY <1>2, <1>3, InitPrompt, SchedulerSafe, PTL DEF SchedulerSpec, OnTime

-----------------------------------------------------------------------------
(* The file tools: what is on disk between any two steps of the tools.     *)

\* A source while it is converted: a generated capture has grown frames.
SourceNow ==
    [kind : {"pcap"}, packets : Seq(FrameType), keep_fcs : BOOLEAN]
        \cup [kind : {"synthetic"}, packets : Seq(FrameType), keep_fcs : BOOLEAN, count : Nat,
              len : Nat, gap_ns : Nat \cup {NoOverride}, gap_ticks : Nat \cup {NoOverride}]
        \cup [kind : {"gap"}, count : Nat, len : Nat, gap : Nat]
        \cup [kind : {"rate"}, count : Nat, len : Nat, num : Nat, den : Nat \ {0}]
DescType == [gap : Int, word : Nat, len : Nat]
BeatType == Nat \X Nat \X Nat
RecordType == [gap : Int, len : Nat, payload : Seq(BeatType)]

SourceInv ==
    /\ turn \in Nat /\ prev_target_tick \in Nat
    /\ turn = 0 => stage = "idle" /\ desc = <<>> /\ records = <<>>
    /\ turn > 0 => source \in SourceNow
    /\ stage = "pcap" => source.kind = "synthetic" /\ desc = <<>>
                         /\ data = <<>> /\ prev_target_tick = 0

\* A beat that is in data.bin at the place of a descriptor is of that packet.
DataInv ==
    /\ desc \in Seq(DescType) /\ data \in Seq(BeatType)
    /\ \A i \in 1..Len(desc) : \A b \in 1..PaddedBeats(desc[i].len) :
          desc[i].word + b <= Len(data) => data[desc[i].word + b] = <<turn, i, b>>
    /\ stage = "trace" => \A i \in 1..Len(desc) :
          desc[i].word + PaddedBeats(desc[i].len) <= Len(data)

\* Tick t is within half a tick of when packet i is due.
NearDue(i, t) ==
    LET due == Due(i)
        off == t * due.den - due.num
    IN  2 * off <= due.den /\ 0 - 2 * off <= due.den

\* The gaps of the descriptors add up to ticks that are near.
Accumulates(tick) ==
    /\ tick[0] = 0
    /\ \A i \in 1..Len(desc) : /\ tick[i] = tick[i - 1] + desc[i].gap
                               /\ NearDue(i, tick[i])
    /\ stage = "trace" => tick[Len(desc)] = prev_target_tick

\* The latest of the first i frames comes m nanoseconds after the first one.
Latest(i, m) ==
    /\ \E j \in 1..i : m = source.packets[j].ts - source.packets[1].ts
    /\ \A j \in 1..i : source.packets[j].ts - source.packets[1].ts <= m

\* Where the conversion is: the tick it has reached is that of the latest frame, rounded.
TimeInv ==
    /\ \E tick \in [Nat -> Int] : Accumulates(tick)
    /\ stage = "trace" =>
          /\ Captured /\ desc # <<>> =>
                /\ Len(desc) <= Len(source.packets)
                /\ \E m \in Nat : /\ Latest(Len(desc), m)
                                  /\ prev_target_tick = round(m * TickNum, TickDen)
          /\ source.kind = "gap" => prev_target_tick = Len(desc) * source.gap

\* stream.bin holds the packets of the trace, from the first one on.
StreamInv ==
    stage \notin {"pcap", "trace"} =>
        /\ records \in Seq(RecordType) /\ Len(records) <= Len(desc)
        /\ \A i \in 1..Len(records) :
              /\ records[i].gap = desc[i].gap
              /\ records[i].payload = [b \in 1..PaddedBeats(records[i].len) |-> <<turn, i, b>>]

TraceInv == SourceInv /\ DataInv /\ TimeInv /\ StreamInv

LEMMA TraceConstants ==
    /\ Sources \in Seq(SUBSET SourceType)
    /\ Beat \in Nat \ {0} /\ MinFrame \in Nat /\ MaxFrame \in Nat
    /\ TickNum \in Nat \ {0} /\ TickDen \in Nat \ {0} /\ Overhead \in Nat
  BY TraceAssumption

\* round is never more than a half away from the fraction it rounds.
LEMMA RoundNear ==
    ASSUME NEW n \in Nat, NEW d \in Nat \ {0}
    PROVE  /\ round(n, d) \in Nat
           /\ 2 * (round(n, d) * d - n) <= d
           /\ 0 - 2 * (round(n, d) * d - n) <= d
<1>1. PICK q \in Nat, r \in 0..(d - 1) : q = n \div d /\ r = n % d /\ n = q * d + r
  BY DivMod
<1>2. round(n, d) = IF 2 * r > d \/ (2 * r = d /\ q % 2 = 1) THEN q + 1 ELSE q
  BY <1>1 DEF round
<1>3. (q + 1) * d = q * d + d
  OBVIOUS
<1>4. PICK p \in Nat : p = q * d
  OBVIOUS
<1>5. CASE 2 * r > d \/ (2 * r = d /\ q % 2 = 1)
  <2>1. round(n, d) = q + 1 /\ round(n, d) * d = p + d /\ n = p + r /\ 2 * r >= d
    BY <1>1, <1>2, <1>3, <1>4, <1>5
  <2>2. 2 * ((p + d) - (p + r)) <= d /\ 0 - 2 * ((p + d) - (p + r)) <= d
    BY <1>1, <1>4, <2>1
  <2>3. QED BY <1>1, <2>1, <2>2
<1>6. CASE ~(2 * r > d \/ (2 * r = d /\ q % 2 = 1))
  <2>1. round(n, d) = q /\ round(n, d) * d = p /\ n = p + r /\ 2 * r <= d
    BY <1>1, <1>2, <1>4, <1>6
  <2>2. 2 * (p - (p + r)) <= d /\ 0 - 2 * (p - (p + r)) <= d
    BY <1>1, <1>4, <2>1
  <2>3. QED BY <1>1, <2>1, <2>2
<1>7. QED BY <1>5, <1>6

\* A larger fraction is not rounded to a smaller number.
LEMMA RoundMonotone ==
    ASSUME NEW m \in Nat, NEW n \in Nat, NEW d \in Nat \ {0}, m <= n
    PROVE  round(m, d) <= round(n, d)
<1>1. PICK q \in Nat, r \in 0..(d - 1) : q = m \div d /\ r = m % d /\ m = q * d + r
  BY DivMod
<1>2. PICK s \in Nat, t \in 0..(d - 1) : s = n \div d /\ t = n % d /\ n = s * d + t
  BY DivMod
<1>3. /\ round(m, d) = IF 2 * r > d \/ (2 * r = d /\ q % 2 = 1) THEN q + 1 ELSE q
      /\ round(n, d) = IF 2 * t > d \/ (2 * t = d /\ s % 2 = 1) THEN s + 1 ELSE s
  BY <1>1, <1>2 DEF round
<1>4. PICK a \in Nat, b \in Nat : a = q * d /\ b = s * d
  OBVIOUS
<1>5. CASE s < q
  <2>1. b + d <= a
    BY <1>4, <1>5, MultipleGap
  <2>2. QED BY <1>1, <1>2, <1>4, <2>1
<1>6. CASE s = q
  <2>1. r <= t
    BY <1>1, <1>2, <1>4, <1>6
  <2>2. QED BY <1>3, <1>6, <2>1
<1>7. CASE q < s
  BY <1>3, <1>7
<1>8. QED BY <1>5, <1>6, <1>7

\* A half added before the division rounds to the nearest as well (gen_synthetic_trace).
LEMMA HalfNear ==
    ASSUME NEW n \in Nat, NEW d \in Nat \ {0}
    PROVE  /\ (n + d \div 2) \div d \in Nat
           /\ 2 * (((n + d \div 2) \div d) * d - n) <= d
           /\ 0 - 2 * (((n + d \div 2) \div d) * d - n) <= d
<1>1. PICK h \in Nat : h = d \div 2 /\ 2 * h <= d /\ d <= 2 * h + 1
  <2>1. PICK h \in Nat, r \in 0..1 : h = d \div 2 /\ d = h * 2 + r
    <3>1. 2 \in Nat \ {0} /\ d \in Nat
      OBVIOUS
    <3>2. d \div 2 \in Nat /\ d % 2 \in 0..(2 - 1) /\ d = (d \div 2) * 2 + (d % 2)
      BY <3>1, DivMod
    <3>3. QED BY <3>2
  <2>2. QED BY <2>1
<1>2. PICK q \in Nat, r \in 0..(d - 1) : q = (n + h) \div d /\ n + h = q * d + r
  <2>1. n + h \in Nat
    OBVIOUS
  <2>2. QED BY <2>1, DivMod
<1>3. PICK p \in Nat : p = q * d
  OBVIOUS
<1>4. 2 * (p - n) <= d /\ 0 - 2 * (p - n) <= d
  BY <1>1, <1>2, <1>3
<1>5. QED BY <1>1, <1>2, <1>3, <1>4

-----------------------------------------------------------------------------
(* When packets are due.                                                   *)

\* The three ways of Due.
LEMMA DueCaptured ==
    ASSUME Captured, NEW i \in Nat, NEW m \in Nat, Latest(i, m),
           source.packets \in Seq(FrameType), i <= Len(source.packets)
    PROVE  Due(i) = [num |-> m * TickNum, den |-> TickDen]
<1> DEFINE since == {source.packets[j].ts - source.packets[1].ts : j \in 1..i}
<1>1. m \in since /\ \A u \in since : u <= m
  BY DEF Latest
<1>2. \A u \in since : u \in Int
  <2>1. ASSUME NEW j \in 1..i PROVE source.packets[j].ts \in Nat
    <3>1. j \in 1..Len(source.packets)
      <4>1. Len(source.packets) \in Nat
        BY LenProperties
      <4>2. QED BY <4>1
    <3>2. source.packets[j] \in FrameType
      BY <3>1, ElementOfSeq
    <3>3. QED BY <3>2 DEF FrameType
  <2>2. \A j \in 1..i : 1 \in 1..i
    OBVIOUS
  <2>3. QED BY <2>1, <2>2
<1>3. (CHOOSE t \in since : \A u \in since : u <= t) = m
  <2> HIDE DEF since
  <2>1. \A t \in since : (\A u \in since : u <= t) => t = m
    BY <1>1, <1>2
  <2>2. QED BY <1>1, <2>1
<1>4. Due(i) = [num |-> (CHOOSE t \in since : \A u \in since : u <= t) * TickNum,
                den |-> TickDen]
  <2>1. source.kind # "gap"
    BY DEF Captured
  <2>2. QED BY <2>1 DEF Due
<1> HIDE DEF since
<1>5. QED BY <1>3, <1>4

LEMMA DueOther ==
    ASSUME NEW i
    PROVE  /\ source.kind = "gap" => Due(i) = [num |-> i * source.gap, den |-> 1]
           /\ source.kind = "rate" =>
                 Due(i) = [num |-> (i - 1) * (source.len + Overhead) * source.num,
                           den |-> source.den]
<1>1. CASE source.kind = "gap"
  BY <1>1 DEF Due, Captured
<1>2. CASE source.kind = "rate"
  BY <1>2 DEF Due, Captured
<1>3. QED BY <1>1, <1>2

-----------------------------------------------------------------------------
(* The steps.                                                              *)

LEMMA PaddedNat ==
    ASSUME NEW len \in Nat
    PROVE  PaddedBeats(len) \in Nat
<1>1. len + Beat - 1 \in Nat /\ Beat \in Nat \ {0}
  BY TraceConstants
<1>2. QED BY <1>1, DivMod DEF PaddedBeats

\* While the source stays the same, so does what is due of it.
LEMMA SameSource ==
    ASSUME source' = source
    PROVE  /\ Captured' = Captured
           /\ \A i, t : NearDue(i, t)' = NearDue(i, t)
           /\ \A i, m : Latest(i, m)' = Latest(i, m)
<1>1. Captured' = Captured
  BY DEF Captured
<1>2. \A i, t : NearDue(i, t)' = NearDue(i, t)
  BY DEF NearDue, Due, Captured
<1>3. \A i, m : Latest(i, m)' = Latest(i, m)
  BY DEF Latest
<1>4. QED BY <1>1, <1>2, <1>3

\* Steps of trace_to_stream and stream_stripe that leave both its files alone.
LEMMA TraceFilesKept ==
    ASSUME TraceInv, UNCHANGED <<conversion, streamFile>>, stage \notin {"pcap", "trace"},
           stage' \notin {"pcap", "trace"}, turn = 0 => stage' = "idle"
    PROVE  TraceInv'
<1>1. /\ turn' = turn /\ source' = source /\ prev_target_tick' = prev_target_tick
      /\ desc' = desc /\ data' = data /\ records' = records
  BY DEF conversion, streamFile
<1>2. SourceInv'
  BY <1>1 DEF TraceInv, SourceInv
<1>3. DataInv'
  BY <1>1 DEF TraceInv, DataInv, PaddedBeats
<1>4. TimeInv'
  <2>1. PICK tick \in [Nat -> Int] : Accumulates(tick)
    BY DEF TraceInv, TimeInv
  <2>2. Accumulates(tick)'
    BY <1>1, <2>1, SameSource DEF Accumulates
  <2>3. QED BY <2>1, <2>2 DEF TimeInv
<1>5. StreamInv'
  BY <1>1 DEF TraceInv, StreamInv, PaddedBeats
<1>6. QED BY <1>2, <1>3, <1>4, <1>5 DEF TraceInv

LEMMA InitTrace == FilesInit => TraceInv
<1>1. SUFFICES ASSUME FilesInit PROVE TraceInv
  OBVIOUS
<1>2. /\ stage = "idle" /\ turn = 0 /\ prev_target_tick = 0
      /\ desc = <<>> /\ data = <<>> /\ records = <<>>
  BY <1>1 DEF FilesInit
<1>3. Len(desc) = 0 /\ Len(records) = 0 /\ 1..0 = {}
  BY <1>2
<1>4. SourceInv
  BY <1>2 DEF SourceInv
<1>5. DataInv
  BY <1>2, <1>3 DEF DataInv
<1>6. TimeInv
  <2>1. [i \in Nat |-> 0] \in [Nat -> Int] /\ [i \in Nat |-> 0][0] = 0
    OBVIOUS
  <2>2. Accumulates([i \in Nat |-> 0])
    BY <1>2, <1>3, <2>1 DEF Accumulates
  <2>3. QED BY <1>2, <2>1, <2>2 DEF TimeInv
<1>7. StreamInv
  BY <1>2, <1>3 DEF StreamInv
<1>8. QED BY <1>4, <1>5, <1>6, <1>7 DEF TraceInv

\* What the descriptors say of their place in data.bin.
LEMMA DescFacts ==
    ASSUME DataInv
    PROVE  /\ Len(desc) \in Nat /\ Len(data) \in Nat
           /\ \A i \in 1..Len(desc) :
                 /\ desc[i].gap \in Int /\ desc[i].word \in Nat /\ desc[i].len \in Nat
                 /\ PaddedBeats(desc[i].len) \in Nat
<1>1. Len(desc) \in Nat /\ Len(data) \in Nat
  BY LenProperties DEF DataInv
<1>2. ASSUME NEW i \in 1..Len(desc)
      PROVE  /\ desc[i].gap \in Int /\ desc[i].word \in Nat /\ desc[i].len \in Nat
             /\ PaddedBeats(desc[i].len) \in Nat
  <2>1. desc[i] \in DescType
    BY ElementOfSeq DEF DataInv
  <2>2. desc[i].gap \in Int /\ desc[i].word \in Nat /\ desc[i].len \in Nat
    BY <2>1 DEF DescType
  <2>3. QED BY <2>2, PaddedNat
<1>3. QED BY <1>1, <1>2

\* A shorter desc.bin and data.bin still say the same of what they hold.
LEMMA TraceCut ==
    ASSUME TraceInv, NEW i \in 0..Len(desc), NEW j \in 0..Len(data), stage = "trace",
           desc' = SubSeq(desc, 1, i), data' = SubSeq(data, 1, j),
           stage' = "stream", records' = <<>>, UNCHANGED <<turn, source, prev_target_tick>>
    PROVE  TraceInv'
<1>1. SourceInv /\ DataInv
  BY DEF TraceInv
<1>2. Len(desc) \in Nat /\ Len(data) \in Nat
  BY <1>1, DescFacts
<1>3. /\ desc' \in Seq(DescType) /\ Len(desc') = i
      /\ \A k \in 1..Len(desc') : k \in 1..Len(desc) /\ desc'[k] = desc[k]
  <2>1. \A k \in 1..i : desc[k] \in DescType
    <3>1. TAKE k \in 1..i
    <3>2. k \in 1..Len(desc)
      BY <1>2
    <3>3. QED BY <1>1, <3>2, ElementOfSeq DEF DataInv
  <2>2. i \in Int /\ i \in Nat /\ \A k \in 1..i : k \in 1..Len(desc)
    BY <1>2
  <2>3. /\ desc' \in Seq(DescType) /\ Len(desc') = i
        /\ \A k \in 1..i : desc'[k] = desc[k]
    BY <1>2, <2>1, <2>2, SubSeqProperties
  <2>4. QED BY <2>2, <2>3
<1>4. /\ data' \in Seq(BeatType) /\ Len(data') = j
      /\ \A k \in 1..j : data'[k] = data[k]
  <2>1. \A k \in 1..j : data[k] \in BeatType
    <3>1. TAKE k \in 1..j
    <3>2. k \in 1..Len(data)
      BY <1>2
    <3>3. QED BY <1>1, <3>2, ElementOfSeq DEF DataInv
  <2>2. j \in Int /\ j \in Nat
    BY <1>2
  <2>3. QED BY <1>2, <2>1, <2>2, SubSeqProperties
<1>5. SourceInv'
  BY <1>1 DEF SourceInv
<1>6. DataInv'
  <2>1. ASSUME NEW k \in 1..Len(desc'), NEW b \in 1..PaddedBeats(desc'[k].len),
               desc'[k].word + b <= Len(data')
        PROVE  data'[desc'[k].word + b] = <<turn', k, b>>
    <3>1. k \in 1..Len(desc) /\ desc'[k] = desc[k]
      BY <1>3
    <3>2. PICK w \in Nat, p \in Nat : w = desc[k].word /\ p = PaddedBeats(desc[k].len)
      BY <1>1, <3>1, DescFacts
    <3>3. b \in 1..p /\ w + b \in 1..j /\ w + b <= Len(data)
      BY <1>2, <1>4, <2>1, <3>1, <3>2
    <3>4. data[w + b] = <<turn, k, b>>
      BY <1>1, <3>1, <3>2, <3>3 DEF DataInv
    <3>5. QED BY <1>4, <3>1, <3>2, <3>3, <3>4
  <2>2. stage' # "trace"
    OBVIOUS
  <2>3. QED BY <1>3, <1>4, <2>1, <2>2 DEF DataInv, PaddedBeats
<1>7. TimeInv'
  <2>1. PICK tick \in [Nat -> Int] : Accumulates(tick)
    BY DEF TraceInv, TimeInv
  <2>2. tick[0] = 0
    BY <2>1 DEF Accumulates
  <2>3. ASSUME NEW k \in 1..Len(desc')
        PROVE  tick[k] = tick[k - 1] + desc'[k].gap /\ NearDue(k, tick[k])
    <3>1. k \in 1..Len(desc) /\ desc'[k] = desc[k]
      BY <1>3
    <3>2. \A n \in 1..Len(desc) : tick[n] = tick[n - 1] + desc[n].gap /\ NearDue(n, tick[n])
      BY <2>1 DEF Accumulates
    <3>3. QED BY <3>1, <3>2
  <2>4. \A k, t : NearDue(k, t)' = NearDue(k, t)
    BY SameSource
  <2>5. Accumulates(tick)'
    BY <2>2, <2>3, <2>4 DEF Accumulates
  <2>6. QED BY <2>1, <2>5 DEF TimeInv
<1>8. StreamInv'
  <2>1. Len(records') = 0 /\ records' \in Seq(RecordType) /\ 1..Len(records') = {}
    OBVIOUS
  <2>2. Len(records') <= Len(desc')
    BY <1>2, <1>3, <2>1
  <2>3. QED BY <2>1, <2>2 DEF StreamInv
<1>9. QED BY <1>5, <1>6, <1>7, <1>8 DEF TraceInv

LEMMA CloseTraceKept == TraceInv /\ CloseTrace => TraceInv'
<1>1. SUFFICES ASSUME TraceInv, CloseTrace PROVE TraceInv'
  OBVIOUS
<1>2. /\ stage = "trace" /\ stage' = "stream" /\ records' = <<>> /\ desc' = desc /\ data' = data
      /\ UNCHANGED <<turn, source, prev_target_tick>>
  BY <1>1 DEF CloseTrace, conversion
<1>3. desc \in Seq(DescType) /\ data \in Seq(BeatType) /\ DataInv
  BY <1>1 DEF TraceInv, DataInv
<1>4. SubSeq(desc, 1, Len(desc)) = desc /\ SubSeq(data, 1, Len(data)) = data
  BY <1>3, SubSeqFull
<1>5. Len(desc) \in 0..Len(desc) /\ Len(data) \in 0..Len(data)
  BY <1>3, DescFacts
<1>6. QED BY <1>1, <1>2, <1>4, <1>5, TraceCut

LEMMA ConvertKilledKept == TraceInv /\ ConvertKilled => TraceInv'
<1>1. SUFFICES ASSUME TraceInv, ConvertKilled PROVE TraceInv'
  OBVIOUS
<1>2. PICK i \in 0..Len(desc), j \in 0..Len(data) :
          desc' = SubSeq(desc, 1, i) /\ data' = SubSeq(data, 1, j)
  BY <1>1 DEF ConvertKilled
<1>3. /\ stage = "trace" /\ stage' = "stream" /\ records' = <<>>
      /\ UNCHANGED <<turn, source, prev_target_tick>>
  BY <1>1 DEF ConvertKilled
<1>4. QED BY <1>1, <1>2, <1>3, TraceCut

\* A step of trace_to_stream changes stream.bin alone.
LEMMA StreamKept ==
    ASSUME TraceInv, UNCHANGED conversion, stage = "stream", stage' \in {"stream", "ready"},
           StreamInv'
    PROVE  TraceInv'
<1>1. /\ turn' = turn /\ source' = source /\ prev_target_tick' = prev_target_tick
      /\ desc' = desc /\ data' = data
  BY DEF conversion
<1>2. SourceInv'
  BY <1>1 DEF TraceInv, SourceInv
<1>3. DataInv'
  BY <1>1 DEF TraceInv, DataInv, PaddedBeats
<1>4. TimeInv'
  <2>1. PICK tick \in [Nat -> Int] : Accumulates(tick)
    BY DEF TraceInv, TimeInv
  <2>2. Accumulates(tick)'
    BY <1>1, <2>1, SameSource DEF Accumulates
  <2>3. QED BY <2>1, <2>2 DEF TimeInv
<1>5. QED BY <1>2, <1>3, <1>4 DEF TraceInv

LEMMA StreamRecordKept == TraceInv /\ StreamRecord => TraceInv'
<1>1. SUFFICES ASSUME TraceInv, StreamRecord PROVE TraceInv'
  OBVIOUS
<1>2. /\ stage = "stream" /\ stage' = "stream" /\ UNCHANGED conversion
      /\ Len(records) < Len(desc) /\ payload_end <= Len(data)
  BY <1>1 DEF StreamRecord
<1>3. DataInv /\ records \in Seq(RecordType) /\ Len(records) <= Len(desc)
  BY <1>1, <1>2 DEF TraceInv, StreamInv
<1>4. PICK n \in Nat : n = Len(records)
  BY <1>3, LenProperties
<1>5. n + 1 \in 1..Len(desc)
  BY <1>2, <1>3, <1>4, DescFacts
<1>6. PICK gap \in Int, w \in Nat, len \in Nat, p \in Nat :
          /\ gap = desc[n + 1].gap /\ w = desc[n + 1].word /\ len = desc[n + 1].len
          /\ p = PaddedBeats(len)
  BY <1>3, <1>5, DescFacts
<1>7. PICK payload : payload = SubSeq(data, w + 1, w + p)
  OBVIOUS
<1>8. records' = Append(records, [gap |-> gap, len |-> len, payload |-> payload])
  BY <1>1, <1>4, <1>6, <1>7 DEF StreamRecord, next_desc, payload_end
<1>9. w + p <= Len(data) /\ Len(data) \in Nat
  BY <1>2, <1>3, <1>4, <1>6, DescFacts DEF payload_end, next_desc
<1>10. /\ payload \in Seq(BeatType) /\ Len(payload) = p
       /\ \A b \in 1..p : payload[b] = data[w + b]
  <2>1. \A k \in (w + 1)..(w + p) : data[k] \in BeatType
    <3>1. TAKE k \in (w + 1)..(w + p)
    <3>2. k \in 1..Len(data)
      BY <1>9
    <3>3. QED BY <1>3, <3>2, ElementOfSeq DEF DataInv
  <2>2. w + 1 \in Int /\ w + p \in Int
    OBVIOUS
  <2>3. /\ payload \in Seq(BeatType)
        /\ Len(payload) = IF w + 1 <= w + p THEN (w + p) - (w + 1) + 1 ELSE 0
        /\ \A b \in 1..((w + p) - (w + 1) + 1) : payload[b] = data[(w + 1) + b - 1]
    BY <1>7, <2>1, <2>2, SubSeqProperties
  <2>4. (w + p) - (w + 1) + 1 = p
    OBVIOUS
  <2>5. \A b \in 1..p : (w + 1) + b - 1 = w + b
    OBVIOUS
  <2>6. Len(payload) = p
    BY <2>3
  <2>7. QED BY <2>3, <2>4, <2>5, <2>6
<1>11. payload = [b \in 1..p |-> <<turn, n + 1, b>>]
  <2>1. \A b \in 1..p : payload[b] = <<turn, n + 1, b>>
    <3>1. TAKE b \in 1..p
    <3>2. w + b <= Len(data)
      BY <1>9
    <3>3. data[w + b] = <<turn, n + 1, b>>
      BY <1>3, <1>5, <1>6, <3>2 DEF DataInv
    <3>4. QED BY <1>10, <3>3
  <2>2. payload \in [1..p -> BeatType]
    BY <1>10, LenProperties
  <2>3. QED BY <2>1, <2>2
<1> DEFINE record == [gap |-> gap, len |-> len, payload |-> payload]
<1>12. record \in RecordType /\ record.gap = gap /\ record.len = len /\ record.payload = payload
  BY <1>10 DEF RecordType
<1> HIDE DEF record
<1>13. records' = Append(records, record)
  BY <1>8 DEF record
<1>14. /\ records' \in Seq(RecordType) /\ Len(records') = n + 1
       /\ \A i \in 1..n : records'[i] = records[i]
       /\ records'[n + 1] = record
  BY <1>3, <1>4, <1>12, <1>13, AppendProperties
<1>15. desc' = desc /\ turn' = turn
  BY <1>2 DEF conversion
<1>16. ASSUME NEW i \in 1..Len(records')
       PROVE  /\ records'[i].gap = desc'[i].gap
              /\ records'[i].payload = [b \in 1..PaddedBeats(records'[i].len) |-> <<turn', i, b>>]
  <2>1. CASE i = n + 1
    BY <1>6, <1>11, <1>12, <1>14, <1>15, <2>1
  <2>2. CASE i # n + 1
    <3>1. i \in 1..n
      BY <1>14, <2>2
    <3>2. /\ records[i].gap = desc[i].gap
          /\ records[i].payload = [b \in 1..PaddedBeats(records[i].len) |-> <<turn, i, b>>]
      BY <1>1, <1>2, <1>4, <3>1 DEF TraceInv, StreamInv
    <3>3. QED BY <1>14, <1>15, <3>1, <3>2
  <2>3. QED BY <2>1, <2>2
<1>17. Len(records') <= Len(desc')
  BY <1>5, <1>14, <1>15
<1>18. StreamInv'
  BY <1>14, <1>16, <1>17 DEF StreamInv, PaddedBeats
<1>19. QED BY <1>1, <1>2, <1>18, StreamKept

LEMMA StreamKilledKept == TraceInv /\ StreamKilled => TraceInv'
<1>1. SUFFICES ASSUME TraceInv, StreamKilled PROVE TraceInv'
  OBVIOUS
<1>2. PICK k \in 0..Len(records) : records' = SubSeq(records, 1, k)
  BY <1>1 DEF StreamKilled
<1>3. stage = "stream" /\ stage' = "ready" /\ UNCHANGED conversion
  BY <1>1 DEF StreamKilled
<1>4. /\ DataInv /\ records \in Seq(RecordType) /\ Len(records) <= Len(desc)
      /\ Len(records) \in Nat /\ Len(desc) \in Nat
  <2>1. DataInv /\ records \in Seq(RecordType) /\ Len(records) <= Len(desc)
    BY <1>1, <1>3 DEF TraceInv, StreamInv
  <2>2. QED BY <2>1, LenProperties, DescFacts
<1>5. /\ records' \in Seq(RecordType) /\ Len(records') = k
      /\ \A i \in 1..k : records'[i] = records[i]
  <2>1. \A i \in 1..k : records[i] \in RecordType
    <3>1. TAKE i \in 1..k
    <3>2. i \in 1..Len(records)
      BY <1>4
    <3>3. QED BY <1>4, <3>2, ElementOfSeq
  <2>2. k \in Int /\ k \in Nat
    BY <1>4
  <2>3. QED BY <1>2, <2>1, <2>2, SubSeqProperties
<1>6. desc' = desc /\ turn' = turn
  BY <1>3 DEF conversion
<1>7. ASSUME NEW i \in 1..Len(records')
      PROVE  /\ records'[i].gap = desc'[i].gap
             /\ records'[i].payload = [b \in 1..PaddedBeats(records'[i].len) |-> <<turn', i, b>>]
  <2>1. i \in 1..Len(records) /\ records'[i] = records[i]
    BY <1>4, <1>5
  <2>2. /\ records[i].gap = desc[i].gap
        /\ records[i].payload = [b \in 1..PaddedBeats(records[i].len) |-> <<turn, i, b>>]
    BY <1>1, <1>3, <2>1 DEF TraceInv, StreamInv
  <2>3. QED BY <1>6, <2>1, <2>2
<1>8. Len(records') <= Len(desc')
  BY <1>4, <1>5, <1>6
<1>9. StreamInv'
  BY <1>5, <1>7, <1>8 DEF StreamInv, PaddedBeats
<1>10. QED BY <1>1, <1>3, <1>9, StreamKept

\* The steps that come after, and those that do nothing to the files.
LEMMA AfterTraceKept ==
    TraceInv /\ (\/ StreamEnd \/ StripeStart \/ StripeRecord \/ StripeEnd
                 \/ StripeKilled \/ AtRest) => TraceInv'
<1>1. SUFFICES ASSUME TraceInv,
                      \/ StreamEnd \/ StripeStart \/ StripeRecord \/ StripeEnd
                      \/ StripeKilled \/ AtRest
               PROVE  TraceInv'
  OBVIOUS
<1>2. turn = 0 => stage = "idle"
  BY <1>1 DEF TraceInv, SourceInv
<1>3. UNCHANGED <<conversion, streamFile>>
  BY <1>1 DEF StreamEnd, StripeStart, StripeRecord, StripeEnd, StripeKilled, AtRest,
              fileVars, streamFile
<1>4. /\ stage \notin {"pcap", "trace"} /\ stage' \notin {"pcap", "trace"}
      /\ stage = "idle" => stage' = "idle"
  <2>1. CASE StreamEnd
    BY <2>1 DEF StreamEnd
  <2>2. CASE StripeStart
    BY <2>2 DEF StripeStart
  <2>3. CASE StripeRecord
    <3>1. stage = "stripe" /\ stage' \in {"stripe", "idle"}
      BY <2>3 DEF StripeRecord
    <3>2. QED BY <3>1
  <2>4. CASE StripeEnd
    BY <2>4 DEF StripeEnd
  <2>5. CASE StripeKilled
    BY <2>5 DEF StripeKilled
  <2>6. CASE AtRest
    BY <2>6 DEF AtRest, fileVars
  <2>7. QED BY <1>1, <2>1, <2>2, <2>3, <2>4, <2>5, <2>6
<1>5. QED BY <1>1, <1>2, <1>3, <1>4, TraceFilesKept

\* The frames of a captured source and its options.
LEMMA SourceFacts ==
    ASSUME source \in SourceNow
    PROVE  /\ Captured => /\ source.packets \in Seq(FrameType)
                          /\ Len(source.packets) \in Nat
                          /\ \A i \in 1..Len(source.packets) :
                                /\ source.packets[i].ts \in Nat
                                /\ source.packets[i].incl \in Nat
                                /\ source.packets[i].orig \in Nat
           /\ ~Captured => /\ source.len \in Nat /\ source.kind \in {"gap", "rate"}
           /\ source.kind = "gap" => source.gap \in Nat
           /\ source.kind = "rate" => source.num \in Nat /\ source.den \in Nat \ {0}
<1>1. CASE Captured
  <2>1. source.packets \in Seq(FrameType)
    BY <1>1 DEF SourceNow, Captured
  <2>2. Len(source.packets) \in Nat
    BY <2>1, LenProperties
  <2>3. \A i \in 1..Len(source.packets) : source.packets[i] \in FrameType
    BY <2>1, ElementOfSeq
  <2>4. source.kind # "gap" /\ source.kind # "rate"
    BY <1>1 DEF Captured
  <2>5. QED BY <1>1, <2>1, <2>2, <2>3, <2>4 DEF FrameType
<1>2. CASE ~Captured
  BY <1>2 DEF SourceNow, Captured
<1>3. QED BY <1>1, <1>2

\* A descriptor and its beats go to the end of both files.
LEMMA PacketAdded ==
    ASSUME DataInv, stage = "trace", stage' = "trace", turn' = turn, turn \in Nat,
           NEW gap \in Int, NEW len \in Nat, AddPacket(gap, len)
    PROVE  /\ DataInv'
           /\ Len(desc') = Len(desc) + 1 /\ Len(desc) \in Nat
           /\ \A i \in 1..Len(desc) : desc'[i] = desc[i]
           /\ desc'[Len(desc) + 1].gap = gap
<1>1. PICK n \in Nat, w \in Nat, p \in Nat :
          n = Len(desc) /\ w = Len(data) /\ p = PaddedBeats(len)
  BY DescFacts, PaddedNat
<1> DEFINE added == [gap |-> gap, word |-> w, len |-> len]
           beats == [b \in 1..p |-> <<turn, n + 1, b>>]
<1>2. added \in DescType /\ added.gap = gap /\ added.word = w /\ added.len = len
  BY DEF DescType
<1>3. beats \in Seq(BeatType) /\ Len(beats) = p /\ \A b \in 1..p : beats[b] = <<turn, n + 1, b>>
  <2>1. beats \in [1..p -> BeatType]
    <3>1. \A b \in 1..p : <<turn, n + 1, b>> \in BeatType
      BY DEF BeatType
    <3>2. QED BY <3>1
  <2>2. beats \in Seq(BeatType)
    BY <2>1
  <2>3. Len(beats) = p
    BY <2>1, <2>2, LenProperties
  <2>4. QED BY <2>2, <2>3
<1>4. desc' = Append(desc, added) /\ data' = data \o beats
  BY <1>1 DEF AddPacket
<1> HIDE DEF added, beats
<1>5. /\ desc' \in Seq(DescType) /\ Len(desc') = n + 1
      /\ \A i \in 1..n : desc'[i] = desc[i]
      /\ desc'[n + 1] = added
  <2>1. desc \in Seq(DescType)
    BY DEF DataInv
  <2>2. QED BY <1>1, <1>2, <1>4, <2>1, AppendProperties
<1>6. /\ data' \in Seq(BeatType) /\ Len(data') = w + p
      /\ \A k \in 1..w : data'[k] = data[k]
      /\ \A b \in 1..p : data'[w + b] = beats[b]
  <2>1. data \in Seq(BeatType)
    BY DEF DataInv
  <2>2. /\ data \o beats \in Seq(BeatType) /\ Len(data \o beats) = Len(data) + Len(beats)
        /\ \A k \in 1..(Len(data) + Len(beats)) :
              (data \o beats)[k] = IF k <= Len(data) THEN data[k] ELSE beats[k - Len(data)]
    BY <1>3, <2>1, ConcatProperties
  <2>3. /\ data' \in Seq(BeatType) /\ Len(data') = w + p
        /\ \A k \in 1..(w + p) : data'[k] = IF k <= w THEN data[k] ELSE beats[k - w]
    BY <1>1, <1>3, <1>4, <2>2
  <2>4. \A k \in 1..w : data'[k] = data[k]
    BY <2>3
  <2>5. ASSUME NEW b \in 1..p PROVE data'[w + b] = beats[b]
    <3>1. w + b \in 1..(w + p) /\ ~(w + b <= w) /\ (w + b) - w = b
      OBVIOUS
    <3>2. QED BY <2>3, <3>1
  <2>6. QED BY <2>3, <2>4, <2>5
<1>7. ASSUME NEW i \in 1..(n + 1)
      PROVE  /\ \A b \in 1..PaddedBeats(desc'[i].len) :
                   desc'[i].word + b <= Len(data') => data'[desc'[i].word + b] = <<turn, i, b>>
             /\ desc'[i].word + PaddedBeats(desc'[i].len) <= Len(data')
  <2>1. CASE i = n + 1
    <3>1. desc'[i].word = w /\ PaddedBeats(desc'[i].len) = p
      BY <1>1, <1>2, <1>5, <2>1
    <3>2. QED BY <1>3, <1>6, <2>1, <3>1
  <2>2. CASE i # n + 1
    <3>1. i \in 1..Len(desc) /\ desc'[i] = desc[i]
      BY <1>1, <1>5, <2>2
    <3>2. PICK v \in Nat, q \in Nat : v = desc[i].word /\ q = PaddedBeats(desc[i].len)
      BY <3>1, DescFacts
    <3>3. v + q <= w /\ \A b \in 1..q : v + b <= w => data[v + b] = <<turn, i, b>>
      BY <1>1, <3>1, <3>2 DEF DataInv
    <3>4. \A b \in 1..q : data'[v + b] = <<turn, i, b>>
      <4>1. TAKE b \in 1..q
      <4>2. v + q <= w
        BY <3>3
      <4>3. v \in Nat /\ q \in Nat /\ w \in Nat
        BY <1>1, <3>2
      <4>4. v + b \in 1..w /\ v + b <= w
        BY <4>2, <4>3
      <4>5. data[v + b] = <<turn, i, b>>
        BY <3>3, <4>4
      <4>6. QED BY <1>6, <4>4, <4>5
    <3>5. v + q <= Len(data')
      BY <1>6, <3>3
    <3>6. QED BY <3>1, <3>2, <3>4, <3>5
  <2>3. QED BY <2>1, <2>2
<1>8. DataInv'
  BY <1>5, <1>6, <1>7 DEF DataInv, PaddedBeats
<1>9. QED BY <1>1, <1>2, <1>5, <1>8

\* The gap of a packet takes the accumulated ticks to when it is due.
LEMMA TicksGrow ==
    ASSUME NEW tick \in [Nat -> Int], Accumulates(tick), DataInv, stage = "trace",
           stage' = "trace", source' = source, NEW gap \in Int, NEW t \in Nat,
           prev_target_tick \in Nat, t = prev_target_tick + gap, prev_target_tick' = t,
           NearDue(Len(desc) + 1, t),
           Len(desc') = Len(desc) + 1, \A i \in 1..Len(desc) : desc'[i] = desc[i],
           desc'[Len(desc) + 1].gap = gap
    PROVE  \E ticks \in [Nat -> Int] : Accumulates(ticks)'
<1>1. PICK n \in Nat : n = Len(desc)
  BY DescFacts
<1> DEFINE ticks == [tick EXCEPT ![n + 1] = t]
<1>2. /\ ticks \in [Nat -> Int] /\ ticks[n + 1] = t
      /\ \A i \in 0..n : ticks[i] = tick[i]
  OBVIOUS
<1> HIDE DEF ticks
<1>3. /\ tick[0] = 0 /\ tick[n] = prev_target_tick
      /\ \A i \in 1..n : tick[i] = tick[i - 1] + desc[i].gap /\ NearDue(i, tick[i])
  BY <1>1 DEF Accumulates
<1>4. ticks[0] = 0
  BY <1>2, <1>3
<1>5. ASSUME NEW i \in 1..(n + 1)
      PROVE  ticks[i] = ticks[i - 1] + desc'[i].gap /\ NearDue(i, ticks[i])
  <2>1. CASE i = n + 1
    <3>1. ticks[i - 1] = prev_target_tick
      BY <1>2, <1>3, <2>1
    <3>2. ticks[i] = t /\ desc'[i].gap = gap
      BY <1>1, <1>2, <2>1
    <3>3. NearDue(i, ticks[i])
      BY <1>1, <2>1, <3>2
    <3>4. QED BY <3>1, <3>2, <3>3
  <2>2. CASE i # n + 1
    <3>1. i \in 1..n /\ i - 1 \in 0..n /\ i \in 0..n
      BY <2>2
    <3>2. desc'[i] = desc[i]
      BY <1>1, <3>1
    <3>3. ticks[i] = tick[i] /\ ticks[i - 1] = tick[i - 1]
      BY <1>2, <3>1
    <3>4. QED BY <1>3, <3>1, <3>2, <3>3
  <2>3. QED BY <2>1, <2>2
<1>6. \A i, u : NearDue(i, u)' = NearDue(i, u)
  BY SameSource
<1>7. Accumulates(ticks)'
  <2>1. Len(desc') = n + 1
    BY <1>1
  <2>2. \A i \in 1..(n + 1) : NearDue(i, ticks[i])'
    BY <1>5, <1>6
  <2>3. ticks[Len(desc')] = prev_target_tick'
    BY <1>2, <2>1
  <2>4. QED BY <1>4, <1>5, <2>1, <2>2, <2>3 DEF Accumulates
<1>8. QED BY <1>2, <1>7

\* One packet more, that is due near the tick it is given.
LEMMA AddKept ==
    ASSUME SourceInv, DataInv, \E tick \in [Nat -> Int] : Accumulates(tick),
           stage = "trace", UNCHANGED <<stage, turn, source>>,
           NEW gap \in Int, NEW len \in Nat, NEW t \in Nat, AddPacket(gap, len),
           t = prev_target_tick + gap, prev_target_tick' = t, NearDue(Len(desc) + 1, t)
    PROVE  /\ SourceInv' /\ DataInv' /\ StreamInv'
           /\ \E tick \in [Nat -> Int] : Accumulates(tick)'
           /\ Len(desc') = Len(desc) + 1 /\ Len(desc) \in Nat
<1>1. turn \in Nat /\ prev_target_tick \in Nat /\ turn # 0 /\ source \in SourceNow
  BY DEF SourceInv
<1>2. SourceInv'
  BY <1>1 DEF SourceInv
<1>3. /\ DataInv'
      /\ Len(desc') = Len(desc) + 1 /\ Len(desc) \in Nat
      /\ \A i \in 1..Len(desc) : desc'[i] = desc[i]
      /\ desc'[Len(desc) + 1].gap = gap
  BY <1>1, PacketAdded
<1>4. PICK tick \in [Nat -> Int] : Accumulates(tick)
  OBVIOUS
<1>5. \E ticks \in [Nat -> Int] : Accumulates(ticks)'
  BY <1>1, <1>3, <1>4, TicksGrow
<1>6. StreamInv'
  BY DEF StreamInv
<1>7. QED BY <1>2, <1>3, <1>5, <1>6

-----------------------------------------------------------------------------
(* The conversion.                                                         *)

\* A whole number of ticks that was rounded is near, and a fraction never is
\* rounded below one that came before.
LEMMA TargetTickNear ==
    ASSUME NEW m \in Nat, NEW since \in Int
    PROVE  LET prev == round(m * TickNum, TickDen)
               due == NotBefore(m, since)
           IN  /\ due \in Nat /\ since <= due /\ m <= due /\ due \in {m, since}
               /\ NotBefore(prev, round(NotBefore(0, since) * TickNum, TickDen))
                    = round(due * TickNum, TickDen)
<1>1. TickNum \in Nat /\ TickDen \in Nat \ {0}
  BY TraceConstants
<1> DEFINE due == NotBefore(m, since)
           late == NotBefore(0, since)
<1>2. due \in Nat /\ since <= due /\ m <= due /\ due \in {m, since} /\ late \in Nat
  BY DEF NotBefore
<1>3. CASE m < since
  <2>1. due = since /\ late = since
    BY <1>3 DEF NotBefore
  <2>2. PICK x \in Nat, y \in Nat : x = m * TickNum /\ y = since * TickNum /\ x <= y
    <3>1. PICK k \in Nat : since = m + k
      <4>1. since - m \in Nat /\ since = m + (since - m)
        BY <1>3
      <4>2. QED BY <4>1
    <3>2. since * TickNum = m * TickNum + k * TickNum
      BY <1>1, <3>1
    <3>3. m * TickNum \in Nat /\ k * TickNum \in Nat
      BY <1>1
    <3>4. QED BY <3>2, <3>3
  <2>3. round(x, TickDen) <= round(y, TickDen)
    BY <1>1, <2>2, RoundMonotone
  <2>4. round(x, TickDen) \in Nat /\ round(y, TickDen) \in Nat
    BY <1>1, <2>2, RoundNear
  <2>5. NotBefore(round(x, TickDen), round(y, TickDen)) = round(y, TickDen)
    BY <2>3, <2>4 DEF NotBefore
  <2>6. QED BY <1>2, <2>1, <2>2, <2>5
<1>4. CASE ~(m < since)
  <2>1. due = m /\ late <= m
    BY <1>4 DEF NotBefore
  <2>2. PICK x \in Nat, y \in Nat : x = late * TickNum /\ y = m * TickNum /\ x <= y
    <3>1. PICK k \in Nat : m = late + k
      <4>1. m - late \in Nat /\ m = late + (m - late)
        BY <1>2, <2>1
      <4>2. QED BY <4>1
    <3>2. m * TickNum = late * TickNum + k * TickNum
      BY <1>1, <1>2, <3>1
    <3>3. late * TickNum \in Nat /\ k * TickNum \in Nat
      BY <1>1, <1>2
    <3>4. QED BY <3>2, <3>3, <1>1
  <2>3. round(x, TickDen) <= round(y, TickDen)
    BY <1>1, <2>2, RoundMonotone
  <2>4. round(x, TickDen) \in Nat /\ round(y, TickDen) \in Nat
    BY <1>1, <2>2, RoundNear
  <2>5. NotBefore(round(y, TickDen), round(x, TickDen)) = round(y, TickDen)
    BY <2>3, <2>4 DEF NotBefore
  <2>6. QED BY <1>2, <2>1, <2>2, <2>5
<1>5. QED BY <1>3, <1>4

\* The latest time stamp so far, and the next packet's.
LEMMA LatestNext ==
    ASSUME source \in SourceNow, Captured, NEW n \in Nat, n < Len(source.packets),
           NEW m \in Nat, n = 0 => m = 0, n # 0 => Latest(n, m)
    PROVE  LET since == source.packets[n + 1].ts - source.packets[1].ts
           IN  since \in Int /\ Latest(n + 1, NotBefore(m, since))
<1> DEFINE since == source.packets[n + 1].ts - source.packets[1].ts
<1>1. Len(source.packets) \in Nat /\ 1 \in 1..Len(source.packets)
      /\ n + 1 \in 1..Len(source.packets)
  BY SourceFacts
<1>2. PICK a \in Nat, c \in Nat : a = source.packets[1].ts /\ c = source.packets[n + 1].ts
  BY <1>1, SourceFacts
<1>3. since \in Int /\ since = c - a
  BY <1>2
<1>4. PICK due \in Nat : due = NotBefore(m, since) /\ m <= due /\ since <= due
                         /\ (due = m \/ due = since)
  BY <1>3 DEF NotBefore
<1>5. CASE n = 0
  <2>1. since = 0 /\ due = 0
    BY <1>2, <1>3, <1>4, <1>5
  <2>2. \A j \in 1..(n + 1) : j = 1
    BY <1>5
  <2>3. source.packets[1].ts - source.packets[1].ts = 0
    BY <1>2
  <2>4. 1 \in 1..(n + 1)
    BY <1>5
  <2>5. Latest(n + 1, due)
    BY <2>1, <2>2, <2>3, <2>4 DEF Latest
  <2>6. QED BY <1>3, <1>4, <2>5
<1>6. CASE n # 0
  <2>1. Latest(n, m)
    BY <1>6
  <2>2. ASSUME NEW j \in 1..(n + 1)
        PROVE  source.packets[j].ts - source.packets[1].ts <= due
    <3>1. CASE j = n + 1
      BY <1>3, <1>4, <3>1
    <3>2. CASE j # n + 1
      <4>1. j \in 1..n /\ j \in 1..Len(source.packets)
        BY <1>1, <3>2
      <4>2. PICK b \in Nat : b = source.packets[j].ts
        BY <4>1, SourceFacts
      <4>3. source.packets[j].ts - source.packets[1].ts <= m
        BY <2>1, <4>1 DEF Latest
      <4>4. PICK d \in Int : d = source.packets[j].ts - source.packets[1].ts
        BY <1>2, <4>2
      <4>5. d <= m
        BY <4>3, <4>4
      <4>6. d <= due
        BY <1>4, <4>5
      <4>7. QED BY <4>4, <4>6
    <3>3. QED BY <3>1, <3>2
  <2>3. \E j \in 1..(n + 1) : due = source.packets[j].ts - source.packets[1].ts
    <3>1. CASE due = m
      <4>1. PICK j \in 1..n : m = source.packets[j].ts - source.packets[1].ts
        BY <2>1 DEF Latest
      <4>2. j \in 1..(n + 1)
        OBVIOUS
      <4>3. QED BY <3>1, <4>1, <4>2
    <3>2. CASE due = since
      <4>1. n + 1 \in 1..(n + 1)
        OBVIOUS
      <4>2. QED BY <3>2, <4>1
    <3>3. QED BY <1>4, <3>1, <3>2
  <2>4. Latest(n + 1, due)
    BY <2>2, <2>3 DEF Latest
  <2>5. QED BY <1>3, <1>4, <2>4
<1>7. QED BY <1>5, <1>6

LEMMA ConvertPacketKept == TraceInv /\ ConvertPacket => TraceInv'
<1>1. SUFFICES ASSUME TraceInv, ConvertPacket PROVE TraceInv'
  OBVIOUS
<1>2. /\ stage = "trace" /\ Captured /\ Len(desc) < Len(source.packets)
      /\ UNCHANGED <<stage, turn, source>>
      /\ AddPacket(TargetTick - prev_target_tick, FrameLen)
      /\ prev_target_tick' = TargetTick
  BY <1>1 DEF ConvertPacket
<1>3. SourceInv /\ DataInv /\ TimeInv
  BY <1>1 DEF TraceInv
<1>4. prev_target_tick \in Nat /\ turn # 0 /\ source \in SourceNow
  BY <1>2, <1>3 DEF SourceInv
<1>5. PICK n \in Nat : n = Len(desc)
  BY <1>3, DescFacts
<1>6. TickNum \in Nat /\ TickDen \in Nat \ {0} /\ MinFrame \in Nat
  BY TraceConstants
<1>7. \E m \in Nat : /\ n = 0 => m = 0
                     /\ n # 0 => Latest(n, m)
                     /\ prev_target_tick = round(m * TickNum, TickDen)
  <2>1. CASE n = 0
    <3>1. PICK tick \in [Nat -> Int] : Accumulates(tick)
      BY <1>3 DEF TimeInv
    <3>2. prev_target_tick = 0
      BY <1>2, <1>5, <2>1, <3>1 DEF Accumulates
    <3>3. round(0, TickDen) = 0
      <4>1. PICK r \in Nat : r = round(0, TickDen)
        BY <1>6, RoundNear
      <4>2. 2 * (r * TickDen - 0) <= TickDen
        BY <1>6, <4>1, RoundNear
      <4>3. r # 0 => r * TickDen >= TickDen
        <5>1. ASSUME r # 0 PROVE 0 * TickDen + TickDen <= r * TickDen
          <6>1. 0 < r /\ 0 \in Int /\ r \in Int
            BY <4>1, <5>1
          <6>2. QED BY <1>6, <6>1, MultipleGap
        <5>2. r * TickDen \in Nat
          BY <1>6
        <5>3. QED BY <1>6, <5>1, <5>2
      <4>4. PICK x \in Nat : x = r * TickDen
        BY <1>6
      <4>5. QED BY <1>6, <4>1, <4>2, <4>3, <4>4
    <3>4. 0 * TickNum = 0
      BY <1>6
    <3>5. QED BY <2>1, <3>2, <3>3, <3>4
  <2>2. CASE n # 0
    <3>1. desc # <<>>
      BY <1>5, <2>2
    <3>2. PICK m \in Nat : Latest(Len(desc), m) /\ prev_target_tick = round(m * TickNum, TickDen)
      BY <1>2, <1>3, <3>1 DEF TimeInv
    <3>3. QED BY <1>5, <2>2, <3>2
  <2>3. QED BY <2>1, <2>2
<1>8. PICK m \in Nat : /\ n = 0 => m = 0
                       /\ n # 0 => Latest(n, m)
                       /\ prev_target_tick = round(m * TickNum, TickDen)
  BY <1>7
<1>9. PICK since \in Int : /\ since = source.packets[n + 1].ts - source.packets[1].ts
                          /\ NotBefore(m, since) \in Nat
                          /\ Latest(n + 1, NotBefore(m, since))
  <2>1. PICK since \in Int : since = source.packets[n + 1].ts - source.packets[1].ts
    BY <1>2, <1>4, <1>5, <1>8, LatestNext
  <2>2. NotBefore(m, since) \in Nat
    BY <2>1 DEF NotBefore
  <2>3. Latest(n + 1, NotBefore(m, since))
    BY <1>2, <1>4, <1>5, <1>8, <2>1, LatestNext
  <2>4. QED BY <2>1, <2>2, <2>3
<1>10. TargetTick = NotBefore(prev_target_tick, round(NotBefore(0, since) * TickNum, TickDen))
  BY <1>5, <1>9 DEF TargetTick, packet
<1>11. PICK due \in Nat : /\ due = NotBefore(m, since) /\ Latest(n + 1, due)
                         /\ TargetTick = round(due * TickNum, TickDen)
  BY <1>8, <1>9, <1>10, TargetTickNear
<1>12. PICK t \in Nat : /\ t = TargetTick
                        /\ 2 * (t * TickDen - due * TickNum) <= TickDen
                        /\ 0 - 2 * (t * TickDen - due * TickNum) <= TickDen
  <2>1. due * TickNum \in Nat
    BY <1>6, <1>11
  <2>2. QED BY <1>6, <1>11, <2>1, RoundNear
<1>13. NearDue(n + 1, t)
  <2>1. source.packets \in Seq(FrameType) /\ n + 1 <= Len(source.packets)
    BY <1>2, <1>4, <1>5, SourceFacts
  <2>2. Due(n + 1) = [num |-> due * TickNum, den |-> TickDen]
    BY <1>2, <1>11, <2>1, DueCaptured
  <2>3. Due(n + 1).num = due * TickNum /\ Due(n + 1).den = TickDen
    BY <2>2
  <2>4. QED BY <1>12, <2>3 DEF NearDue
<1>14. FrameLen \in Nat
  <2>1. n + 1 \in 1..Len(source.packets)
    BY <1>2, <1>4, <1>5, SourceFacts
  <2>2. packet.incl \in Nat /\ packet.orig \in Nat
    BY <1>2, <1>4, <1>5, <2>1, SourceFacts DEF packet
  <2>3. QED BY <1>6, <2>2 DEF FrameLen, NotBefore
<1>15. PICK gap \in Int : gap = TargetTick - prev_target_tick /\ t = prev_target_tick + gap
  BY <1>4, <1>12
<1>16. PICK len \in Nat : len = FrameLen
  BY <1>14
<1>17. AddPacket(gap, len) /\ prev_target_tick' = t
  BY <1>2, <1>12, <1>15, <1>16
<1>18. \E tick \in [Nat -> Int] : Accumulates(tick)
  BY <1>3 DEF TimeInv
<1>19. /\ SourceInv' /\ DataInv' /\ StreamInv'
       /\ \E tick \in [Nat -> Int] : Accumulates(tick)'
       /\ Len(desc') = n + 1
  BY <1>2, <1>3, <1>5, <1>13, <1>15, <1>17, <1>18, AddKept
<1>20. TimeInv'
  <2>1. n + 1 <= Len(source'.packets)
    BY <1>2, <1>4, <1>5, SourceFacts
  <2>2. Latest(n + 1, due)'
    BY <1>2, <1>11, SameSource
  <2>3. prev_target_tick' = round(due * TickNum, TickDen)
    BY <1>11, <1>12, <1>17
  <2>4. source'.kind # "gap"
    BY <1>2 DEF Captured
  <2>5. QED BY <1>11, <1>19, <2>1, <2>2, <2>3, <2>4 DEF TimeInv
<1>21. QED BY <1>19, <1>20 DEF TraceInv

LEMMA GeneratePacketKept == TraceInv /\ GeneratePacket => TraceInv'
<1>1. SUFFICES ASSUME TraceInv, GeneratePacket PROVE TraceInv'
  OBVIOUS
<1>2. /\ stage = "trace" /\ ~Captured
      /\ UNCHANGED <<stage, turn, source>>
      /\ AddPacket(SyntheticTick(Len(desc)) - prev_target_tick, source.len)
      /\ prev_target_tick' = SyntheticTick(Len(desc))
  BY <1>1 DEF GeneratePacket
<1>3. SourceInv /\ DataInv /\ TimeInv
  BY <1>1 DEF TraceInv
<1>4. prev_target_tick \in Nat /\ turn # 0 /\ source \in SourceNow
  BY <1>2, <1>3 DEF SourceInv
<1>5. PICK n \in Nat : n = Len(desc)
  BY <1>3, DescFacts
<1>6. source.len \in Nat /\ source.kind \in {"gap", "rate"} /\ Overhead \in Nat
  BY <1>2, <1>4, SourceFacts, TraceConstants
<1>7. \E t \in Nat : /\ t = SyntheticTick(n) /\ NearDue(n + 1, t)
                     /\ source.kind = "gap" => t = (n + 1) * source.gap
  <2>1. CASE source.kind = "gap"
    <3>1. PICK g \in Nat : g = source.gap
      BY <1>4, <2>1, SourceFacts
    <3>2. prev_target_tick = n * g
      BY <1>2, <1>3, <1>5, <2>1, <3>1 DEF TimeInv
    <3>3. PICK t \in Nat : t = (n + 1) * g /\ t = n * g + g
      OBVIOUS
    <3>4. t = SyntheticTick(n)
      BY <2>1, <3>1, <3>2, <3>3 DEF SyntheticTick
    <3>5. Due(n + 1) = [num |-> (n + 1) * g, den |-> 1]
      BY <2>1, <3>1, DueOther
    <3>6. Due(n + 1).num = t /\ Due(n + 1).den = 1
      BY <3>3, <3>5
    <3>7. NearDue(n + 1, t)
      BY <3>3, <3>6 DEF NearDue
    <3>8. QED BY <3>1, <3>3, <3>4, <3>7
  <2>2. CASE source.kind = "rate"
    <3>1. PICK d \in Nat \ {0}, k \in Nat, m \in Nat :
              d = source.den /\ k = source.num /\ m = source.len + Overhead
      BY <1>4, <1>6, <2>2, SourceFacts
    <3>2. PICK x \in Nat : x = n * m * k
      <4>1. n * m \in Nat
        OBVIOUS
      <4>2. (n * m) * k \in Nat
        BY <4>1
      <4>3. QED BY <4>2
    <3>3. PICK t \in Nat : /\ t = (x + d \div 2) \div d
                           /\ 2 * (t * d - x) <= d /\ 0 - 2 * (t * d - x) <= d
      BY HalfNear
    <3>4. t = SyntheticTick(n)
      BY <2>2, <3>1, <3>2, <3>3 DEF SyntheticTick
    <3>5. Due(n + 1) = [num |-> ((n + 1) - 1) * (source.len + Overhead) * source.num,
                        den |-> source.den]
      BY <2>2, DueOther
    <3>6. (n + 1) - 1 = n
      OBVIOUS
    <3>7. Due(n + 1).num = x /\ Due(n + 1).den = d
      BY <3>1, <3>2, <3>5, <3>6
    <3>8. NearDue(n + 1, t)
      BY <3>3, <3>7 DEF NearDue
    <3>9. QED BY <2>2, <3>4, <3>8
  <2>3. QED BY <1>6, <2>1, <2>2
<1>8. PICK t \in Nat : /\ t = SyntheticTick(n) /\ NearDue(n + 1, t)
                       /\ source.kind = "gap" => t = (n + 1) * source.gap
  BY <1>7
<1>9. PICK gap \in Int : gap = t - prev_target_tick /\ t = prev_target_tick + gap
  BY <1>4
<1>10. PICK len \in Nat : len = source.len
  BY <1>6
<1>11. AddPacket(gap, len) /\ prev_target_tick' = t
  BY <1>2, <1>5, <1>8, <1>9, <1>10
<1>12. \E tick \in [Nat -> Int] : Accumulates(tick)
  BY <1>3 DEF TimeInv
<1>13. /\ SourceInv' /\ DataInv' /\ StreamInv'
       /\ \E tick \in [Nat -> Int] : Accumulates(tick)'
       /\ Len(desc') = n + 1
  BY <1>2, <1>3, <1>5, <1>8, <1>9, <1>11, <1>12, AddKept
<1>14. TimeInv'
  <2>1. ~Captured'
    BY <1>2, SameSource
  <2>2. source'.kind = "gap" => prev_target_tick' = (n + 1) * source'.gap
    BY <1>2, <1>8, <1>11
  <2>3. QED BY <1>13, <2>1, <2>2 DEF TimeInv
<1>15. QED BY <1>13, <1>14 DEF TraceInv

-----------------------------------------------------------------------------
(* The capture, and the next source.                                       *)

\* With nothing converted there is nothing to say of the conversion.
LEMMA NothingConverted ==
    ASSUME desc' = <<>>, data' = <<>>, prev_target_tick' = 0, stage' \in {"pcap", "trace"},
           turn' \in Nat \ {0}, source' \in SourceNow,
           stage' = "pcap" => source'.kind = "synthetic"
    PROVE  TraceInv'
<1>1. Len(desc') = 0 /\ 1..0 = {}
  OBVIOUS
<1>2. SourceInv'
  BY DEF SourceInv
<1>3. DataInv'
  BY <1>1 DEF DataInv
<1>4. TimeInv'
  <2>1. [i \in Nat |-> 0] \in [Nat -> Int] /\ [i \in Nat |-> 0][0] = 0
    OBVIOUS
  <2>2. PICK tick \in [Nat -> Int] : tick[0] = 0
    BY <2>1
  <2>3. Accumulates(tick)'
    BY <1>1, <2>2 DEF Accumulates
  <2>4. source'.kind = "gap" => 0 = 0 * source'.gap
    <3>1. source'.kind = "gap" => source'.gap \in Nat
      BY DEF SourceNow
    <3>2. QED BY <3>1
  <2>5. QED BY <1>1, <2>2, <2>3, <2>4 DEF TimeInv
<1>5. StreamInv'
  BY DEF StreamInv
<1>6. QED BY <1>2, <1>3, <1>4, <1>5 DEF TraceInv

LEMMA PrepareKept == TraceInv /\ Prepare => TraceInv'
<1>1. SUFFICES ASSUME TraceInv, Prepare PROVE TraceInv'
  OBVIOUS
<1>2. /\ turn < Len(Sources) /\ turn' = turn + 1 /\ source' \in Sources[turn + 1]
      /\ prev_target_tick' = 0 /\ desc' = <<>> /\ data' = <<>>
      /\ stage' = IF source'.kind = "synthetic" THEN "pcap" ELSE "trace"
  BY <1>1 DEF Prepare
<1>3. turn \in Nat
  BY <1>1 DEF TraceInv, SourceInv
<1>4. source' \in SourceType
  <2>1. Sources \in Seq(SUBSET SourceType) /\ Len(Sources) \in Nat
    BY TraceConstants, LenProperties
  <2>2. turn + 1 \in 1..Len(Sources)
    BY <1>2, <1>3, <2>1
  <2>3. Sources[turn + 1] \in SUBSET SourceType
    BY <2>1, <2>2, ElementOfSeq
  <2>4. QED BY <1>2, <2>3
<1>5. source' \in SourceNow
  <2>1. <<>> \in Seq(FrameType)
    OBVIOUS
  <2>2. QED BY <1>4, <2>1 DEF SourceType, SourceNow
<1>6. QED BY <1>2, <1>3, <1>5, NothingConverted

\* The nanoseconds between two generated frames.
LEMMA GapNsNat ==
    ASSUME source \in SourceNow, source.kind = "synthetic"
    PROVE  GapNs \in Nat
<1>1. source.gap_ns \in Nat \cup {NoOverride} /\ source.gap_ticks \in Nat \cup {NoOverride}
  BY DEF SourceNow
<1>2. ASSUME source.gap_ticks # NoOverride
      PROVE  round(source.gap_ticks * TickDen, TickNum) \in Nat
  <2>1. PICK x \in Nat : x = source.gap_ticks * TickDen
    BY <1>1, <1>2, TraceConstants
  <2>2. TickNum \in Nat \ {0}
    BY TraceConstants
  <2>3. QED BY <2>1, <2>2, RoundNear
<1>3. QED BY <1>1, <1>2 DEF GapNs

LEMMA CapturePacketKept == TraceInv /\ CapturePacket => TraceInv'
<1>1. SUFFICES ASSUME TraceInv, CapturePacket PROVE TraceInv'
  OBVIOUS
<1>2. /\ stage = "pcap" /\ UNCHANGED <<stage, turn, prev_target_tick, desc, data>>
  BY <1>1 DEF CapturePacket
<1>3. /\ turn \in Nat \ {0} /\ source \in SourceNow /\ source.kind = "synthetic"
      /\ desc = <<>> /\ data = <<>> /\ prev_target_tick = 0
  BY <1>1, <1>2 DEF TraceInv, SourceInv
<1>4. PICK frame \in FrameType :
          source' = [source EXCEPT !.packets = Append(source.packets, frame)]
  <2>1. source.packets \in Seq(FrameType) /\ source.len \in Nat
    BY <1>3 DEF SourceNow
  <2>2. PICK n \in Nat, g \in Nat, l \in Nat :
            n = Len(source.packets) /\ g = GapNs /\ l = source.len
    BY <1>3, <2>1, GapNsNat, LenProperties
  <2>3. n * g \in Nat
    OBVIOUS
  <2>4. [ts |-> n * g, incl |-> l, orig |-> l] \in FrameType
    BY <2>3 DEF FrameType
  <2>5. source' = [source EXCEPT !.packets =
                       Append(source.packets, [ts |-> n * g, incl |-> l, orig |-> l])]
    BY <1>1, <2>2 DEF CapturePacket
  <2>6. QED BY <2>4, <2>5
<1>5. source' \in SourceNow /\ source'.kind = "synthetic"
  <2>1. source \in [kind : {"synthetic"}, packets : Seq(FrameType), keep_fcs : BOOLEAN, count : Nat,
                    len : Nat, gap_ns : Nat \cup {NoOverride}, gap_ticks : Nat \cup {NoOverride}]
    BY <1>3 DEF SourceNow
  <2>2. PICK packets \in Seq(FrameType) : packets = Append(source.packets, frame)
    BY <2>1, AppendProperties
  <2>3. source' = [source EXCEPT !.packets = packets]
    BY <1>4, <2>2
  <2>4. source' \in [kind : {"synthetic"}, packets : Seq(FrameType), keep_fcs : BOOLEAN,
                     count : Nat, len : Nat, gap_ns : Nat \cup {NoOverride},
                     gap_ticks : Nat \cup {NoOverride}]
    BY <2>1, <2>3
  <2>5. QED BY <2>4 DEF SourceNow
<1>6. QED BY <1>2, <1>3, <1>5, NothingConverted

LEMMA CloseCaptureKept == TraceInv /\ CloseCapture => TraceInv'
<1>1. SUFFICES ASSUME TraceInv, CloseCapture PROVE TraceInv'
  OBVIOUS
<1>2. stage = "pcap" /\ stage' = "trace" /\ UNCHANGED conversion
  BY <1>1 DEF CloseCapture
<1>3. /\ turn \in Nat \ {0} /\ source \in SourceNow
      /\ desc = <<>> /\ data = <<>> /\ prev_target_tick = 0
  BY <1>1, <1>2 DEF TraceInv, SourceInv
<1>4. /\ turn' = turn /\ source' = source /\ desc' = desc /\ data' = data
      /\ prev_target_tick' = prev_target_tick
  BY <1>2 DEF conversion
<1>5. QED BY <1>2, <1>3, <1>4, NothingConverted

-----------------------------------------------------------------------------
(* The theorem.                                                            *)

\* A step of any of the tools keeps what is known of the files.
LEMMA NextTrace == TraceInv /\ [FilesNext]_fileVars => TraceInv'
<1>1. SUFFICES ASSUME TraceInv, [FilesNext]_fileVars PROVE TraceInv'
  OBVIOUS
<1>2. CASE Prepare
  BY <1>1, <1>2, PrepareKept
<1>3. CASE CapturePacket
  BY <1>1, <1>3, CapturePacketKept
<1>4. CASE CloseCapture
  BY <1>1, <1>4, CloseCaptureKept
<1>5. CASE ConvertPacket
  BY <1>1, <1>5, ConvertPacketKept
<1>6. CASE GeneratePacket
  BY <1>1, <1>6, GeneratePacketKept
<1>7. CASE CloseTrace
  BY <1>1, <1>7, CloseTraceKept
<1>8. CASE ConvertKilled
  BY <1>1, <1>8, ConvertKilledKept
<1>9. CASE StreamRecord
  BY <1>1, <1>9, StreamRecordKept
<1>10. CASE StreamKilled
  BY <1>1, <1>10, StreamKilledKept
<1>11. CASE StreamEnd \/ StripeStart \/ StripeRecord \/ StripeEnd \/ StripeKilled \/ AtRest
  BY <1>1, <1>11, AfterTraceKept
<1>12. CASE UNCHANGED fileVars
  <2>1. /\ stage' = stage /\ turn' = turn /\ source' = source /\ desc' = desc /\ data' = data
        /\ prev_target_tick' = prev_target_tick /\ records' = records
    BY <1>12 DEF fileVars, conversion, streamFile
  <2>2. SourceInv'
    BY <1>1, <2>1 DEF TraceInv, SourceInv
  <2>3. DataInv'
    BY <1>1, <2>1 DEF TraceInv, DataInv, PaddedBeats
  <2>4. TimeInv'
    <3>1. PICK tick \in [Nat -> Int] : Accumulates(tick)
      BY <1>1 DEF TraceInv, TimeInv
    <3>2. Accumulates(tick)'
      BY <2>1, <3>1, SameSource DEF Accumulates
    <3>3. stage' = "trace" /\ Captured' /\ desc' # <<>> =>
              /\ Len(desc') <= Len(source'.packets)
              /\ \E m \in Nat : /\ Latest(Len(desc), m)'
                              /\ prev_target_tick' = round(m * TickNum, TickDen)
      BY <1>1, <2>1, SameSource DEF TraceInv, TimeInv
    <3>4. stage' = "trace" /\ source'.kind = "gap" => prev_target_tick' = Len(desc') * source'.gap
      BY <1>1, <2>1 DEF TraceInv, TimeInv
    <3>5. QED BY <2>1, <3>1, <3>2, <3>3, <3>4 DEF TimeInv
  <2>5. StreamInv'
    BY <1>1, <2>1 DEF TraceInv, StreamInv, PaddedBeats
  <2>6. QED BY <2>2, <2>3, <2>4, <2>5 DEF TraceInv
<1>13. QED
  BY <1>1, <1>2, <1>3, <1>4, <1>5, <1>6, <1>7, <1>8, <1>9, <1>10, <1>11, <1>12 DEF FilesNext

\* What the invariant says of a stream is what the property asks: the
\* accumulated gaps are the only function that is a sum of gaps.
LEMMA TraceInvFaithful == TraceInv => StreamFaithful
<1>1. SUFFICES ASSUME TraceInv, stage \notin {"pcap", "trace"}, NEW k \in DOMAIN records
               PROVE  /\ records[k].payload
                           = [b \in 1..PaddedBeats(records[k].len) |-> <<turn, k, b>>]
                      /\ NearDue(k, TickOf[k])
  BY DEF StreamFaithful, NearDue
<1>2. DataInv /\ records \in Seq(RecordType) /\ Len(records) <= Len(desc)
  BY <1>1 DEF TraceInv, StreamInv
<1>3. PICK n \in Nat : n = Len(records) /\ DOMAIN records = 1..n /\ n <= Len(desc)
                       /\ Len(desc) \in Nat
  BY <1>2, LenProperties, DescFacts
<1>4. \A i \in 1..n : /\ records[i].gap = desc[i].gap
                      /\ records[i].payload
                           = [b \in 1..PaddedBeats(records[i].len) |-> <<turn, i, b>>]
  BY <1>1, <1>3 DEF TraceInv, StreamInv
<1>5. PICK tick \in [Nat -> Int] : Accumulates(tick)
  BY <1>1 DEF TraceInv, TimeInv
<1>6. /\ tick[0] = 0
      /\ \A i \in 1..n : /\ tick[i] = tick[i - 1] + records[i].gap
                         /\ NearDue(i, tick[i])
  <2>1. \A i \in 1..n : i \in 1..Len(desc)
    BY <1>3
  <2>2. QED BY <1>4, <1>5, <2>1 DEF Accumulates
<1>7. TickOf = [i \in 0..n |-> IF i = 0 THEN 0 ELSE TickOf[i - 1] + records[i].gap]
  <2> DEFINE sum == [i \in 0..n |-> tick[i]]
  <2>1. sum = [i \in 0..n |-> IF i = 0 THEN 0 ELSE sum[i - 1] + records[i].gap]
    <3>1. ASSUME NEW i \in 0..n
          PROVE  sum[i] = IF i = 0 THEN 0 ELSE sum[i - 1] + records[i].gap
      <4>1. CASE i = 0
        BY <1>6, <4>1
      <4>2. CASE i # 0
        <5>1. i \in 1..n /\ i - 1 \in 0..n
          BY <1>3, <4>2
        <5>2. QED BY <1>6, <4>2, <5>1
      <4>3. QED BY <4>1, <4>2
    <3>2. QED BY <3>1
  <2> HIDE DEF sum
  <2>2. QED BY <1>3, <2>1 DEF TickOf
<1>8. {i \in Nat : i <= n => TickOf[i] = tick[i]} = Nat
  <2> DEFINE S == {i \in Nat : i <= n => TickOf[i] = tick[i]}
  <2>1. 0 \in S
    BY <1>3, <1>6, <1>7
  <2>2. ASSUME NEW i \in S PROVE i + 1 \in S
    <3>1. CASE i + 1 <= n
      <4>1. i \in Nat /\ i + 1 \in 1..n /\ i + 1 \in 0..n /\ (i + 1) - 1 = i
        BY <1>3, <3>1
      <4>2. TickOf[i] = tick[i]
        BY <1>3, <3>1
      <4>3. TickOf[i + 1] = TickOf[i] + records[i + 1].gap
        <5>1. TickOf[i + 1] = IF i + 1 = 0 THEN 0 ELSE TickOf[(i + 1) - 1] + records[i + 1].gap
          <6> HIDE DEF S
          <6>1. QED BY <1>7, <4>1
        <5>2. QED BY <4>1, <5>1
      <4>4. tick[i + 1] = tick[i] + records[i + 1].gap
        BY <1>6, <4>1
      <4>5. QED BY <4>1, <4>2, <4>3, <4>4
    <3>2. CASE ~(i + 1 <= n)
      BY <3>2
    <3>3. QED BY <3>1, <3>2
  <2>3. S \subseteq Nat
    OBVIOUS
  <2> HIDE DEF S
  <2>4. S = Nat
    BY <2>1, <2>2, <2>3, Induction
  <2>5. QED BY <2>4 DEF S
<1>9. k \in 1..n /\ k \in Nat /\ k <= n
  BY <1>3
<1>10. TickOf[k] = tick[k]
  BY <1>8, <1>9
<1>11. QED BY <1>4, <1>6, <1>9, <1>10

\* What holds of desc.bin, data.bin and stream.bin between any two steps.
THEOREM TraceHolds == FilesSpec => []TraceInv
<1>1. FilesInit => TraceInv
  BY InitTrace
<1>2. TraceInv /\ [FilesNext]_fileVars => TraceInv'
  BY NextTrace
<1>3. QED BY <1>1, <1>2, PTL DEF FilesSpec

\* However a tool is killed, what trace_to_stream makes of its files carries
\* the frames of the source, each within half a tick of when it is due.
THEOREM StreamStaysFaithful == FilesSpec => []StreamFaithful
<1>1. TraceInv => StreamFaithful
  BY TraceInvFaithful
<1>2. QED BY <1>1, TraceHolds, PTL

\* What a flattened sequence is built from: the first i sequences put together.
LEMMA FlattenIs ==
    ASSUME NEW S, NEW s \in Seq(Seq(S)), NEW g \in [Nat -> Seq(S)],
           g[0] = <<>>, \A i \in 1..Len(s) : g[i] = g[i - 1] \o s[i]
    PROVE  FlattenSeq(s) = g[Len(s)]
<1>1. PICK n \in Nat : n = Len(s)
  BY LenProperties
<1>2. CASE n = 0
  <2>1. s = <<>>
    BY <1>1, <1>2, EmptySeq
  <2>2. FlattenSeq(s) = s
    BY <1>1, <1>2 DEF FlattenSeq
  <2>3. QED BY <1>1, <1>2, <2>1, <2>2
<1>3. CASE n # 0
  <2> DEFINE flatten[i \in 1..Len(s)] == IF i = 1 THEN s[i] ELSE flatten[i - 1] \o s[i]
  <2>1. FlattenSeq(s) = flatten[Len(s)]
    BY <1>1, <1>3 DEF FlattenSeq
  <2>2. flatten = [i \in 1..n |-> IF i = 1 THEN s[i] ELSE flatten[i - 1] \o s[i]]
    <3> DEFINE part == [i \in 1..n |-> g[i]]
    <3>1. ASSUME NEW i \in 1..n
          PROVE  part[i] = IF i = 1 THEN s[i] ELSE part[i - 1] \o s[i]
      <4>1. s[i] \in Seq(S) /\ g[i] = g[i - 1] \o s[i]
        BY <1>1, ElementOfSeq
      <4>2. CASE i = 1
        <5>1. i - 1 = 0
          BY <4>2
        <5>2. g[i] = <<>> \o s[i]
          BY <4>1, <5>1
        <5>3. g[i] = s[i]
          BY <4>1, <5>2, ConcatEmptySeq
        <5>4. QED BY <4>2, <5>3
      <4>3. CASE i # 1
        <5>1. i - 1 \in 1..n
          BY <4>3
        <5>2. part[i - 1] = g[i - 1]
          BY <5>1
        <5>3. QED BY <4>1, <4>3, <5>2
      <4>4. QED BY <4>2, <4>3
    <3>2. part = [i \in 1..n |-> IF i = 1 THEN s[i] ELSE part[i - 1] \o s[i]]
      BY <3>1
    <3> HIDE DEF part
    <3>3. QED BY <1>1, <3>2
  <2> HIDE DEF flatten
  <2> DEFINE Good == {i \in Nat : i + 1 <= n => flatten[i + 1] = g[i + 1]}
  <2>3. 0 \in Good
    <3>1. 1 \in 1..n
      BY <1>3
    <3>2. flatten[1] = s[1]
      BY <2>2, <3>1
    <3>3. PICK i \in 1..Len(s) : i = 1 /\ i - 1 = 0
      BY <1>1, <3>1
    <3>4. s[i] \in Seq(S) /\ g[i] = <<>> \o s[i]
      BY <3>3, ElementOfSeq
    <3>5. g[i] = s[i]
      BY <3>4, ConcatEmptySeq
    <3>6. flatten[1] = g[1]
      BY <3>2, <3>3, <3>5
    <3>7. 0 + 1 = 1
      OBVIOUS
    <3>8. QED BY <3>6, <3>7
  <2>4. ASSUME NEW i \in Good PROVE i + 1 \in Good
    <3>1. CASE i + 2 <= n
      <4>1. i \in Nat /\ i + 2 \in 1..n /\ i + 2 # 1 /\ (i + 2) - 1 = i + 1 /\ (i + 1) + 1 = i + 2
        BY <3>1
      <4>2. flatten[i + 1] = g[i + 1]
        BY <3>1
      <4>3. flatten[i + 2] = flatten[(i + 2) - 1] \o s[i + 2]
        <5> HIDE DEF Good
        <5>1. QED BY <2>2, <4>1
      <4>4. g[i + 2] = g[(i + 2) - 1] \o s[i + 2]
        BY <1>1, <4>1
      <4>5. flatten[i + 2] = g[i + 2]
        BY <4>1, <4>2, <4>3, <4>4
      <4>6. i + 1 \in Nat /\ flatten[(i + 1) + 1] = g[(i + 1) + 1]
        <5> HIDE DEF Good, flatten
        <5>1. i + 1 \in Nat /\ (i + 1) + 1 = i + 2
          BY <4>1
        <5>2. QED BY <4>5, <5>1, Zenon
      <4> HIDE DEF flatten
      <4>7. QED BY <4>6
    <3>2. CASE ~(i + 2 <= n)
      <4>1. i + 1 \in Nat /\ ~((i + 1) + 1 <= n)
        BY <3>2
      <4>2. QED BY <4>1
    <3>3. QED BY <3>1, <3>2
  <2>5. Good \subseteq Nat
    OBVIOUS
  <2> HIDE DEF Good
  <2>6. Good = Nat
    BY <2>3, <2>4, <2>5, Induction
  <2>7. n - 1 \in Good /\ (n - 1) + 1 = n
    BY <1>3, <2>6
  <2>8. QED BY <1>1, <2>1, <2>7 DEF Good
<1>4. QED BY <1>2, <1>3

\* Such parts there are for every sequence of sequences.
LEMMA FlattenParts ==
    ASSUME NEW S, NEW s \in Seq(Seq(S))
    PROVE  \E g \in [Nat -> Seq(S)] :
               g[0] = <<>> /\ \A i \in 1..Len(s) : g[i] = g[i - 1] \o s[i]
<1>1. PICK n \in Nat : n = Len(s)
  BY LenProperties
<1> DEFINE Parts(g, k) == g[0] = <<>> /\ \A i \in 1..k : g[i] = g[i - 1] \o s[i]
           Good == {k \in Nat : k <= n => \E g \in [Nat -> Seq(S)] : Parts(g, k)}
<1>2. 0 \in Good
  <2>1. [i \in Nat |-> <<>>] \in [Nat -> Seq(S)]
    OBVIOUS
  <2>2. Parts([i \in Nat |-> <<>>], 0)
    OBVIOUS
  <2>3. QED BY <2>1, <2>2
<1>3. ASSUME NEW k \in Good PROVE k + 1 \in Good
  <2>1. CASE k + 1 <= n
    <3>1. k \in Nat /\ k <= n
      BY <2>1
    <3>2. k + 1 \in 1..Len(s) /\ k + 1 \in Nat
      BY <1>1, <2>1, <3>1
    <3>g. PICK g \in [Nat -> Seq(S)] : Parts(g, k)
      <4> HIDE DEF Parts
      <4>1. QED BY <3>1, Zenon
    <3>3. PICK x \in Seq(S) : x = g[k] \o s[k + 1]
      <4>1. s[k + 1] \in Seq(S) /\ g[k] \in Seq(S)
        BY <3>2, ElementOfSeq
      <4>2. QED BY <4>1, ConcatProperties
    <3> DEFINE h == [g EXCEPT ![k + 1] = x]
    <3>4. h \in [Nat -> Seq(S)] /\ h[k + 1] = x /\ \A i \in 0..k : h[i] = g[i]
      BY <3>2
    <3> HIDE DEF h
    <3>5. h[0] = <<>>
      BY <3>1, <3>g, <3>4
    <3>6. ASSUME NEW i \in 1..(k + 1) PROVE h[i] = h[i - 1] \o s[i]
      <4>1. CASE i = k + 1
        <5>1. i - 1 = k /\ k \in 0..k
          BY <3>1, <4>1
        <5>2. h[i - 1] = g[k]
          BY <3>4, <5>1
        <5>3. QED BY <3>3, <3>4, <4>1, <5>2
      <4>2. CASE i # k + 1
        <5>1. i \in 1..k /\ i \in 0..k /\ i - 1 \in 0..k
          BY <3>1, <4>2
        <5>2. h[i] = g[i] /\ h[i - 1] = g[i - 1]
          BY <3>4, <5>1
        <5>3. QED BY <3>g, <5>1, <5>2
      <4>3. QED BY <4>1, <4>2
    <3>7. Parts(h, k + 1)
      BY <3>5, <3>6
    <3>8. QED
      <4> HIDE DEF Parts
      <4>1. QED BY <3>2, <3>4, <3>7, Zenon
  <2>2. CASE ~(k + 1 <= n)
    <3>1. k + 1 \in Nat
      OBVIOUS
    <3>2. QED BY <2>2, <3>1
  <2>3. QED BY <2>1, <2>2
<1>4. Good \subseteq Nat
  OBVIOUS
<1>5. Good = Nat
  <2> HIDE DEF Good
  <2>1. QED BY <1>2, <1>3, <1>4, Induction
<1>6. n \in Good
  <2> HIDE DEF Good
  <2>1. QED BY <1>5
<1>7. \E g \in [Nat -> Seq(S)] : Parts(g, n)
  <2> HIDE DEF Parts
  <2>1. n <= n
    OBVIOUS
  <2>2. QED BY <1>6, <2>1, Zenon
<1>8. QED BY <1>1, <1>7

\* A sequence more at the end is put behind the others.
LEMMA FlattenGrows ==
    ASSUME NEW S, NEW s \in Seq(Seq(S)), NEW x \in Seq(S)
    PROVE  /\ FlattenSeq(s) \in Seq(S)
           /\ FlattenSeq(Append(s, x)) = FlattenSeq(s) \o x
<1>1. PICK n \in Nat : n = Len(s)
  BY LenProperties
<1>2. /\ Append(s, x) \in Seq(Seq(S)) /\ Len(Append(s, x)) = n + 1
      /\ \A i \in 1..n : Append(s, x)[i] = s[i]
      /\ Append(s, x)[n + 1] = x
  BY <1>1, AppendProperties
<1>3. PICK t \in Seq(Seq(S)) : t = Append(s, x)
  BY <1>2
<1>4. PICK g \in [Nat -> Seq(S)] :
          g[0] = <<>> /\ \A i \in 1..Len(t) : g[i] = g[i - 1] \o t[i]
  BY FlattenParts
<1>5. FlattenSeq(t) = g[n + 1]
  BY <1>2, <1>3, <1>4, FlattenIs
<1>6. \A i \in 1..Len(s) : g[i] = g[i - 1] \o s[i]
  <2>1. TAKE i \in 1..Len(s)
  <2>2. i \in 1..n /\ i \in 1..Len(t)
    BY <1>1, <1>2, <1>3
  <2>3. QED BY <1>2, <1>3, <1>4, <2>2
<1>7. FlattenSeq(s) = g[n]
  BY <1>1, <1>4, <1>6, FlattenIs
<1>8. g[n + 1] = g[n] \o x
  <2>1. n + 1 \in 1..Len(t) /\ (n + 1) - 1 = n
    BY <1>2, <1>3
  <2>2. g[n + 1] = g[(n + 1) - 1] \o t[n + 1]
    BY <1>4, <2>1
  <2>3. QED BY <1>2, <1>3, <2>1, <2>2
<1>9. QED BY <1>3, <1>5, <1>7, <1>8

-----------------------------------------------------------------------------
(* stream_stripe: what is in the blocks while they are written.  The       *)
(* operators take the state as arguments, so as to speak of the state      *)
(* between finishing a block and writing to the next.                      *)

\* Headers and payload beats, as they stand in a lane file.
StripeBeat == ({"header"} \X Int \X Nat) \cup BeatType
Override == Nat \cup {NoOverride}
StripeType == [container : BOOLEAN, force : BOOLEAN, override : Override,
               id : Nat, packets : Nat, beats : Nat, first : Nat, offset : Nat,
               offsets : [0..(Lanes - 1) -> Nat]]
EntryType == [path : Seq(Nat), lane : Nat, beats : Nat, packets : Nat,
              first_packet : Nat, file_offset : Nat]

\* Written, BlockEntry, ContainerOffsets and NextBlock of a given stripe.
WrittenAs(r, override) ==
    <<Header(IF override = NoOverride THEN r.gap ELSE override, r.len)>> \o r.payload
EntryOf(s) == [path |-> PathOf(s, s.id), lane |-> Lane(s.id), beats |-> s.beats,
               packets |-> s.packets, first_packet |-> s.first, file_offset |-> s.offset]
OffsetsOf(s) == IF s.container THEN [s.offsets EXCEPT ![Lane(s.id)] = @ + s.beats]
                ELSE s.offsets
NextOf(s, first) ==
    [s EXCEPT !.id = s.id + 1, !.packets = 0, !.beats = 0, !.first = first,
              !.offsets = OffsetsOf(s),
              !.offset = IF s.container THEN OffsetsOf(s)[Lane(s.id + 1)] ELSE 0]

\* The n records after the first f, as they are written.
PartsOf(recs, override, f, n) == [i \in 1..n |-> WrittenAs(recs[f + i], override)]
Cut(recs, override, f, n) == FlattenSeq(PartsOf(recs, override, f, n))

\* Entry e tells where block id is, and the records e says are there.
EntryHolds(e, id, s, fs, recs) ==
    LET cut == Cut(recs, s.override, e.first_packet, e.packets)
    IN  /\ e.path = PathOf(s, id) /\ e.lane = Lane(id) /\ e.path \in DOMAIN fs
        /\ e.first_packet + e.packets <= Len(recs)
        /\ e.beats = Len(cut)
        /\ e.beats <= BlockBeats \/ e.packets = 1
        /\ e.file_offset + e.beats <= Len(fs[e.path])
        /\ \A k \in 1..e.beats : fs[e.path][e.file_offset + k] = cut[k]

\* The record that follows the first n blocks.
After(list, n) == IF n = 0 THEN 0 ELSE list[n].first_packet + list[n].packets

\* Each block of the list begins with the record after the last of the one before.
BlocksHold(list, n, s, fs, recs) ==
    \A b \in 1..n : /\ EntryHolds(list[b], b - 1, s, fs, recs)
                    /\ list[b].first_packet = After(list, b - 1)
ListHolds(list, s, fs, recs) ==
    list \in Seq(EntryType) /\ BlocksHold(list, Len(list), s, fs, recs)

\* In a container each lane ends where its next block is to begin.
LanesKnown(s, fs) ==
    s.container =>
        /\ s.offset = s.offsets[Lane(s.id)]
        /\ \A l \in 0..(Lanes - 1) : <<l>> \in DOMAIN fs /\ Len(fs[<<l>>]) = OffsetsOf(s)[l]

\* Block s.id is being written; the list holds those that are finished.
UnderWay(s, fs, list, recs) ==
    /\ Len(list) = s.id /\ list \in Seq(EntryType)
    /\ ListHolds(Append(list, EntryOf(s)), s, fs, recs)
    /\ s.offset + s.beats = Len(fs[PathOf(s, s.id)])
    /\ LanesKnown(s, fs)

StripeInv ==
    /\ files \in [DOMAIN files -> Seq(StripeBeat)]
    /\ stripe \in StripeType
    /\ stage = "stripe" => /\ UnderWay(stripe, files, blocks, records)
                           /\ done = stripe.first + stripe.packets
    /\ stage = "striped" =>
          /\ ListHolds(blocks, stripe, files, records) /\ blocks # <<>>
          /\ After(blocks, Len(blocks)) = Len(records)

LEMMA WrittenType ==
    ASSUME NEW r \in RecordType, NEW override \in Override
    PROVE  /\ WrittenAs(r, override) \in Seq(StripeBeat)
           /\ Len(WrittenAs(r, override)) = RecordBeats(r)
           /\ RecordBeats(r) \in Nat
<1>1. r.gap \in Int /\ r.len \in Nat /\ r.payload \in Seq(BeatType)
  BY DEF RecordType
<1>2. PICK gap \in Int : gap = IF override = NoOverride THEN r.gap ELSE override
  BY <1>1 DEF Override, NoOverride
<1>3. PICK beat : beat = Header(gap, r.len) /\ beat \in StripeBeat
  <2>1. <<"header", gap, r.len>> \in {"header"} \X Int \X Nat
    BY <1>1
  <2>2. QED BY <2>1 DEF Header, StripeBeat
<1>4. <<beat>> \in Seq(StripeBeat) /\ Len(<<beat>>) = 1
  BY <1>3
<1>5. r.payload \in Seq(StripeBeat)
  <2>1. BeatType \subseteq StripeBeat
    BY DEF StripeBeat
  <2>2. QED BY <1>1, <2>1, SeqMonotonic
<1>6. <<beat>> \o r.payload \in Seq(StripeBeat) /\ Len(<<beat>> \o r.payload) = 1 + Len(r.payload)
  BY <1>4, <1>5, ConcatProperties
<1>7. WrittenAs(r, override) = <<beat>> \o r.payload
  BY <1>2, <1>3 DEF WrittenAs
<1>8. Len(r.payload) \in Nat
  BY <1>1, LenProperties
<1>9. QED BY <1>6, <1>7, <1>8 DEF RecordBeats

\* The sequences that a cut puts together.
LEMMA CutParts ==
    ASSUME NEW recs \in Seq(RecordType), NEW override \in Override,
           NEW f \in Nat, NEW n \in Nat, f + n <= Len(recs)
    PROVE  /\ PartsOf(recs, override, f, n) \in Seq(Seq(StripeBeat))
           /\ Len(PartsOf(recs, override, f, n)) = n
<1> DEFINE parts == [i \in 1..n |-> WrittenAs(recs[f + i], override)]
<1>1. Len(recs) \in Nat
  BY LenProperties
<1>2. \A i \in 1..n : WrittenAs(recs[f + i], override) \in Seq(StripeBeat)
  <2>1. TAKE i \in 1..n
  <2>2. f + i \in 1..Len(recs)
    BY <1>1
  <2>3. recs[f + i] \in RecordType
    BY <2>2, ElementOfSeq
  <2>4. QED BY <2>3, WrittenType
<1>3. parts \in [1..n -> Seq(StripeBeat)]
  BY <1>2
<1> HIDE DEF parts
<1>4. parts \in Seq(Seq(StripeBeat))
  BY <1>3
<1>5. Len(parts) = n
  BY <1>3, <1>4, LenProperties
<1>6. QED BY <1>4, <1>5 DEF parts, PartsOf

LEMMA CutStep ==
    ASSUME NEW recs \in Seq(RecordType), NEW override \in Override,
           NEW f \in Nat, NEW n \in Nat, f + n < Len(recs)
    PROVE  /\ Cut(recs, override, f, n) \in Seq(StripeBeat)
           /\ Cut(recs, override, f, n + 1)
                = Cut(recs, override, f, n) \o WrittenAs(recs[f + n + 1], override)
           /\ WrittenAs(recs[f + n + 1], override) \in Seq(StripeBeat)
<1>1. Len(recs) \in Nat
  BY LenProperties
<1> DEFINE parts == PartsOf(recs, override, f, n)
           more == PartsOf(recs, override, f, n + 1)
<1>2. PICK x \in Seq(StripeBeat) : x = WrittenAs(recs[f + n + 1], override)
  <2>1. f + n + 1 \in 1..Len(recs)
    BY <1>1
  <2>2. recs[f + n + 1] \in RecordType
    BY <2>1, ElementOfSeq
  <2>3. QED BY <2>2, WrittenType
<1>3. parts \in Seq(Seq(StripeBeat)) /\ Len(parts) = n
  <2>1. f + n <= Len(recs)
    BY <1>1
  <2>2. QED BY <2>1, CutParts
<1>4. more \in Seq(Seq(StripeBeat)) /\ Len(more) = n + 1
  <2>1. n + 1 \in Nat /\ f + (n + 1) <= Len(recs)
    BY <1>1
  <2>2. QED BY <2>1, CutParts
<1>5. /\ \A i \in 1..n : more[i] = parts[i]
      /\ more[n + 1] = x
  <2>1. n + 1 \in 1..(n + 1) /\ f + (n + 1) = f + n + 1 /\ \A i \in 1..n : i \in 1..(n + 1)
    OBVIOUS
  <2>2. QED BY <1>2, <2>1 DEF PartsOf
<1> HIDE DEF parts, more
<1>6. more = Append(parts, x)
  <2>1. PICK t \in Seq(Seq(StripeBeat)) : t = Append(parts, x)
    BY <1>3, AppendProperties
  <2>2. Len(t) = n + 1 /\ (\A i \in 1..n : t[i] = parts[i]) /\ t[n + 1] = x
    BY <1>3, <2>1, AppendProperties
  <2>3. \A i \in 1..(n + 1) : more[i] = t[i]
    <3>1. TAKE i \in 1..(n + 1)
    <3>2. i \in 1..n \/ i = n + 1
      OBVIOUS
    <3>3. QED BY <1>5, <2>2, <3>2
  <2>4. more = t
    BY <1>4, <2>1, <2>2, <2>3, SeqEqual
  <2>5. QED BY <2>1, <2>4
<1>7. FlattenSeq(parts) \in Seq(StripeBeat) /\ FlattenSeq(more) = FlattenSeq(parts) \o x
  BY <1>2, <1>3, <1>6, FlattenGrows
<1>8. QED BY <1>2, <1>7 DEF Cut, parts, more

LEMMA CutType ==
    ASSUME NEW recs \in Seq(RecordType), NEW override \in Override,
           NEW f \in Nat, NEW n \in Nat, f + n <= Len(recs)
    PROVE  /\ Cut(recs, override, f, n) \in Seq(StripeBeat)
           /\ n = 0 => Cut(recs, override, f, n) = <<>>
<1> DEFINE parts == PartsOf(recs, override, f, n)
<1>1. parts \in Seq(Seq(StripeBeat)) /\ Len(parts) = n
  BY CutParts
<1> HIDE DEF parts
<1>2. FlattenSeq(parts) \in Seq(StripeBeat)
  <2>1. <<>> \in Seq(StripeBeat)
    OBVIOUS
  <2>2. QED BY <1>1, <2>1, FlattenGrows
<1>3. n = 0 => FlattenSeq(parts) = <<>>
  <2>1. n = 0 => parts = <<>>
    BY <1>1, EmptySeq
  <2>2. n = 0 => FlattenSeq(parts) = parts
    BY <1>1 DEF FlattenSeq
  <2>3. QED BY <2>1, <2>2
<1>4. QED BY <1>2, <1>3 DEF Cut, parts

\* The first f records and the n behind them are the first f + n.
LEMMA CutSplit ==
    ASSUME NEW recs \in Seq(RecordType), NEW override \in Override,
           NEW f \in Nat, NEW n \in Nat, f + n <= Len(recs)
    PROVE  Cut(recs, override, 0, f + n)
             = Cut(recs, override, 0, f) \o Cut(recs, override, f, n)
<1>1. Len(recs) \in Nat
  BY LenProperties
<1> DEFINE Splits(k) == Cut(recs, override, 0, f + k)
                          = Cut(recs, override, 0, f) \o Cut(recs, override, f, k)
           Good == {k \in Nat : k <= n => Splits(k)}
<1>2. PICK c \in Seq(StripeBeat) : c = Cut(recs, override, 0, f)
  <2>1. 0 \in Nat /\ 0 + f <= Len(recs)
    BY <1>1
  <2>2. QED BY <2>1, CutType
<1>3. 0 \in Good
  <2>1. 0 \in Nat /\ f + 0 <= Len(recs) /\ f + 0 = f
    BY <1>1
  <2>2. Cut(recs, override, f, 0) = <<>>
    BY <2>1, CutType
  <2>3. c \o <<>> = c
    BY ConcatEmptySeq
  <2>4. Splits(0)
    BY <1>2, <2>1, <2>2, <2>3
  <2>5. QED BY <2>4
<1>4. ASSUME NEW k \in Good PROVE k + 1 \in Good
  <2>1. CASE k + 1 <= n
    <3>1. k \in Nat /\ k <= n /\ k + 1 \in Nat
      BY <2>1
    <3>2. Splits(k)
      <4> HIDE DEF Splits
      <4>1. QED BY <3>1
    <3>3. f + k < Len(recs) /\ 0 + (f + k) < Len(recs) /\ f + k \in Nat /\ 0 \in Nat
          /\ 0 + (f + k) + 1 = f + k + 1 /\ (f + k) + 1 = f + (k + 1)
      BY <1>1, <2>1, <3>1
    <3>4. PICK x : x = WrittenAs(recs[f + k + 1], override)
      OBVIOUS
    <3>5. PICK d \in Seq(StripeBeat) : d = Cut(recs, override, f, k)
      BY <3>1, <3>3, CutStep
    <3>6. x \in Seq(StripeBeat) /\ Cut(recs, override, f, k + 1) = d \o x
      BY <3>1, <3>3, <3>4, <3>5, CutStep
    <3>7. PICK m \in Nat : m = f + k
      BY <3>3
    <3>8. Cut(recs, override, 0, m + 1)
            = Cut(recs, override, 0, m) \o WrittenAs(recs[0 + m + 1], override)
      <4>1. 0 + m < Len(recs) /\ 0 \in Nat
        BY <3>3, <3>7
      <4>2. QED BY <4>1, CutStep
    <3>9. Cut(recs, override, 0, f + (k + 1)) = Cut(recs, override, 0, f + k) \o x
      BY <3>3, <3>4, <3>7, <3>8
    <3>10. Cut(recs, override, 0, f + k) = c \o d
      BY <1>2, <3>2, <3>5
    <3>11. (c \o d) \o x = c \o (d \o x)
      <4>1. c \in Seq(StripeBeat) /\ d \in Seq(StripeBeat) /\ x \in Seq(StripeBeat)
        BY <3>6
      <4>2. QED BY <4>1, ConcatAssociative
    <3>12. Splits(k + 1)
      <4>1. Cut(recs, override, 0, f + (k + 1)) = (c \o d) \o x
        BY <3>9, <3>10
      <4>2. (c \o d) \o x = c \o Cut(recs, override, f, k + 1)
        BY <3>6, <3>11
      <4>3. QED BY <1>2, <4>1, <4>2
    <3>13. QED
      <4> HIDE DEF Splits
      <4>1. QED BY <3>1, <3>12
  <2>2. CASE ~(k + 1 <= n)
    <3>1. k + 1 \in Nat
      OBVIOUS
    <3>2. QED BY <2>2, <3>1
  <2>3. QED BY <2>1, <2>2
<1>5. Good \subseteq Nat
  OBVIOUS
<1>6. n \in Good
  <2> HIDE DEF Good
  <2>1. Good = Nat
    BY <1>3, <1>4, <1>5, Induction
  <2>2. QED BY <2>1
<1>7. Splits(n)
  <2> HIDE DEF Splits
  <2>1. QED BY <1>6
<1>8. QED BY <1>7

\* The block id of a lane, and its path.
LEMMA LaneFacts ==
    ASSUME NEW s \in StripeType, NEW id \in Nat
    PROVE  /\ Lanes \in Nat \ {0} /\ Lane(id) \in 0..(Lanes - 1) /\ Lane(id) \in Nat
           /\ PathOf(s, id) \in Seq(Nat)
           /\ s.container => PathOf(s, id) = <<Lane(id)>>
           /\ \A j \in Nat : ~s.container /\ PathOf(s, j) = PathOf(s, id) => j = id
<1>1. Lanes \in Nat \ {0}
  BY TraceAssumption
<1>2. Lane(id) \in 0..(Lanes - 1)
  BY <1>1, DivMod DEF Lane
<1>3. PICK l \in Nat : l = Lane(id)
  BY <1>1, <1>2
<1>4. <<l>> \in Seq(Nat) /\ <<l, id>> \in Seq(Nat)
  OBVIOUS
<1>5. PathOf(s, id) \in Seq(Nat)
  BY <1>3, <1>4 DEF PathOf
<1>6. s.container => PathOf(s, id) = <<Lane(id)>>
  BY DEF PathOf
<1>7. ASSUME NEW j \in Nat, ~s.container, PathOf(s, j) = PathOf(s, id) PROVE j = id
  <2>1. <<Lane(j), j>> = <<Lane(id), id>>
    BY <1>7 DEF PathOf
  <2>2. QED BY <2>1
<1>8. QED BY <1>1, <1>2, <1>3, <1>5, <1>6, <1>7

\* What an entry says stays true while its file only grows.
LEMMA EntryKept ==
    ASSUME NEW recs \in Seq(RecordType), NEW s \in StripeType, NEW t \in StripeType,
           t.container = s.container, t.override = s.override,
           NEW fs, fs \in [DOMAIN fs -> Seq(StripeBeat)], NEW gs,
           NEW e \in EntryType, NEW id \in Nat, EntryHolds(e, id, s, fs, recs),
           e.path \in DOMAIN gs, \E x \in Seq(StripeBeat) : gs[e.path] = fs[e.path] \o x
    PROVE  EntryHolds(e, id, t, gs, recs)
<1>1. PICK x \in Seq(StripeBeat) : gs[e.path] = fs[e.path] \o x
  OBVIOUS
<1>2. PICK cut : cut = Cut(recs, s.override, e.first_packet, e.packets)
  OBVIOUS
<1>3. /\ e.path = PathOf(s, id) /\ e.lane = Lane(id) /\ e.path \in DOMAIN fs
      /\ e.first_packet + e.packets <= Len(recs)
      /\ e.beats = Len(cut)
      /\ e.beats <= BlockBeats \/ e.packets = 1
      /\ e.file_offset + e.beats <= Len(fs[e.path])
      /\ \A k \in 1..e.beats : fs[e.path][e.file_offset + k] = cut[k]
  BY <1>2 DEF EntryHolds
<1>4. PICK file \in Seq(StripeBeat) : file = fs[e.path]
  BY <1>3
<1>5. PICK n \in Nat, m \in Nat, beats \in Nat, offset \in Nat :
          n = Len(file) /\ m = Len(x) /\ beats = e.beats /\ offset = e.file_offset
  BY LenProperties DEF EntryType
<1>6. Len(file \o x) = n + m /\ \A k \in 1..n : (file \o x)[k] = file[k]
  <2>1. /\ Len(file \o x) = Len(file) + Len(x)
        /\ \A k \in 1..(Len(file) + Len(x)) :
              (file \o x)[k] = IF k <= Len(file) THEN file[k] ELSE x[k - Len(file)]
    BY ConcatProperties
  <2>2. \A k \in 1..n : k \in 1..(n + m) /\ k <= n
    OBVIOUS
  <2>3. QED BY <1>5, <2>1, <2>2
<1>7. offset + beats <= n
  BY <1>3, <1>4, <1>5
<1>8. e.file_offset + e.beats <= Len(gs[e.path])
  BY <1>1, <1>4, <1>5, <1>6, <1>7
<1>9. \A k \in 1..e.beats : gs[e.path][e.file_offset + k] = cut[k]
  <2>1. TAKE k \in 1..e.beats
  <2>2. offset + k \in 1..n
    BY <1>5, <1>7
  <2>3. (file \o x)[offset + k] = file[offset + k]
    BY <1>6, <2>2
  <2>4. file[offset + k] = cut[k]
    BY <1>3, <1>4, <1>5
  <2>5. QED BY <1>1, <1>4, <1>5, <2>3, <2>4
<1>10. PathOf(t, id) = PathOf(s, id)
  BY DEF PathOf
<1>11. cut = Cut(recs, t.override, e.first_packet, e.packets)
  BY <1>2
<1>12. QED BY <1>3, <1>8, <1>9, <1>10, <1>11 DEF EntryHolds

LEMMA EntryOfType ==
    ASSUME NEW s \in StripeType
    PROVE  /\ EntryOf(s) \in EntryType
           /\ EntryOf(s).path = PathOf(s, s.id) /\ EntryOf(s).lane = Lane(s.id)
           /\ EntryOf(s).beats = s.beats /\ EntryOf(s).packets = s.packets
           /\ EntryOf(s).first_packet = s.first /\ EntryOf(s).file_offset = s.offset
<1>1. s.id \in Nat /\ s.beats \in Nat /\ s.packets \in Nat /\ s.first \in Nat /\ s.offset \in Nat
  BY DEF StripeType
<1>2. PathOf(s, s.id) \in Seq(Nat) /\ Lane(s.id) \in Nat
  BY <1>1, LaneFacts
<1>3. QED BY <1>1, <1>2 DEF EntryOf, EntryType

\* The offsets, with the block under way counted in.
LEMMA OffsetsType ==
    ASSUME NEW s \in StripeType
    PROVE  /\ OffsetsOf(s) \in [0..(Lanes - 1) -> Nat]
           /\ s.container => \A l \in 0..(Lanes - 1) :
                 OffsetsOf(s)[l] = IF l = Lane(s.id) THEN s.offsets[l] + s.beats ELSE s.offsets[l]
<1>1. s.offsets \in [0..(Lanes - 1) -> Nat] /\ s.beats \in Nat /\ s.id \in Nat
  BY DEF StripeType
<1>2. Lane(s.id) \in 0..(Lanes - 1)
  BY <1>1, LaneFacts
<1>3. PICK o \in [0..(Lanes - 1) -> Nat], b \in Nat, x \in 0..(Lanes - 1) :
          o = s.offsets /\ b = s.beats /\ x = Lane(s.id)
  BY <1>1, <1>2
<1>4. /\ [o EXCEPT ![x] = o[x] + b] \in [0..(Lanes - 1) -> Nat]
      /\ \A l \in 0..(Lanes - 1) :
            [o EXCEPT ![x] = o[x] + b][l] = IF l = x THEN o[l] + b ELSE o[l]
  OBVIOUS
<1>5. OffsetsOf(s) = IF s.container THEN [o EXCEPT ![x] = o[x] + b] ELSE o
  BY <1>3 DEF OffsetsOf
<1>6. QED BY <1>3, <1>4, <1>5

\* A list that holds goes on to hold when one entry is put behind it.
LEMMA ListGrows ==
    ASSUME NEW recs, NEW s, NEW fs,
           NEW list \in Seq(EntryType), NEW e \in EntryType, NEW n \in Nat, n = Len(list),
           BlocksHold(list, n, s, fs, recs), EntryHolds(e, n, s, fs, recs),
           e.first_packet = After(list, n)
    PROVE  ListHolds(Append(list, e), s, fs, recs)
<1>1. PICK all \in Seq(EntryType) : all = Append(list, e)
  BY AppendProperties
<1>2. Len(all) = n + 1 /\ (\A b \in 1..n : all[b] = list[b]) /\ all[n + 1] = e
  BY <1>1, AppendProperties
<1>3. ASSUME NEW b \in 1..(n + 1)
      PROVE  EntryHolds(all[b], b - 1, s, fs, recs) /\ all[b].first_packet = After(all, b - 1)
  <2>1. After(all, b - 1) = After(list, b - 1)
    <3>1. b - 1 = 0 \/ b - 1 \in 1..n
      OBVIOUS
    <3>2. QED BY <1>2, <3>1 DEF After
  <2>2. CASE b = n + 1
    <3>1. all[b] = e /\ b - 1 = n
      BY <1>2, <2>2
    <3>2. QED BY <2>1, <3>1
  <2>3. CASE b # n + 1
    <3>1. b \in 1..n
      BY <2>3
    <3>2. QED BY <1>2, <2>1, <3>1 DEF BlocksHold
  <2>4. QED BY <2>2, <2>3
<1>4. BlocksHold(all, n + 1, s, fs, recs)
  BY <1>3 DEF BlocksHold
<1>5. QED BY <1>1, <1>2, <1>4 DEF ListHolds

\* What the list says of the finished blocks and of the one under way.
LEMMA ListFacts ==
    ASSUME NEW recs, NEW s \in StripeType, NEW fs, NEW list, UnderWay(s, fs, list, recs)
    PROVE  /\ list \in Seq(EntryType) /\ Len(list) = s.id
           /\ BlocksHold(list, s.id, s, fs, recs)
           /\ EntryHolds(EntryOf(s), s.id, s, fs, recs)
           /\ s.first = After(list, s.id)
<1>1. list \in Seq(EntryType) /\ Len(list) = s.id /\ s.id \in Nat
  BY DEF UnderWay, StripeType
<1>2. PICK n \in Nat : n = s.id
  BY <1>1
<1>3. EntryOf(s) \in EntryType /\ EntryOf(s).first_packet = s.first
  BY EntryOfType
<1>4. PICK all : all = Append(list, EntryOf(s))
  OBVIOUS
<1>5. Len(all) = n + 1 /\ (\A b \in 1..n : all[b] = list[b]) /\ all[n + 1] = EntryOf(s)
  BY <1>1, <1>2, <1>3, <1>4, AppendProperties
<1>6. BlocksHold(all, n + 1, s, fs, recs)
  BY <1>4, <1>5 DEF UnderWay, ListHolds
<1>7. ASSUME NEW b \in 1..(n + 1) PROVE After(all, b - 1) = After(list, b - 1)
  <2>1. b - 1 = 0 \/ b - 1 \in 1..n
    OBVIOUS
  <2>2. QED BY <1>5, <2>1 DEF After
<1>8. BlocksHold(list, n, s, fs, recs)
  <2>1. ASSUME NEW b \in 1..n
        PROVE  EntryHolds(list[b], b - 1, s, fs, recs) /\ list[b].first_packet = After(list, b - 1)
    <3>1. b \in 1..(n + 1)
      OBVIOUS
    <3>2. QED BY <1>5, <1>6, <1>7, <3>1 DEF BlocksHold
  <2>2. QED BY <2>1 DEF BlocksHold
<1>9. EntryHolds(EntryOf(s), n, s, fs, recs) /\ s.first = After(list, n)
  <2>1. n + 1 \in 1..(n + 1) /\ (n + 1) - 1 = n
    OBVIOUS
  <2>2. EntryHolds(all[n + 1], (n + 1) - 1, s, fs, recs)
        /\ all[n + 1].first_packet = After(all, (n + 1) - 1)
    BY <1>6, <2>1 DEF BlocksHold
  <2>3. After(all, (n + 1) - 1) = After(list, (n + 1) - 1)
    BY <1>7, <2>1
  <2>4. QED BY <1>3, <1>5, <2>1, <2>2, <2>3
<1>10. QED BY <1>1, <1>2, <1>8, <1>9

\* Record r goes to the end of the block s that is under way: s and the files
\* become t and gs.
PutTo(s, t, fs, gs, r) ==
    /\ t.container = s.container /\ t.override = s.override /\ t.id = s.id
    /\ t.packets = s.packets + 1 /\ t.beats = s.beats + RecordBeats(r)
    /\ t.first = s.first /\ t.offset = s.offset /\ t.offsets = s.offsets
    /\ DOMAIN gs = DOMAIN fs
    /\ gs[PathOf(s, s.id)] = fs[PathOf(s, s.id)] \o WrittenAs(r, s.override)
    /\ \A q \in DOMAIN fs : q # PathOf(s, s.id) => gs[q] = fs[q]

\* Beat k of a block that begins at the offset and grows by m beats.
LEMMA InFile ==
    ASSUME NEW offset \in Nat, NEW beats \in Nat, NEW m \in Nat, NEW k \in 1..(beats + m)
    PROVE  /\ offset + k \in 1..(offset + beats + m)
           /\ k <= beats => offset + k <= offset + beats /\ k \in 1..beats
           /\ ~(k <= beats) => /\ ~(offset + k <= offset + beats)
                               /\ (offset + k) - (offset + beats) = k - beats
OBVIOUS

LEMMA PutKept ==
    ASSUME NEW recs \in Seq(RecordType), NEW s \in StripeType, NEW t \in StripeType, NEW list,
           NEW fs, fs \in [DOMAIN fs -> Seq(StripeBeat)], NEW gs, UnderWay(s, fs, list, recs),
           NEW r \in RecordType, s.first + s.packets < Len(recs),
           r = recs[s.first + s.packets + 1],
           s.packets = 0 \/ s.beats + RecordBeats(r) <= BlockBeats,
           PutTo(s, t, fs, gs, r)
    PROVE  UnderWay(t, gs, list, recs)
<1>1. PICK f \in Nat, p \in Nat, beats \in Nat, id \in Nat, offset \in Nat, override \in Override :
          /\ f = s.first /\ p = s.packets /\ beats = s.beats /\ id = s.id /\ offset = s.offset
          /\ override = s.override
  BY DEF StripeType
<1>2. Len(recs) \in Nat /\ f + p < Len(recs)
  BY <1>1, LenProperties
<1>3. PICK w \in Seq(StripeBeat), m \in Nat :
          w = WrittenAs(r, override) /\ m = Len(w) /\ m = RecordBeats(r)
  BY <1>1, <1>2, WrittenType
<1>4. /\ t.container = s.container /\ t.override = override /\ t.id = id
      /\ t.packets = p + 1 /\ t.beats = beats + m /\ t.first = f /\ t.offset = offset
      /\ t.offsets = s.offsets
  BY <1>1, <1>3 DEF PutTo
<1>5. PICK path \in Seq(Nat) : path = PathOf(s, id) /\ path = PathOf(t, id)
  <2>1. PathOf(s, id) \in Seq(Nat)
    BY LaneFacts
  <2>2. PathOf(t, id) = PathOf(s, id)
    BY <1>4 DEF PathOf
  <2>3. QED BY <2>1, <2>2
<1>6. /\ list \in Seq(EntryType) /\ Len(list) = id
      /\ BlocksHold(list, id, s, fs, recs)
      /\ EntryHolds(EntryOf(s), id, s, fs, recs)
      /\ f = After(list, id)
  <2>1. /\ list \in Seq(EntryType) /\ Len(list) = s.id
        /\ BlocksHold(list, s.id, s, fs, recs)
        /\ EntryHolds(EntryOf(s), s.id, s, fs, recs)
        /\ s.first = After(list, s.id)
    BY ListFacts
  <2>2. QED BY <1>1, <2>1
<1>7. PICK cut \in Seq(StripeBeat) : cut = Cut(recs, override, f, p)
  <2>1. f + p <= Len(recs)
    BY <1>2
  <2>2. QED BY <2>1, CutType
<1>8. /\ path \in DOMAIN fs /\ beats = Len(cut)
      /\ \A k \in 1..beats : fs[path][offset + k] = cut[k]
  <2>1. /\ EntryOf(s).path = path /\ EntryOf(s).beats = beats /\ EntryOf(s).packets = p
        /\ EntryOf(s).first_packet = f /\ EntryOf(s).file_offset = offset
    BY <1>1, <1>5, EntryOfType
  <2>2. QED BY <1>1, <1>6, <1>7, <2>1 DEF EntryHolds
<1>9. PICK file \in Seq(StripeBeat) : file = fs[path] /\ Len(file) = offset + beats
  <2>1. fs[path] \in Seq(StripeBeat)
    BY <1>8
  <2>2. Len(fs[path]) = offset + beats
    BY <1>1, <1>5 DEF UnderWay
  <2>3. QED BY <2>1, <2>2
<1>10. /\ file \o w \in Seq(StripeBeat) /\ Len(file \o w) = offset + beats + m
       /\ \A k \in 1..(offset + beats + m) :
             (file \o w)[k] = IF k <= offset + beats THEN file[k] ELSE w[k - (offset + beats)]
  <2>1. /\ file \o w \in Seq(StripeBeat) /\ Len(file \o w) = Len(file) + Len(w)
        /\ \A k \in 1..(Len(file) + Len(w)) :
              (file \o w)[k] = IF k <= Len(file) THEN file[k] ELSE w[k - Len(file)]
    BY ConcatProperties
  <2>2. QED BY <1>3, <1>9, <2>1
<1>11. /\ DOMAIN gs = DOMAIN fs /\ gs[path] = file \o w
       /\ \A q \in DOMAIN fs : q # path => gs[q] = fs[q]
  BY <1>1, <1>3, <1>5, <1>8, <1>9 DEF PutTo
<1>12. ASSUME NEW b \in 1..id PROVE EntryHolds(list[b], b - 1, t, gs, recs)
  <2>1. PICK e \in EntryType, c \in Nat : e = list[b] /\ c = b - 1 /\ EntryHolds(e, c, s, fs, recs)
    <3>1. b - 1 \in Nat
      OBVIOUS
    <3>2. list[b] \in EntryType
      BY <1>6, ElementOfSeq
    <3>3. EntryHolds(list[b], b - 1, s, fs, recs)
      BY <1>6 DEF BlocksHold
    <3>4. QED BY <3>1, <3>2, <3>3
  <2>2. e.path \in DOMAIN fs
    BY <2>1 DEF EntryHolds
  <2>3. \E x \in Seq(StripeBeat) : gs[e.path] = fs[e.path] \o x
    <3>1. CASE e.path = path
      BY <1>9, <1>11, <3>1
    <3>2. CASE e.path # path
      <4>1. fs[e.path] \in Seq(StripeBeat) /\ gs[e.path] = fs[e.path]
        BY <1>11, <2>2, <3>2
      <4>2. fs[e.path] \o <<>> = fs[e.path] /\ <<>> \in Seq(StripeBeat)
        BY <4>1, ConcatEmptySeq
      <4>3. QED BY <4>1, <4>2
    <3>3. QED BY <3>1, <3>2
  <2>4. EntryHolds(e, c, t, gs, recs)
    <3>1. e.path \in DOMAIN gs
      BY <1>11, <2>2
    <3>2. t.container = s.container /\ t.override = s.override
      BY <1>1, <1>4
    <3>3. QED BY <2>1, <2>3, <3>1, <3>2, EntryKept, Zenon
  <2>5. QED BY <2>1, <2>4
<1>13. EntryHolds(EntryOf(t), id, t, gs, recs)
  <2>1. /\ EntryOf(t).path = path /\ EntryOf(t).lane = Lane(id) /\ EntryOf(t).beats = beats + m
        /\ EntryOf(t).packets = p + 1
        /\ EntryOf(t).first_packet = f /\ EntryOf(t).file_offset = offset
    BY <1>4, <1>5, EntryOfType
  <2>2. PICK more \in Seq(StripeBeat) : more = Cut(recs, override, f, p + 1) /\ more = cut \o w
    <3>1. f + p < Len(recs)
      BY <1>2
    <3>2. Cut(recs, override, f, p + 1) = Cut(recs, override, f, p) \o WrittenAs(recs[f + p + 1], override)
      BY <3>1, CutStep
    <3>3. cut \o w \in Seq(StripeBeat)
      BY ConcatProperties
    <3>4. Cut(recs, override, f, p) = cut /\ WrittenAs(recs[f + p + 1], override) = w
      BY <1>1, <1>3, <1>7
    <3>5. Cut(recs, override, f, p + 1) = cut \o w
      BY <3>2, <3>4
    <3>6. QED BY <3>3, <3>5
  <2>3. /\ Len(more) = beats + m
        /\ \A k \in 1..(beats + m) : more[k] = IF k <= beats THEN cut[k] ELSE w[k - beats]
    <3>1. /\ Len(cut \o w) = Len(cut) + Len(w)
          /\ \A k \in 1..(Len(cut) + Len(w)) :
                (cut \o w)[k] = IF k <= Len(cut) THEN cut[k] ELSE w[k - Len(cut)]
      BY ConcatProperties
    <3>2. Len(cut) = beats /\ Len(w) = m /\ more = cut \o w
      BY <1>3, <1>8, <2>2
    <3>3. QED BY <3>1, <3>2
  <2>4. \A k \in 1..(beats + m) : (file \o w)[offset + k] = more[k]
    <3>1. TAKE k \in 1..(beats + m)
    <3>2. /\ offset + k \in 1..(offset + beats + m)
          /\ k <= beats => offset + k <= offset + beats /\ k \in 1..beats
          /\ ~(k <= beats) => /\ ~(offset + k <= offset + beats)
                              /\ (offset + k) - (offset + beats) = k - beats
      BY InFile
    <3>3. CASE k <= beats
      <4>1. offset + k <= offset + beats /\ k \in 1..beats
        BY <3>2, <3>3
      <4>2. (file \o w)[offset + k] = file[offset + k]
        BY <1>10, <3>2, <4>1
      <4>3. more[k] = cut[k]
        BY <2>3, <3>3
      <4>4. QED BY <1>8, <1>9, <4>1, <4>2, <4>3
    <3>4. CASE ~(k <= beats)
      <4>1. ~(offset + k <= offset + beats) /\ (offset + k) - (offset + beats) = k - beats
        BY <3>2, <3>4
      <4>2. (file \o w)[offset + k] = w[(offset + k) - (offset + beats)]
        BY <1>10, <3>2, <4>1
      <4>3. more[k] = w[k - beats]
        BY <2>3, <3>4
      <4>4. (file \o w)[offset + k] = w[k - beats]
        BY <4>1, <4>2
      <4>5. QED BY <4>3, <4>4
    <3>5. QED BY <3>3, <3>4
  <2>5. beats + m <= BlockBeats \/ p + 1 = 1
    <3>1. s.packets = 0 \/ s.beats + RecordBeats(r) <= BlockBeats
      OBVIOUS
    <3>2. p = 0 \/ beats + m <= BlockBeats
      BY <1>1, <1>3, <3>1
    <3>3. QED BY <3>2
  <2>6. f + (p + 1) <= Len(recs) /\ offset + (beats + m) <= offset + beats + m
    BY <1>2
  <2>7. more = Cut(recs, t.override, f, p + 1)
    BY <1>1, <1>4, <2>2
  <2>8. PICK e : e = EntryOf(t)
    OBVIOUS
  <2>9. /\ e.path = PathOf(t, id) /\ e.lane = Lane(id) /\ e.path \in DOMAIN gs
        /\ e.first_packet + e.packets <= Len(recs)
        /\ e.beats = Len(more)
        /\ e.beats <= BlockBeats \/ e.packets = 1
        /\ e.file_offset + e.beats <= Len(gs[e.path])
    <3>1. /\ e.path = PathOf(t, id) /\ e.lane = Lane(id) /\ e.path \in DOMAIN gs
          /\ e.path = path /\ e.first_packet = f /\ e.packets = p + 1
          /\ e.beats = beats + m /\ e.file_offset = offset
      BY <1>5, <1>8, <1>11, <2>1, <2>8, Zenon
    <3>2. Len(gs[e.path]) = offset + beats + m
      BY <1>10, <1>11, <3>1, Zenon
    <3>3. QED BY <2>3, <2>5, <2>6, <3>1, <3>2
  <2>10. \A k \in 1..e.beats : gs[e.path][e.file_offset + k] = more[k]
    BY <1>11, <2>1, <2>4, <2>8
  <2>11. more = Cut(recs, t.override, e.first_packet, e.packets)
    BY <2>1, <2>7, <2>8
  <2>12. QED BY <2>8, <2>9, <2>10, <2>11 DEF EntryHolds
<1>14. ListHolds(Append(list, EntryOf(t)), t, gs, recs)
  <2>1. EntryOf(t) \in EntryType /\ EntryOf(t).first_packet = f
    BY <1>4, EntryOfType
  <2>2. BlocksHold(list, id, t, gs, recs)
    <3>1. ASSUME NEW b \in 1..id PROVE list[b].first_packet = After(list, b - 1)
      BY <1>6 DEF BlocksHold
    <3>2. QED BY <1>12, <3>1 DEF BlocksHold
  <2>3. QED BY <1>6, <1>13, <2>1, <2>2, ListGrows
<1>15. t.offset + t.beats = Len(gs[PathOf(t, t.id)])
  BY <1>4, <1>5, <1>10, <1>11
<1>16. LanesKnown(t, gs)
  <2>1. SUFFICES ASSUME s.container PROVE LanesKnown(t, gs)
    BY <1>4 DEF LanesKnown
  <2>2. /\ s.offset = s.offsets[Lane(id)]
        /\ \A l \in 0..(Lanes - 1) : <<l>> \in DOMAIN fs /\ Len(fs[<<l>>]) = OffsetsOf(s)[l]
    BY <1>1, <2>1 DEF UnderWay, LanesKnown
  <2>3. path = <<Lane(id)>> /\ Lane(id) \in 0..(Lanes - 1)
    BY <1>5, <2>1, LaneFacts
  <2>4. s.offsets \in [0..(Lanes - 1) -> Nat]
    BY DEF StripeType
  <2>5. ASSUME NEW l \in 0..(Lanes - 1)
        PROVE  <<l>> \in DOMAIN gs /\ Len(gs[<<l>>]) = OffsetsOf(t)[l]
    <3>1. <<l>> \in DOMAIN fs /\ Len(fs[<<l>>]) = OffsetsOf(s)[l]
      BY <2>2
    <3>2. /\ OffsetsOf(s)[l] = IF l = Lane(id) THEN s.offsets[l] + beats ELSE s.offsets[l]
          /\ OffsetsOf(t)[l] = IF l = Lane(id) THEN s.offsets[l] + (beats + m) ELSE s.offsets[l]
      <4>1. OffsetsOf(s)[l] = IF l = Lane(s.id) THEN s.offsets[l] + s.beats ELSE s.offsets[l]
        BY <2>1, OffsetsType, Zenon
      <4>2. OffsetsOf(t)[l] = IF l = Lane(t.id) THEN t.offsets[l] + t.beats ELSE t.offsets[l]
        BY <1>4, <2>1, OffsetsType, Zenon
      <4>3. QED BY <1>1, <1>4, <4>1, <4>2, Zenon
    <3>3. CASE l = Lane(id)
      <4>1. gs[<<l>>] = file \o w /\ s.offsets[l] = offset
        BY <1>1, <1>11, <2>2, <2>3, <3>3
      <4>2. QED BY <1>10, <1>11, <3>1, <3>2, <3>3, <4>1
    <3>4. CASE l # Lane(id)
      <4>1. <<l>> # path
        BY <2>3, <3>4
      <4>2. gs[<<l>>] = fs[<<l>>]
        BY <1>11, <3>1, <4>1
      <4>3. QED BY <1>11, <3>1, <3>2, <3>4, <4>2
    <3>5. QED BY <3>3, <3>4
  <2>6. QED BY <1>1, <1>4, <2>2, <2>5 DEF LanesKnown
<1>17. QED BY <1>4, <1>6, <1>14, <1>15, <1>16 DEF UnderWay

\* The block s is finished and the next one begun, in a new file unless its
\* lane is a container.
BeginNext(s, t, fs, gs, first) ==
    /\ t.container = s.container /\ t.override = s.override /\ t.id = s.id + 1
    /\ t.packets = 0 /\ t.beats = 0 /\ t.first = first /\ t.offsets = OffsetsOf(s)
    /\ s.container => t.offset = OffsetsOf(s)[Lane(s.id + 1)] /\ gs = fs
    /\ ~s.container =>
          /\ t.offset = 0
          /\ DOMAIN gs = DOMAIN fs \cup {PathOf(s, s.id + 1)}
          /\ gs[PathOf(s, s.id + 1)] = <<>>
          /\ \A q \in DOMAIN fs : q # PathOf(s, s.id + 1) => gs[q] = fs[q]

LEMMA NextBlockKept ==
    ASSUME NEW recs \in Seq(RecordType), NEW s \in StripeType, NEW t \in StripeType, NEW list,
           NEW fs, fs \in [DOMAIN fs -> Seq(StripeBeat)], NEW gs, UnderWay(s, fs, list, recs),
           BeginNext(s, t, fs, gs, s.first + s.packets)
    PROVE  UnderWay(t, gs, Append(list, EntryOf(s)), recs)
<1>1. PICK f \in Nat, p \in Nat, id \in Nat, next \in Nat :
          f = s.first /\ p = s.packets /\ id = s.id /\ next = s.id + 1
  BY DEF StripeType
<1>2. /\ t.container = s.container /\ t.override = s.override /\ t.id = next
      /\ t.packets = 0 /\ t.beats = 0 /\ t.first = f + p /\ t.offsets = OffsetsOf(s)
  BY <1>1 DEF BeginNext
<1>3. /\ list \in Seq(EntryType) /\ Len(list) = id
      /\ BlocksHold(list, id, s, fs, recs)
      /\ EntryHolds(EntryOf(s), id, s, fs, recs)
      /\ f = After(list, id)
  <2>1. /\ list \in Seq(EntryType) /\ Len(list) = s.id
        /\ BlocksHold(list, s.id, s, fs, recs)
        /\ EntryHolds(EntryOf(s), s.id, s, fs, recs)
        /\ s.first = After(list, s.id)
    BY ListFacts
  <2>2. QED BY <1>1, <2>1
<1>4. PICK path \in Seq(Nat) : path = PathOf(s, next) /\ path = PathOf(t, next)
  <2>1. PathOf(s, next) \in Seq(Nat)
    BY LaneFacts
  <2>2. PathOf(t, next) = PathOf(s, next)
    BY <1>2 DEF PathOf
  <2>3. QED BY <2>1, <2>2
<1>5. /\ EntryOf(s) \in EntryType /\ EntryOf(s).first_packet = f /\ EntryOf(s).packets = p
      /\ EntryOf(t) \in EntryType /\ EntryOf(t).path = path /\ EntryOf(t).lane = Lane(next)
      /\ EntryOf(t).beats = 0 /\ EntryOf(t).packets = 0 /\ EntryOf(t).first_packet = f + p
      /\ EntryOf(t).file_offset = t.offset
  <2>1. EntryOf(s) \in EntryType /\ EntryOf(s).first_packet = f /\ EntryOf(s).packets = p
    BY <1>1, EntryOfType
  <2>2. /\ EntryOf(t) \in EntryType /\ EntryOf(t).path = PathOf(t, t.id)
        /\ EntryOf(t).lane = Lane(t.id)
        /\ EntryOf(t).beats = t.beats /\ EntryOf(t).packets = t.packets
        /\ EntryOf(t).first_packet = t.first /\ EntryOf(t).file_offset = t.offset
    BY EntryOfType
  <2>3. QED BY <1>2, <1>4, <2>1, <2>2
<1>6. PICK all \in Seq(EntryType) :
          /\ all = Append(list, EntryOf(s)) /\ Len(all) = next
          /\ \A b \in 1..id : all[b] = list[b]
          /\ all[next] = EntryOf(s)
  <2>1. next = id + 1
    BY <1>1
  <2>2. PICK e \in EntryType : e = EntryOf(s)
    BY <1>5
  <2>3. /\ Append(list, e) \in Seq(EntryType) /\ Len(Append(list, e)) = id + 1
        /\ \A b \in 1..id : Append(list, e)[b] = list[b]
        /\ Append(list, e)[id + 1] = e
    BY <1>3, AppendProperties
  <2>4. QED BY <2>1, <2>2, <2>3
<1>7. ListHolds(all, s, fs, recs)
  BY <1>6 DEF UnderWay
<1>8. BlocksHold(all, next, s, fs, recs)
  BY <1>6, <1>7 DEF ListHolds
\* No file of a finished block is the one that is opened.
<1>9. ASSUME NEW e \in EntryType, NEW c \in Nat, c # next, EntryHolds(e, c, s, fs, recs)
      PROVE  EntryHolds(e, c, t, gs, recs)
  <2>1. e.path = PathOf(s, c) /\ e.path \in DOMAIN fs
    BY <1>9 DEF EntryHolds
  <2>2. e.path \in DOMAIN gs /\ gs[e.path] = fs[e.path]
    <3>1. CASE s.container
      BY <2>1, <3>1 DEF BeginNext
    <3>2. CASE ~s.container
      <4>1. PathOf(s, c) # PathOf(s, next)
        BY <1>9, <3>2, LaneFacts
      <4>2. QED BY <1>1, <2>1, <3>2, <4>1 DEF BeginNext
    <3>3. QED BY <3>1, <3>2
  <2>3. \E x \in Seq(StripeBeat) : gs[e.path] = fs[e.path] \o x
    <3>1. fs[e.path] \in Seq(StripeBeat)
      BY <2>1
    <3>2. fs[e.path] \o <<>> = fs[e.path] /\ <<>> \in Seq(StripeBeat)
      BY <3>1, ConcatEmptySeq
    <3>3. QED BY <2>2, <3>2
  <2>4. QED BY <1>2, <1>9, <2>2, <2>3, EntryKept, Zenon
<1>10. BlocksHold(all, next, t, gs, recs)
  <2>1. ASSUME NEW b \in 1..next
        PROVE  EntryHolds(all[b], b - 1, t, gs, recs) /\ all[b].first_packet = After(all, b - 1)
    <3>1. PICK c \in Nat : c = b - 1 /\ c # next
      OBVIOUS
    <3>2. EntryHolds(all[b], c, s, fs, recs) /\ all[b].first_packet = After(all, b - 1)
      BY <1>8, <3>1 DEF BlocksHold
    <3>3. all[b] \in EntryType
      BY <1>6, ElementOfSeq
    <3>4. EntryHolds(all[b], c, t, gs, recs)
      BY <1>9, <3>1, <3>2, <3>3, Zenon
    <3>5. QED BY <3>1, <3>2, <3>4
  <2>2. QED BY <2>1 DEF BlocksHold
<1>11. f + p <= Len(recs) /\ Len(recs) \in Nat
  <2>1. EntryOf(s).first_packet + EntryOf(s).packets <= Len(recs)
    BY <1>3 DEF EntryHolds
  <2>2. QED BY <1>5, <2>1, LenProperties
\* Where the next block begins, its file ends.
<1>12. path \in DOMAIN gs /\ gs[path] \in Seq(StripeBeat) /\ Len(gs[path]) = t.offset
  <2>1. CASE s.container
    <3>1. path = <<Lane(next)>> /\ Lane(next) \in 0..(Lanes - 1)
      BY <1>4, <2>1, LaneFacts
    <3>2. path \in DOMAIN fs /\ Len(fs[path]) = OffsetsOf(s)[Lane(next)]
      BY <2>1, <3>1 DEF UnderWay, LanesKnown
    <3>3. gs = fs /\ t.offset = OffsetsOf(s)[Lane(next)]
      BY <1>1, <2>1 DEF BeginNext
    <3>4. QED BY <3>2, <3>3
  <2>2. CASE ~s.container
    <3>1. path \in DOMAIN gs /\ gs[path] = <<>> /\ t.offset = 0
      BY <1>1, <1>4, <2>2 DEF BeginNext
    <3>2. <<>> \in Seq(StripeBeat) /\ Len(<<>>) = 0
      OBVIOUS
    <3>3. QED BY <3>1, <3>2
  <2>3. QED BY <2>1, <2>2
<1>13. EntryHolds(EntryOf(t), next, t, gs, recs)
  <2>1. PICK cut : cut = Cut(recs, t.override, f + p, 0) /\ cut = <<>> /\ Len(cut) = 0
    <3>1. t.override \in Override
      BY DEF StripeType
    <3>2. (f + p) + 0 <= Len(recs) /\ f + p \in Nat
      BY <1>11
    <3>3. Cut(recs, t.override, f + p, 0) = <<>>
      BY <3>1, <3>2, CutType
    <3>4. QED BY <3>3
  <2>2. PICK e : e = EntryOf(t)
    OBVIOUS
  <2>3. /\ e.path = PathOf(t, next) /\ e.lane = Lane(next) /\ e.path \in DOMAIN gs
        /\ e.path = path /\ e.beats = 0 /\ e.packets = 0 /\ e.first_packet = f + p
        /\ e.file_offset = t.offset
    BY <1>4, <1>5, <1>12, <2>2
  <2>4. t.offset \in Nat /\ BlockBeats \in Nat
    BY TraceAssumption DEF StripeType
  <2>5. /\ e.first_packet + e.packets <= Len(recs)
        /\ e.beats <= BlockBeats
        /\ e.file_offset + e.beats <= Len(gs[e.path])
    BY <1>11, <1>12, <2>3, <2>4
  <2>6. cut = Cut(recs, t.override, e.first_packet, e.packets) /\ e.beats = Len(cut)
    BY <2>1, <2>3
  <2>7. \A k \in 1..e.beats : gs[e.path][e.file_offset + k] = cut[k]
    BY <2>3
  <2>8. QED BY <2>2, <2>3, <2>5, <2>6, <2>7 DEF EntryHolds
<1>14. After(all, next) = f + p
  <2>1. next # 0
    BY <1>1
  <2>2. QED BY <1>5, <1>6, <2>1 DEF After
<1>15. ListHolds(Append(all, EntryOf(t)), t, gs, recs)
  BY <1>5, <1>6, <1>10, <1>13, <1>14, ListGrows
<1>16. t.offset + t.beats = Len(gs[PathOf(t, t.id)])
  <2>1. t.offset \in Nat
    BY DEF StripeType
  <2>2. QED BY <1>2, <1>4, <1>12, <2>1
<1>17. LanesKnown(t, gs)
  <2>1. SUFFICES ASSUME s.container PROVE LanesKnown(t, gs)
    BY <1>2 DEF LanesKnown
  <2>2. \A l \in 0..(Lanes - 1) : <<l>> \in DOMAIN gs /\ Len(gs[<<l>>]) = OffsetsOf(s)[l]
    BY <2>1 DEF UnderWay, LanesKnown, BeginNext
  <2>3. t.offset = t.offsets[Lane(t.id)]
    BY <1>1, <1>2, <2>1 DEF BeginNext
  <2>4. \A l \in 0..(Lanes - 1) : OffsetsOf(t)[l] = OffsetsOf(s)[l]
    <3>1. TAKE l \in 0..(Lanes - 1)
    <3>2. OffsetsOf(t)[l] = IF l = Lane(t.id) THEN t.offsets[l] + t.beats ELSE t.offsets[l]
      BY <1>2, <2>1, OffsetsType, Zenon
    <3>3. OffsetsOf(s)[l] \in Nat
      BY OffsetsType
    <3>4. QED BY <1>2, <3>2, <3>3
  <2>5. QED BY <2>2, <2>3, <2>4 DEF LanesKnown
<1>18. QED BY <1>2, <1>6, <1>15, <1>16, <1>17 DEF UnderWay

\* An empty block 0, with the files just opened.
LEMMA FirstBlockKept ==
    ASSUME NEW recs \in Seq(RecordType), NEW s \in StripeType, NEW fs,
           s.id = 0, s.packets = 0, s.beats = 0, s.first = 0, s.offset = 0,
           \A l \in 0..(Lanes - 1) : s.offsets[l] = 0,
           PathOf(s, 0) \in DOMAIN fs, fs[PathOf(s, 0)] = <<>>,
           s.container => \A l \in 0..(Lanes - 1) : <<l>> \in DOMAIN fs /\ fs[<<l>>] = <<>>
    PROVE  UnderWay(s, fs, <<>>, recs)
<1>1. /\ EntryOf(s) \in EntryType /\ EntryOf(s).path = PathOf(s, 0) /\ EntryOf(s).lane = Lane(0)
      /\ EntryOf(s).beats = 0 /\ EntryOf(s).packets = 0 /\ EntryOf(s).first_packet = 0
      /\ EntryOf(s).file_offset = 0
  <2>1. /\ EntryOf(s) \in EntryType /\ EntryOf(s).path = PathOf(s, s.id)
        /\ EntryOf(s).lane = Lane(s.id)
        /\ EntryOf(s).beats = s.beats /\ EntryOf(s).packets = s.packets
        /\ EntryOf(s).first_packet = s.first /\ EntryOf(s).file_offset = s.offset
    BY EntryOfType
  <2>2. QED BY <2>1
<1>2. Len(<<>>) = 0 /\ <<>> \in Seq(EntryType) /\ 1..0 = {}
  OBVIOUS
<1>3. EntryHolds(EntryOf(s), 0, s, fs, recs)
  <2>1. PICK cut : cut = Cut(recs, s.override, 0, 0) /\ Len(cut) = 0
    <3>1. s.override \in Override
      BY DEF StripeType
    <3>2. 0 + 0 <= Len(recs) /\ 0 \in Nat
      BY LenProperties
    <3>3. Cut(recs, s.override, 0, 0) = <<>>
      BY <3>1, <3>2, CutType
    <3>4. QED BY <1>2, <3>3
  <2>2. PICK e : e = EntryOf(s)
    OBVIOUS
  <2>3. /\ e.path = PathOf(s, 0) /\ e.lane = Lane(0) /\ e.path \in DOMAIN fs
        /\ e.beats = 0 /\ e.packets = 0 /\ e.first_packet = 0 /\ e.file_offset = 0
        /\ fs[e.path] = <<>>
    BY <1>1, <2>2
  <2>4. Len(recs) \in Nat /\ BlockBeats \in Nat
    BY LenProperties, TraceAssumption
  <2>5. /\ e.first_packet + e.packets <= Len(recs)
        /\ e.beats <= BlockBeats
        /\ e.file_offset + e.beats <= Len(fs[e.path])
    BY <1>2, <2>3, <2>4
  <2>6. cut = Cut(recs, s.override, e.first_packet, e.packets) /\ e.beats = Len(cut)
    BY <2>1, <2>3
  <2>7. \A k \in 1..e.beats : fs[e.path][e.file_offset + k] = cut[k]
    BY <2>3
  <2>8. QED BY <2>2, <2>3, <2>5, <2>6, <2>7 DEF EntryHolds
<1>4. PICK none \in Seq(EntryType) : none = <<>> /\ Len(none) = 0
  BY <1>2
<1>5. ListHolds(Append(none, EntryOf(s)), s, fs, recs)
  <2>1. BlocksHold(none, 0, s, fs, recs)
    BY <1>2 DEF BlocksHold
  <2>2. After(none, 0) = 0
    BY DEF After
  <2>3. 0 \in Nat
    OBVIOUS
  <2>4. QED BY <1>1, <1>3, <1>4, <2>1, <2>2, <2>3, ListGrows
<1>6. s.offset + s.beats = Len(fs[PathOf(s, s.id)])
  BY <1>2
<1>7. LanesKnown(s, fs)
  <2>1. SUFFICES ASSUME s.container PROVE LanesKnown(s, fs)
    BY DEF LanesKnown
  <2>2. Lane(s.id) \in 0..(Lanes - 1)
    BY LaneFacts DEF StripeType
  <2>3. \A l \in 0..(Lanes - 1) : OffsetsOf(s)[l] = 0
    <3>1. TAKE l \in 0..(Lanes - 1)
    <3>2. OffsetsOf(s)[l] = IF l = Lane(s.id) THEN s.offsets[l] + s.beats ELSE s.offsets[l]
      BY <2>1, OffsetsType, Zenon
    <3>3. QED BY <3>2
  <2>4. QED BY <1>2, <2>1, <2>2, <2>3 DEF LanesKnown
<1>8. QED BY <1>4, <1>5, <1>6, <1>7 DEF UnderWay

\* A piece of a file.
IsPiece(part, file, offset, beats) ==
    /\ part \in Seq(StripeBeat) /\ Len(part) = beats
    /\ \A k \in 1..beats : part[k] = file[offset + k]

LEMMA PieceOf ==
    ASSUME NEW file \in Seq(StripeBeat), NEW offset \in Nat, NEW beats \in Nat,
           offset + beats <= Len(file)
    PROVE  IsPiece(SubSeq(file, offset + 1, offset + beats), file, offset, beats)
<1>1. Len(file) \in Nat /\ (offset + beats) - (offset + 1) + 1 = beats
  BY LenProperties
<1>2. PICK m \in Int, n \in Int : m = offset + 1 /\ n = offset + beats /\ n - m + 1 = beats
  BY <1>1
<1>3. \A i \in m..n : file[i] \in StripeBeat
  <2>1. TAKE i \in m..n
  <2>2. i \in 1..Len(file)
    BY <1>1, <1>2
  <2>3. QED BY <2>2, ElementOfSeq
<1>4. PICK part : part = SubSeq(file, m, n)
  OBVIOUS
<1>5. /\ part \in Seq(StripeBeat)
      /\ Len(part) = IF m <= n THEN n - m + 1 ELSE 0
      /\ \A k \in 1..(n - m + 1) : part[k] = file[m + k - 1]
  BY <1>3, <1>4, SubSeqProperties
<1>6. Len(part) = beats
  BY <1>2, <1>5
<1>7. \A k \in 1..beats : part[k] = file[offset + k]
  <2>1. TAKE k \in 1..beats
  <2>2. k \in 1..(n - m + 1) /\ m + k - 1 = offset + k
    BY <1>2
  <2>3. QED BY <1>5, <2>2
<1>8. IsPiece(part, file, offset, beats)
  BY <1>5, <1>6, <1>7 DEF IsPiece
<1>9. QED BY <1>2, <1>4, <1>8

\* The blocks of a list, read one behind the other, are the records they say.
LEMMA ReadBack ==
    ASSUME NEW recs \in Seq(RecordType), NEW s \in StripeType,
           NEW fs, fs \in [DOMAIN fs -> Seq(StripeBeat)],
           NEW list, ListHolds(list, s, fs, recs)
    PROVE  FlattenSeq([b \in DOMAIN list |->
               SubSeq(fs[list[b].path], list[b].file_offset + 1,
                      list[b].file_offset + list[b].beats)])
             = Cut(recs, s.override, 0, After(list, Len(list)))
<1>1. PICK n \in Nat : n = Len(list) /\ DOMAIN list = 1..n
  BY LenProperties DEF ListHolds
<1>2. s.override \in Override /\ Len(recs) \in Nat
  BY LenProperties DEF StripeType
<1> DEFINE read == [b \in DOMAIN list |->
               SubSeq(fs[list[b].path], list[b].file_offset + 1,
                      list[b].file_offset + list[b].beats)]
           so_far == [i \in Nat |-> IF i <= n THEN Cut(recs, s.override, 0, After(list, i)) ELSE <<>>]
\* Each block is its records, and ends before the end of the stream.
<1>3. ASSUME NEW b \in 1..n
      PROVE  /\ read[b] \in Seq(StripeBeat)
             /\ After(list, b - 1) \in Nat /\ After(list, b) \in Nat
             /\ After(list, b) <= Len(recs)
             /\ Cut(recs, s.override, 0, After(list, b))
                  = Cut(recs, s.override, 0, After(list, b - 1)) \o read[b]
  <2>1. PICK e \in EntryType, c \in Nat :
            e = list[b] /\ c = b - 1 /\ EntryHolds(e, c, s, fs, recs)
            /\ e.first_packet = After(list, c)
    <3>1. list[b] \in EntryType
      BY <1>1, ElementOfSeq DEF ListHolds
    <3>2. EntryHolds(list[b], b - 1, s, fs, recs) /\ list[b].first_packet = After(list, b - 1)
      BY <1>1 DEF ListHolds, BlocksHold
    <3>3. b - 1 \in Nat
      OBVIOUS
    <3>4. QED BY <3>1, <3>2, <3>3
  <2>2. PICK f \in Nat, p \in Nat, beats \in Nat, offset \in Nat :
            f = e.first_packet /\ p = e.packets /\ beats = e.beats /\ offset = e.file_offset
    BY DEF EntryType
  <2>3. PICK cut : cut = Cut(recs, s.override, f, p)
    OBVIOUS
  <2>4. /\ e.path \in DOMAIN fs /\ f + p <= Len(recs) /\ beats = Len(cut)
        /\ offset + beats <= Len(fs[e.path])
        /\ \A k \in 1..beats : fs[e.path][offset + k] = cut[k]
    BY <2>1, <2>2, <2>3 DEF EntryHolds
  <2>5. PICK file \in Seq(StripeBeat) : file = fs[e.path] /\ Len(file) \in Nat
    BY <2>4, LenProperties
  <2>6. cut \in Seq(StripeBeat)
    BY <1>2, <2>3, <2>4, CutType
  <2>7. PICK part : part = SubSeq(file, offset + 1, offset + beats)
    OBVIOUS
  <2>8. /\ part \in Seq(StripeBeat) /\ Len(part) = beats
        /\ \A k \in 1..beats : part[k] = file[offset + k]
    <3>1. offset + beats <= Len(file)
      BY <2>4, <2>5
    <3>2. IsPiece(SubSeq(file, offset + 1, offset + beats), file, offset, beats)
      BY <2>5, <3>1, PieceOf
    <3>3. IsPiece(part, file, offset, beats)
      BY <2>7, <3>2
    <3>4. QED BY <3>3 DEF IsPiece
  <2>9. part = cut
    <3>1. \A k \in 1..Len(part) : part[k] = cut[k]
      BY <2>4, <2>5, <2>8
    <3>2. Len(part) = Len(cut)
      BY <2>4, <2>8
    <3>3. QED BY <2>6, <2>8, <3>1, <3>2, SeqEqual
  <2>10. read[b] = part
    BY <1>1, <2>1, <2>2, <2>5, <2>7
  <2>11. After(list, b) = f + p /\ After(list, b - 1) = f
    <3>1. After(list, b - 1) = f
      BY <2>1, <2>2
    <3>2. b # 0
      OBVIOUS
    <3>3. After(list, b) = e.first_packet + e.packets
      BY <2>1, <3>2 DEF After
    <3>4. QED BY <2>2, <3>1, <3>3
  <2>12. Cut(recs, s.override, 0, f + p) = Cut(recs, s.override, 0, f) \o cut
    <3>1. f + p <= Len(recs)
      BY <2>4
    <3>2. Cut(recs, s.override, 0, f + p)
            = Cut(recs, s.override, 0, f) \o Cut(recs, s.override, f, p)
      BY <1>2, <3>1, CutSplit
    <3>3. QED BY <2>3, <3>2
  <2> HIDE DEF read
  <2>13. f + p \in Nat
    OBVIOUS
  <2>14. QED BY <2>4, <2>8, <2>9, <2>10, <2>11, <2>12, <2>13
<1>4. read \in Seq(Seq(StripeBeat)) /\ Len(read) = n
  <2>1. \A b \in 1..n : read[b] \in Seq(StripeBeat)
    BY <1>3
  <2>2. DOMAIN read = 1..n /\ read = [b \in 1..n |-> read[b]]
    BY <1>1
  <2> HIDE DEF read
  <2>3. read \in [1..n -> Seq(StripeBeat)]
    BY <2>1, <2>2
  <2>4. read \in Seq(Seq(StripeBeat))
    BY <2>3
  <2>5. QED BY <2>2, <2>4, LenProperties
<1> HIDE DEF read
<1>5. ASSUME NEW i \in 0..n
      PROVE  After(list, i) \in Nat /\ 0 + After(list, i) <= Len(recs)
  <2>1. CASE i = 0
    BY <1>2, <2>1 DEF After
  <2>2. CASE i # 0
    <3>1. i \in 1..n
      BY <2>2
    <3>2. After(list, i) \in Nat /\ After(list, i) <= Len(recs)
      BY <1>3, <3>1
    <3>3. QED BY <1>2, <3>2
  <2>3. QED BY <2>1, <2>2
<1>6. ASSUME NEW i \in 0..n PROVE Cut(recs, s.override, 0, After(list, i)) \in Seq(StripeBeat)
  <2>1. 0 \in Nat
    OBVIOUS
  <2>2. QED BY <1>2, <1>5, <2>1, CutType
<1>7. so_far \in [Nat -> Seq(StripeBeat)]
  <2>1. \A i \in Nat : i <= n => i \in 0..n
    OBVIOUS
  <2>2. <<>> \in Seq(StripeBeat)
    OBVIOUS
  <2>3. QED BY <1>6, <2>1, <2>2
<1>8. \A i \in 0..n : so_far[i] = Cut(recs, s.override, 0, After(list, i))
  OBVIOUS
<1> HIDE DEF so_far
<1>9. so_far[0] = <<>>
  <2>1. After(list, 0) = 0 /\ 0 \in 0..n /\ 0 + 0 <= Len(recs) /\ 0 \in Nat
    BY <1>2 DEF After
  <2>2. Cut(recs, s.override, 0, 0) = <<>>
    BY <1>2, <2>1, CutType
  <2>3. QED BY <1>8, <2>1, <2>2
<1>10. ASSUME NEW b \in 1..Len(read) PROVE so_far[b] = so_far[b - 1] \o read[b]
  <2>1. b \in 1..n /\ b \in 0..n /\ b - 1 \in 0..n
    BY <1>4
  <2>2. QED BY <1>3, <1>8, <2>1
<1>11. FlattenSeq(read) = so_far[n]
  BY <1>4, <1>7, <1>9, <1>10, FlattenIs
<1>12. n \in 0..n
  OBVIOUS
<1>13. QED BY <1>1, <1>8, <1>11, <1>12 DEF read

\* A stripe with other counts, or in another place.
LEMMA StripeWith ==
    ASSUME NEW s \in StripeType, NEW packets \in Nat, NEW beats \in Nat
    PROVE  [s EXCEPT !.packets = packets, !.beats = beats] \in StripeType
<1>1. PICK t \in StripeType : t = [s EXCEPT !.packets = packets]
  BY DEF StripeType
<1>2. [t EXCEPT !.beats = beats] \in StripeType
  BY DEF StripeType
<1>3. [s EXCEPT !.packets = packets, !.beats = beats] = [t EXCEPT !.beats = beats]
  BY <1>1
<1>4. QED BY <1>2, <1>3

LEMMA StripeAt ==
    ASSUME NEW s \in StripeType, NEW id \in Nat, NEW first \in Nat, NEW offset \in Nat,
           NEW offsets \in [0..(Lanes - 1) -> Nat]
    PROVE  [s EXCEPT !.id = id, !.first = first, !.offsets = offsets, !.offset = offset]
             \in StripeType
<1>1. PICK t \in StripeType : t = [s EXCEPT !.id = id]
  BY DEF StripeType
<1>2. PICK u \in StripeType : u = [t EXCEPT !.first = first]
  BY DEF StripeType
<1>3. PICK v \in StripeType : v = [u EXCEPT !.offsets = offsets]
  BY DEF StripeType
<1>4. [v EXCEPT !.offset = offset] \in StripeType
  BY DEF StripeType
<1>5. [s EXCEPT !.id = id, !.first = first, !.offsets = offsets, !.offset = offset]
        = [v EXCEPT !.offset = offset]
  BY <1>1, <1>2, <1>3
<1>6. QED BY <1>4, <1>5

\* PutRecord of block s, with the record that is next.
StripeWithRecord(s, r) ==
    [s EXCEPT !.packets = s.packets + 1, !.beats = s.beats + RecordBeats(r)]
FilesWithRecord(s, fs, r) ==
    [fs EXCEPT ![PathOf(s, s.id)] = fs[PathOf(s, s.id)] \o WrittenAs(r, s.override)]

Placed(t, gs, d, list, recs) ==
    /\ t \in StripeType /\ t.first + t.packets = d
    /\ gs \in [DOMAIN gs -> Seq(StripeBeat)]
    /\ UnderWay(t, gs, list, recs)

LEMMA RecordPut ==
    ASSUME NEW recs \in Seq(RecordType), NEW s \in StripeType, NEW list,
           NEW fs, fs \in [DOMAIN fs -> Seq(StripeBeat)], UnderWay(s, fs, list, recs),
           NEW d \in Nat, d = s.first + s.packets, d < Len(recs),
           NEW next, next = recs[d + 1],
           s.packets = 0 \/ s.beats + RecordBeats(next) <= BlockBeats
    PROVE  Placed(StripeWithRecord(s, next), FilesWithRecord(s, fs, next), d + 1, list, recs)
<1>0. PICK t, gs : t = StripeWithRecord(s, next) /\ gs = FilesWithRecord(s, fs, next)
  OBVIOUS
<1>1. PICK r \in RecordType : r = next /\ r = recs[d + 1]
  <2>1. d + 1 \in 1..Len(recs)
    BY LenProperties
  <2>2. QED BY <2>1, ElementOfSeq
<1>2. PICK beats \in Nat : beats = RecordBeats(r)
  <2>1. 0 \in Override
    BY DEF Override
  <2>2. RecordBeats(r) \in Nat
    BY <2>1, WrittenType, Zenon
  <2>3. QED BY <2>2
<1>3. PICK written \in Seq(StripeBeat) : written = WrittenAs(r, s.override)
  <2>1. s.override \in Override
    BY DEF StripeType
  <2>2. WrittenAs(r, s.override) \in Seq(StripeBeat)
    BY <2>1, WrittenType, Zenon
  <2>3. QED BY <2>2
<1>4. PICK path : path = PathOf(s, s.id)
  OBVIOUS
<1>5. path \in DOMAIN fs
  <2>1. EntryHolds(EntryOf(s), s.id, s, fs, recs)
    BY ListFacts, Zenon
  <2>2. EntryOf(s).path \in DOMAIN fs
    BY <2>1 DEF EntryHolds
  <2>3. EntryOf(s).path = path
    BY <1>4 DEF EntryOf
  <2>4. QED BY <2>2, <2>3
<1>6. t = [s EXCEPT !.packets = s.packets + 1, !.beats = s.beats + beats]
  BY <1>0, <1>1, <1>2 DEF StripeWithRecord
<1>7. /\ t.container = s.container /\ t.override = s.override /\ t.id = s.id
      /\ t.packets = s.packets + 1 /\ t.beats = s.beats + beats
      /\ t.first = s.first /\ t.offset = s.offset /\ t.offsets = s.offsets
  BY <1>6 DEF StripeType
<1>8. t \in StripeType
  <2>1. PICK p \in Nat, b \in Nat : p = s.packets + 1 /\ b = s.beats + beats
    BY DEF StripeType
  <2>2. [s EXCEPT !.packets = p, !.beats = b] \in StripeType
    BY StripeWith
  <2>3. QED BY <1>6, <2>1, <2>2
<1>9. gs = [fs EXCEPT ![path] = fs[path] \o written]
  BY <1>0, <1>1, <1>3, <1>4 DEF FilesWithRecord
<1>10. /\ DOMAIN gs = DOMAIN fs /\ gs[path] = fs[path] \o written
       /\ \A q \in DOMAIN fs : q # path => gs[q] = fs[q]
  BY <1>5, <1>9
<1>11. gs \in [DOMAIN gs -> Seq(StripeBeat)]
  <2>1. fs[path] \in Seq(StripeBeat)
    BY <1>5
  <2>2. fs[path] \o written \in Seq(StripeBeat)
    BY <2>1, ConcatProperties
  <2>3. QED BY <1>9, <1>10, <2>2
<1>12. PutTo(s, t, fs, gs, r)
  BY <1>2, <1>3, <1>4, <1>7, <1>10 DEF PutTo
<1>13. UnderWay(t, gs, list, recs)
  <2>1. s.first + s.packets < Len(recs) /\ r = recs[s.first + s.packets + 1]
    BY <1>1
  <2>2. s.packets = 0 \/ s.beats + RecordBeats(r) <= BlockBeats
    BY <1>1
  <2>3. QED BY <1>8, <1>12, <2>1, <2>2, PutKept
<1>14. t.first + t.packets = d + 1
  <2>1. s.first \in Nat /\ s.packets \in Nat
    BY DEF StripeType
  <2>2. QED BY <1>7, <2>1
<1>15. Placed(t, gs, d + 1, list, recs)
  BY <1>8, <1>11, <1>13, <1>14 DEF Placed
<1>16. QED BY <1>0, <1>15

\* finish_block and start_block.
FilesNextBlock(s, fs) ==
    IF s.container THEN fs
    ELSE [p \in DOMAIN fs \cup {PathOf(s, s.id + 1)} |->
            IF p = PathOf(s, s.id + 1) THEN <<>> ELSE fs[p]]

LEMMA BlockBegun ==
    ASSUME NEW s \in StripeType, NEW d \in Nat, NEW t, t = NextOf(s, d),
           NEW fs, fs \in [DOMAIN fs -> Seq(StripeBeat)],
           NEW gs, gs = FilesNextBlock(s, fs)
    PROVE  /\ t \in StripeType /\ t.packets = 0 /\ t.first = d /\ t.override = s.override
           /\ gs \in [DOMAIN gs -> Seq(StripeBeat)]
           /\ BeginNext(s, t, fs, gs, d)
<1>1. PICK offsets \in [0..(Lanes - 1) -> Nat] : offsets = OffsetsOf(s)
  BY OffsetsType
<1>2. PICK id \in Nat, lane \in 0..(Lanes - 1) : id = s.id + 1 /\ lane = Lane(s.id + 1)
  <2>1. s.id + 1 \in Nat
    BY DEF StripeType
  <2>2. Lane(s.id + 1) \in 0..(Lanes - 1)
    BY <2>1, LaneFacts, Zenon
  <2>3. QED BY <2>1, <2>2
<1>3. PICK offset \in Nat : offset = IF s.container THEN offsets[lane] ELSE 0
  <2>1. offsets[lane] \in Nat
    OBVIOUS
  <2>2. QED BY <2>1
<1>4. t = [s EXCEPT !.id = id, !.packets = 0, !.beats = 0, !.first = d,
                    !.offsets = offsets, !.offset = offset]
  BY <1>1, <1>2, <1>3 DEF NextOf
<1>5. /\ t.container = s.container /\ t.override = s.override /\ t.id = id
      /\ t.packets = 0 /\ t.beats = 0 /\ t.first = d /\ t.offsets = offsets /\ t.offset = offset
  BY <1>4 DEF StripeType
<1>6. t \in StripeType
  <2>1. PICK u \in StripeType : u = [s EXCEPT !.packets = 0, !.beats = 0]
    <3>1. PICK none \in Nat : none = 0
      OBVIOUS
    <3>2. [s EXCEPT !.packets = none, !.beats = none] \in StripeType
      BY StripeWith
    <3>3. QED BY <3>1, <3>2
  <2>2. t = [u EXCEPT !.id = id, !.first = d, !.offsets = offsets, !.offset = offset]
    BY <1>4, <2>1 DEF StripeType
  <2>3. [u EXCEPT !.id = id, !.first = d, !.offsets = offsets, !.offset = offset]
           \in StripeType
    BY StripeAt, Zenon
  <2>4. QED BY <2>2, <2>3
<1>7. gs \in [DOMAIN gs -> Seq(StripeBeat)]
  <2>1. CASE s.container
    BY <2>1 DEF FilesNextBlock
  <2>2. CASE ~s.container
    <3>1. <<>> \in Seq(StripeBeat)
      OBVIOUS
    <3>2. QED BY <2>2, <3>1 DEF FilesNextBlock
  <2>3. QED BY <2>1, <2>2
<1>8. BeginNext(s, t, fs, gs, d)
  BY <1>1, <1>2, <1>3, <1>5 DEF BeginNext, FilesNextBlock
<1>9. QED BY <1>5, <1>6, <1>7, <1>8

\* Files opened for writing are empty, the others are as they were.
LEMMA OpenedFacts ==
    ASSUME files \in [DOMAIN files -> Seq(StripeBeat)], NEW paths
    PROVE  /\ DOMAIN Opened(paths) = DOMAIN files \cup paths
           /\ Opened(paths) \in [DOMAIN Opened(paths) -> Seq(StripeBeat)]
           /\ \A p \in paths : Opened(paths)[p] = <<>>
<1>1. <<>> \in Seq(StripeBeat)
  OBVIOUS
<1>2. QED BY <1>1 DEF Opened

\* The stream that is dealt out.
LEMMA StreamType ==
    ASSUME TraceInv, stage \notin {"pcap", "trace"}
    PROVE  records \in Seq(RecordType) /\ Len(records) \in Nat
<1>1. records \in Seq(RecordType)
  BY DEF TraceInv, StreamInv
<1>2. QED BY <1>1, LenProperties

LEMMA StripeStartKept == TraceInv /\ StripeInv /\ StripeStart => StripeInv'
<1>1. SUFFICES ASSUME TraceInv, StripeInv, StripeStart PROVE StripeInv'
  OBVIOUS
<1>2. records \in Seq(RecordType) /\ records' = records
  BY <1>1, StreamType DEF StripeStart, streamFile
<1>3. files \in [DOMAIN files -> Seq(StripeBeat)] /\ stripe \in StripeType
  BY <1>1 DEF StripeInv
<1>4. CASE stage' = "idle" /\ UNCHANGED striping
  BY <1>3, <1>4 DEF StripeInv, striping
<1>5. CASE ~(stage' = "idle" /\ UNCHANGED striping)
  <2>1. PICK container \in BOOLEAN, force \in BOOLEAN, override \in Overrides :
            LET s == [NoStripe EXCEPT !.container = container, !.force = force,
                                      !.override = override]
            IN  /\ stage' = "stripe" /\ stripe' = s /\ done' = 0 /\ blocks' = <<>>
                /\ files' = Opened(OpenAtStart(s))
    BY <1>1, <1>5 DEF StripeStart
  <2>2. PICK s :
            /\ s = [NoStripe EXCEPT !.container = container, !.force = force,
                                    !.override = override]
            /\ stage' = "stripe" /\ stripe' = s /\ done' = 0 /\ blocks' = <<>>
            /\ files' = Opened(OpenAtStart(s))
    BY <2>1
  <2>3. override \in Override
    BY TraceAssumption DEF Override
  <2>4. s = [container |-> container, force |-> force, override |-> override,
             id |-> 0, packets |-> 0, beats |-> 0, first |-> 0, offset |-> 0,
             offsets |-> [l \in 0..(Lanes - 1) |-> 0]]
    BY <2>2 DEF NoStripe
  <2>5. /\ s \in StripeType /\ s.container = container
        /\ s.id = 0 /\ s.packets = 0 /\ s.beats = 0 /\ s.first = 0 /\ s.offset = 0
        /\ \A l \in 0..(Lanes - 1) : s.offsets[l] = 0
    BY <2>3, <2>4 DEF StripeType
  <2>6. PICK gs : gs = files' /\ gs = Opened(OpenAtStart(s))
    BY <2>2
  <2>7. /\ gs \in [DOMAIN gs -> Seq(StripeBeat)]
        /\ \A p \in OpenAtStart(s) : p \in DOMAIN gs /\ gs[p] = <<>>
    BY <1>3, <2>6, OpenedFacts
  <2>8. PathOf(s, 0) \in OpenAtStart(s)
    <3>1. CASE container
      <4>1. 0 \in Nat
        OBVIOUS
      <4>2. PathOf(s, 0) = <<Lane(0)>> /\ Lane(0) \in 0..(Lanes - 1)
        BY <2>5, <3>1, <4>1, LaneFacts
      <4>3. QED BY <2>5, <3>1, <4>2 DEF OpenAtStart
    <3>2. CASE ~container
      BY <2>5, <3>2 DEF OpenAtStart
    <3>3. QED BY <3>1, <3>2
  <2>9. s.container => \A l \in 0..(Lanes - 1) : <<l>> \in OpenAtStart(s)
    BY DEF OpenAtStart
  <2>10. UnderWay(s, gs, <<>>, records)
    BY <1>2, <2>5, <2>7, <2>8, <2>9, FirstBlockKept
  <2>11. s.first + s.packets = 0
    BY <2>5
  <2>12. QED BY <1>2, <2>2, <2>5, <2>6, <2>7, <2>10, <2>11 DEF StripeInv
<1>6. QED BY <1>4, <1>5

LEMMA StripeRecordKept == TraceInv /\ StripeInv /\ StripeRecord => StripeInv'
<1>1. SUFFICES ASSUME TraceInv, StripeInv, StripeRecord PROVE StripeInv'
  OBVIOUS
<1>2. /\ records \in Seq(RecordType) /\ records' = records /\ stage = "stripe"
      /\ done < Len(records) /\ Len(records) \in Nat
  BY <1>1, StreamType DEF StripeRecord, streamFile
<1>3. PICK s \in StripeType : s = stripe
  BY <1>1 DEF StripeInv
<1>4. PICK fs : fs = files /\ fs \in [DOMAIN fs -> Seq(StripeBeat)]
  BY <1>1 DEF StripeInv
<1>5. UnderWay(s, fs, blocks, records)
  BY <1>1, <1>2, <1>3, <1>4 DEF StripeInv
<1>6. PICK d \in Nat : d = done /\ d = s.first + s.packets /\ d < Len(records)
  <2>1. done = s.first + s.packets
    BY <1>1, <1>2, <1>3 DEF StripeInv
  <2>2. s.first \in Nat /\ s.packets \in Nat
    BY DEF StripeType
  <2>3. QED BY <1>2, <2>1, <2>2
<1>7. Written(next_record) = WrittenAs(records[d + 1], s.override)
  BY <1>3, <1>6 DEF Written, WrittenAs, next_record
\* A record that is put makes the state that is wanted.
<1>8. ASSUME NEW t \in StripeType, NEW gs, NEW list, gs \in [DOMAIN gs -> Seq(StripeBeat)],
             UnderWay(t, gs, list, records), t.override = s.override,
             d = t.first + t.packets,
             t.packets = 0 \/ t.beats + RecordBeats(records[d + 1]) <= BlockBeats,
             PutRecord(t, gs), blocks' = list, stage' = stage
      PROVE  StripeInv'
  <2>1. PICK u, hs : u = stripe' /\ hs = files'
    OBVIOUS
  <2>2. u = StripeWithRecord(t, records[d + 1])
    BY <1>6, <1>8, <2>1 DEF PutRecord, next_record, StripeWithRecord
  <2>3. hs = FilesWithRecord(t, gs, records[d + 1])
    BY <1>7, <1>8, <2>1 DEF PutRecord, FilesWithRecord
  <2>4. Placed(u, hs, d + 1, list, records)
    <3>1. d < Len(records) /\ records \in Seq(RecordType)
      BY <1>2, <1>6
    <3>2. t.packets = 0 \/ t.beats + RecordBeats(records[d + 1]) <= BlockBeats
      BY <1>8
    <3>3. d \in Nat /\ d = t.first + t.packets
      BY <1>6, <1>8
    <3>4. /\ t \in StripeType /\ gs \in [DOMAIN gs -> Seq(StripeBeat)]
          /\ UnderWay(t, gs, list, records)
      BY <1>8
    <3>5. QED BY <2>2, <2>3, <3>1, <3>2, <3>3, <3>4, RecordPut
  <2>5. done' = d + 1
    BY <1>6, <1>8 DEF PutRecord
  <2>6. QED BY <1>2, <1>8, <2>1, <2>4, <2>5 DEF Placed, StripeInv
<1>9. CASE ~BlockFull
  <2>1. PutRecord(s, fs) /\ stage' = stage /\ blocks' = blocks
    BY <1>1, <1>3, <1>4, <1>9 DEF StripeRecord
  <2>2. s.packets = 0 \/ s.beats + RecordBeats(records[d + 1]) <= BlockBeats
    <3>1. ~(s.packets # 0 /\ s.beats + RecordBeats(records[d + 1]) > BlockBeats)
      BY <1>3, <1>6, <1>9 DEF BlockFull, next_record
    <3>2. PICK beats \in Nat : beats = RecordBeats(records[d + 1])
      <4>1. d + 1 \in 1..Len(records)
        BY <1>2, <1>6
      <4>2. records[d + 1] \in RecordType
        BY <1>2, <4>1, ElementOfSeq
      <4>3. 0 \in Override
        BY DEF Override
      <4>4. QED BY <4>2, <4>3, WrittenType
    <3>3. s.beats \in Nat /\ BlockBeats \in Nat
      BY TraceAssumption DEF StripeType
    <3>4. QED BY <3>1, <3>2, <3>3
  <2>3. QED BY <1>4, <1>5, <1>6, <1>8, <2>1, <2>2
<1>10. CASE BlockFull
  <2> DEFINE next_path == PathOf(s, s.id + 1)
  <2>1. BlockEntry = EntryOf(s)
    BY <1>3 DEF BlockEntry, EntryOf
  <2>2. blocks' = Append(blocks, EntryOf(s))
    BY <1>1, <1>10, <2>1 DEF StripeRecord
  <2>3. NextBlock = NextOf(s, d)
    BY <1>3, <1>6 DEF NextBlock, NextOf, ContainerOffsets, OffsetsOf
  <2>4. PICK t : t = NextOf(s, d)
    OBVIOUS
  <2>5. ASSUME NEW gs, PutRecord(t, gs), stage' = stage, gs = FilesNextBlock(s, fs)
        PROVE  StripeInv'
    <3>1. /\ t \in StripeType /\ t.packets = 0 /\ t.first = d /\ t.override = s.override
          /\ gs \in [DOMAIN gs -> Seq(StripeBeat)]
          /\ BeginNext(s, t, fs, gs, d)
      BY <1>3, <1>4, <1>6, <2>4, <2>5, BlockBegun
    <3>2. BeginNext(s, t, fs, gs, s.first + s.packets)
      BY <1>6, <3>1
    <3>3. UnderWay(t, gs, Append(blocks, EntryOf(s)), records)
      BY <1>2, <1>4, <1>5, <3>1, <3>2, NextBlockKept
    <3>4. d = t.first + t.packets
      BY <3>1
    <3>5. QED BY <1>8, <2>2, <2>5, <3>1, <3>3, <3>4
  <2>6. CASE s.container
    <3>1. PutRecord(t, fs) /\ stage' = stage
      BY <1>1, <1>3, <1>4, <1>10, <2>3, <2>4, <2>6 DEF StripeRecord
    <3>2. fs = FilesNextBlock(s, fs)
      BY <2>6 DEF FilesNextBlock
    <3>3. QED BY <2>5, <3>1, <3>2
  <2>7. CASE ~s.container /\ stage' = "idle" /\ UNCHANGED <<files, stripe, done>>
    BY <1>1, <2>7 DEF StripeInv
  <2>8. CASE ~s.container /\ ~(stage' = "idle" /\ UNCHANGED <<files, stripe, done>>)
    <3>1. PutRecord(t, Opened({next_path})) /\ stage' = stage
      BY <1>1, <1>3, <1>10, <2>3, <2>4, <2>8 DEF StripeRecord
    <3>2. PICK gs : gs = Opened({next_path})
      OBVIOUS
    <3>3. gs = FilesNextBlock(s, fs)
      BY <1>4, <2>8, <3>2 DEF Opened, FilesNextBlock
    <3>4. PutRecord(t, gs)
      BY <3>1, <3>2
    <3>5. QED BY <2>5, <3>1, <3>3, <3>4
  <2>9. QED BY <2>6, <2>7, <2>8
<1>11. QED BY <1>9, <1>10

LEMMA StripeEndKept == TraceInv /\ StripeInv /\ StripeEnd => StripeInv'
<1>1. SUFFICES ASSUME TraceInv, StripeInv, StripeEnd PROVE StripeInv'
  OBVIOUS
<1>2. /\ records \in Seq(RecordType) /\ records' = records /\ stage = "stripe"
      /\ done = Len(records) /\ stripe' = stripe
  BY <1>1, StreamType DEF StripeEnd, streamFile
<1>3. /\ files \in [DOMAIN files -> Seq(StripeBeat)] /\ stripe \in StripeType
      /\ UnderWay(stripe, files, blocks, records)
      /\ done = stripe.first + stripe.packets
  BY <1>1, <1>2 DEF StripeInv
<1>4. CASE complete /\ done # 0
  <2>1. PICK list : list = Append(blocks, EntryOf(stripe))
    OBVIOUS
  <2>2. BlockEntry = EntryOf(stripe)
    BY DEF BlockEntry, EntryOf
  <2>3. stage' = "striped" /\ blocks' = list /\ files' = files
    BY <1>1, <1>4, <2>1, <2>2 DEF StripeEnd
  <2>4. ListHolds(list, stripe, files, records)
    BY <1>3, <2>1 DEF UnderWay
  <2>5. list # <<>> /\ After(list, Len(list)) = Len(records)
    <3>1. PICK n \in Nat, e \in EntryType :
              /\ n = Len(blocks) /\ blocks \in Seq(EntryType) /\ e = EntryOf(stripe)
              /\ e.first_packet = stripe.first /\ e.packets = stripe.packets
      BY <1>3, EntryOfType, LenProperties DEF UnderWay
    <3>2. Len(list) = n + 1 /\ list[n + 1] = e
      BY <2>1, <3>1, AppendProperties
    <3>3. Len(<<>>) = 0 /\ n + 1 # 0
      OBVIOUS
    <3>4. After(list, Len(list)) = stripe.first + stripe.packets
      BY <3>1, <3>2, <3>3 DEF After
    <3>5. QED BY <1>2, <1>3, <3>2, <3>3, <3>4
  <2>6. QED BY <1>2, <1>3, <2>3, <2>4, <2>5 DEF StripeInv
<1>5. CASE ~(complete /\ done # 0)
  <2>1. stage' = "idle"
    BY <1>1, <1>5 DEF StripeEnd
  <2>2. files' = files \/ files' = [p \in DOMAIN files \ {PathOf(stripe, 0)} |-> files[p]]
    BY <1>1 DEF StripeEnd
  <2>3. files' \in [DOMAIN files' -> Seq(StripeBeat)]
    BY <1>3, <2>2
  <2>4. QED BY <1>2, <1>3, <2>1, <2>3 DEF StripeInv
<1>6. QED BY <1>4, <1>5

\* The other tools leave the lane files alone.
LEMMA StripingKept ==
    ASSUME StripeInv, UNCHANGED striping,
           \/ stage' \notin {"stripe", "striped"}
           \/ UNCHANGED <<stage, records>>
    PROVE  StripeInv'
<1>1. stripe' = stripe /\ done' = done /\ files' = files /\ blocks' = blocks
  BY DEF striping
<1>2. CASE stage' \notin {"stripe", "striped"}
  BY <1>1, <1>2 DEF StripeInv
<1>3. CASE UNCHANGED <<stage, records>>
  BY <1>1, <1>3 DEF StripeInv
<1>4. QED BY <1>2, <1>3

LEMMA InitStripe == FilesInit => StripeInv
<1>1. SUFFICES ASSUME FilesInit PROVE StripeInv
  OBVIOUS
<1>2. stage = "idle" /\ stripe = NoStripe /\ files = <<>>
  BY <1>1 DEF FilesInit
<1>3. files \in [DOMAIN files -> Seq(StripeBeat)]
  <2>1. DOMAIN files = {}
    BY <1>2
  <2>2. files \in Seq(Seq(StripeBeat)) /\ Len(files) = 0
    BY <1>2
  <2>3. files \in [1..0 -> Seq(StripeBeat)]
    BY <2>2, LenProperties
  <2>4. QED BY <2>1, <2>3
<1>4. stripe \in StripeType
  <2>1. NoOverride \in Override /\ 0 \in Nat
    BY DEF Override
  <2>2. QED BY <1>2, <2>1 DEF NoStripe, StripeType
<1>5. QED BY <1>2, <1>3, <1>4 DEF StripeInv

LEMMA NextStripe == TraceInv /\ StripeInv /\ [FilesNext]_fileVars => StripeInv'
<1>1. SUFFICES ASSUME TraceInv, StripeInv, [FilesNext]_fileVars PROVE StripeInv'
  OBVIOUS
<1>2. CASE StripeStart
  BY <1>1, <1>2, StripeStartKept
<1>3. CASE StripeRecord
  BY <1>1, <1>3, StripeRecordKept
<1>4. CASE StripeEnd
  BY <1>1, <1>4, StripeEndKept
<1>5. CASE Prepare
  <2>1. UNCHANGED striping /\ stage' \notin {"stripe", "striped"}
    BY <1>5 DEF Prepare
  <2>2. QED BY <1>1, <2>1, StripingKept
<1>6. CASE CapturePacket \/ CloseCapture
  <2>1. UNCHANGED striping /\ stage' \notin {"stripe", "striped"}
    BY <1>6 DEF CapturePacket, CloseCapture
  <2>2. QED BY <1>1, <2>1, StripingKept
<1>7. CASE ConvertPacket \/ GeneratePacket
  <2>1. UNCHANGED striping /\ stage' \notin {"stripe", "striped"}
    BY <1>7 DEF ConvertPacket, GeneratePacket
  <2>2. QED BY <1>1, <2>1, StripingKept
<1>8. CASE CloseTrace \/ ConvertKilled
  <2>1. UNCHANGED striping /\ stage' \notin {"stripe", "striped"}
    BY <1>8 DEF CloseTrace, ConvertKilled
  <2>2. QED BY <1>1, <2>1, StripingKept
<1>9. CASE StreamRecord \/ StreamEnd \/ StreamKilled
  <2>1. UNCHANGED striping /\ stage' \notin {"stripe", "striped"}
    BY <1>9 DEF StreamRecord, StreamEnd, StreamKilled
  <2>2. QED BY <1>1, <2>1, StripingKept
<1>10. CASE StripeKilled
  <2>1. UNCHANGED striping /\ stage' \notin {"stripe", "striped"}
    BY <1>10 DEF StripeKilled
  <2>2. QED BY <1>1, <2>1, StripingKept
<1>11. CASE AtRest \/ UNCHANGED fileVars
  <2>1. UNCHANGED striping /\ UNCHANGED <<stage, records>>
    BY <1>11 DEF AtRest, fileVars, streamFile
  <2>2. QED BY <1>1, <2>1, StripingKept
<1>12. QED
  BY <1>1, <1>2, <1>3, <1>4, <1>5, <1>6, <1>7, <1>8, <1>9, <1>10, <1>11 DEF FilesNext

\* What the entries of a finished list say of the stream.
LEMMA StripeInvReassembles == TraceInv /\ StripeInv => StripesReassemble
<1>1. SUFFICES ASSUME TraceInv, StripeInv, stage = "striped"
               PROVE  StripesReassemble
  BY DEF StripesReassemble
<1>2. PICK recs \in Seq(RecordType), n \in Nat :
          recs = records /\ n = Len(recs) /\ DOMAIN recs = 1..n
  BY <1>1, StreamType, LenProperties
<1>3. PICK s \in StripeType : s = stripe /\ s.override \in Override
  BY <1>1 DEF StripeInv, StripeType
<1>4. /\ files \in [DOMAIN files -> Seq(StripeBeat)]
      /\ ListHolds(blocks, s, files, recs)
      /\ After(blocks, Len(blocks)) = n
  BY <1>1, <1>2, <1>3 DEF StripeInv
<1>5. DOMAIN blocks = 1..Len(blocks) /\ blocks \in Seq(EntryType)
  BY <1>4, LenProperties DEF ListHolds
<1>6. \A r : Written(r) = WrittenAs(r, s.override)
  BY <1>3 DEF Written, WrittenAs
<1>7. Reassembled = FlattenSeq([i \in DOMAIN records |-> Written(records[i])])
  <2>1. Reassembled = Cut(recs, s.override, 0, n)
    BY <1>4, ReadBack DEF Reassembled
  <2>2. PartsOf(recs, s.override, 0, n) = [i \in DOMAIN records |-> Written(records[i])]
    <3>1. PartsOf(recs, s.override, 0, n) = [i \in 1..n |-> WrittenAs(recs[0 + i], s.override)]
      BY DEF PartsOf
    <3>2. \A i \in 1..n : WrittenAs(recs[0 + i], s.override) = Written(records[i])
      <4>1. TAKE i \in 1..n
      <4>2. 0 + i = i
        OBVIOUS
      <4>3. QED BY <1>2, <1>6, <4>2
    <3>3. QED BY <1>2, <3>1, <3>2
  <2>3. QED BY <2>1, <2>2 DEF Cut
<1>8. ASSUME NEW b \in DOMAIN blocks
      PROVE  /\ blocks[b].path \in DOMAIN files
             /\ blocks[b].file_offset + blocks[b].beats <= Len(files[blocks[b].path])
             /\ blocks[b].lane = (b - 1) % Lanes
             /\ blocks[b].beats <= BlockBeats \/ blocks[b].packets = 1
             /\ blocks[b].beats =
                   Len(FlattenSeq([i \in 1..blocks[b].packets |->
                                       Written(records[blocks[b].first_packet + i])]))
  <2>1. PICK e \in EntryType : e = blocks[b] /\ EntryHolds(e, b - 1, s, files, recs)
    <3>1. b \in 1..Len(blocks)
      BY <1>5, <1>8
    <3>2. blocks[b] \in EntryType
      BY <1>5, <3>1, ElementOfSeq
    <3>3. EntryHolds(blocks[b], b - 1, s, files, recs)
      BY <1>4, <3>1 DEF ListHolds, BlocksHold
    <3>4. QED BY <3>2, <3>3
  <2>2. PICK p, f : p = e.packets /\ f = e.first_packet
    OBVIOUS
  <2>3. /\ e.path \in DOMAIN files /\ e.file_offset + e.beats <= Len(files[e.path])
        /\ e.lane = Lane(b - 1)
        /\ e.beats <= BlockBeats \/ e.packets = 1
        /\ e.beats = Len(Cut(recs, s.override, f, p))
    BY <2>1, <2>2 DEF EntryHolds
  <2>4. PartsOf(recs, s.override, f, p) = [i \in 1..p |-> Written(records[f + i])]
    BY <1>2, <1>6 DEF PartsOf
  <2>5. e.beats = Len(FlattenSeq([i \in 1..p |-> Written(records[f + i])]))
    BY <2>3, <2>4 DEF Cut
  <2>6. QED BY <2>1, <2>2, <2>3, <2>5 DEF Lane
<1>9. QED BY <1>7, <1>8 DEF StripesReassemble

\* What holds of the lane files and the block list between any two steps.
THEOREM StripingHolds == FilesSpec => [](TraceInv /\ StripeInv)
<1>1. FilesInit => TraceInv /\ StripeInv
  BY InitTrace, InitStripe
<1>2. (TraceInv /\ StripeInv) /\ [FilesNext]_fileVars => (TraceInv /\ StripeInv)'
  <2>1. TraceInv /\ [FilesNext]_fileVars => TraceInv'
    BY NextTrace
  <2>2. TraceInv /\ StripeInv /\ [FilesNext]_fileVars => StripeInv'
    BY NextStripe
  <2>3. QED BY <2>1, <2>2
<1>3. QED BY <1>1, <1>2, PTL DEF FilesSpec

\* Whatever an earlier run left on the disks, a finished block list tells a
\* reader where every record of the stream is, in order and none twice.
THEOREM StripesAlwaysReassemble == FilesSpec => []StripesReassemble
<1>1. TraceInv /\ StripeInv => StripesReassemble
  BY StripeInvReassembles
<1>2. QED BY <1>1, StripingHolds, PTL
=============================================================================
