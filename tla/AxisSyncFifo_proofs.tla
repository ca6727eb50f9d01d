------------------------- MODULE AxisSyncFifo_proofs -------------------------
(* Theorems about AxisSyncFifo: for every depth, output depth and read      *)
(* latency it keeps order, never overflows and implements AxisChannel.      *)
EXTENDS AxisSyncFifo, FiniteSetTheorems, FunctionTheorems, ModLemmas

\* One clock moves every read of the latency pipe one place on; the one in the
\* last place leaves.
LEMMA ShiftCount ==
    ASSUME NEW last \in Nat, NEW A \in SUBSET (0..last),
           NEW B, B = {j + 1 : j \in A \ {last}}
    PROVE  /\ IsFiniteSet(A) /\ Cardinality(A) \in Nat
           /\ IsFiniteSet(B) /\ Cardinality(B) \in Nat
           /\ Cardinality(B) = Cardinality(A) - Bit(last \in A)
<1> DEFINE R == A \ {last}
           f == [j \in R |-> j + 1]
<1>1. IsFiniteSet(A)
  <2>1. IsFiniteSet(0..last)
    BY FS_Interval
  <2>2. QED BY <2>1, FS_Subset
<1>2. IsFiniteSet(R) /\ Cardinality(R) = Cardinality(A) - Bit(last \in A)
  <2>1. Cardinality(A) \in Nat
    BY <1>1, FS_CardinalityType
  <2>2. QED BY <1>1, <2>1, FS_RemoveElement DEF Bit
<1>3. f \in Bijection(R, B)
  BY DEF Bijection, Injection, Surjection, IsInjective
<1>4. ExistsBijection(R, B)
  BY <1>3 DEF ExistsBijection
<1>5. IsFiniteSet(B) /\ Cardinality(B) = Cardinality(R)
  BY <1>2, <1>4, FS_Bijection
<1>6. Cardinality(A) \in Nat /\ Cardinality(B) \in Nat
  BY <1>1, <1>5, FS_CardinalityType
<1>7. QED BY <1>1, <1>2, <1>5, <1>6

\* The output pointers count modulo OUT_DEPTH.
LEMMA NextSlot ==
    ASSUME NEW n \in Nat \ {0}, NEW x \in 0..(n - 1)
    PROVE  (x + 1) % n = Slot(x, 1, n)
<1>1. x + 1 \in 0..n /\ x + 1 \in Int
  OBVIOUS
<1>2. (x + 1) % n = IF x + 1 = n THEN 0 ELSE x + 1
  BY <1>1, ModStep
<1>3. QED BY <1>1, <1>2 DEF Slot

\* Places in a ring of n slots: they add up, and differ for different distances.
LEMMA SlotFacts ==
    ASSUME NEW n \in Nat \ {0}, NEW p \in 0..(n - 1)
    PROVE  /\ \A i \in 0..n : Slot(p, i, n) \in 0..(n - 1)
           /\ \A i \in 0..(n - 1) : /\ Slot(Slot(p, 1, n), i, n) = Slot(p, i + 1, n)
                                    /\ Slot(Slot(p, i, n), 1, n) = Slot(p, i + 1, n)
           /\ \A i, j \in 0..(n - 1) : Slot(p, i, n) = Slot(p, j, n) => i = j
           /\ Slot(p, 0, n) = p /\ Slot(p, n, n) = p
  BY DEF Slot

\* The counters of the invariant are numbers.
LEMMA Amounts ==
    ASSUME TypeOK
    PROVE  /\ \A i \in Int : IsFiniteSet(OlderReads(i)) /\ Cardinality(OlderReads(i)) \in Nat
           /\ outstanding_count \in Nat /\ buffered_count \in Nat
           /\ LastOut \in Nat /\ LastStored \in Nat /\ LastStaged \in Nat
           /\ LastRead \in Nat /\ LastWritten \in Nat
<1> USE FifoAssumption
<1>1. \A S \in SUBSET Stages : IsFiniteSet(S) /\ Cardinality(S) \in Nat
  <2>1. IsFiniteSet(Stages)
    BY FS_Interval DEF Stages
  <2>2. QED BY <2>1, FS_Subset, FS_CardinalityType
<1>2. /\ outstanding_count \in Nat
      /\ \A i \in Int : IsFiniteSet(OlderReads(i)) /\ Cardinality(OlderReads(i)) \in Nat
  <2>1. {i \in Stages : rd_valid_pipe[i] # 0} \in SUBSET Stages
    OBVIOUS
  <2>2. \A i \in Int : OlderReads(i) \in SUBSET Stages
    BY DEF OlderReads
  <2>3. QED BY <1>1, <2>1, <2>2 DEF outstanding_count
<1>3. outstanding_count \in Nat
  BY <1>2
<1>4. buffered_count \in Nat
  BY <1>3 DEF TypeOK, buffered_count, Bit
<1>5. LastOut \in Nat
  BY DEF TypeOK, LastOut, Bit
<1>6. LastStored \in Nat
  BY <1>5 DEF TypeOK, LastStored
<1>7. LastStaged \in Nat
  BY <1>6 DEF TypeOK, LastStaged, Bit
<1>8. LastRead \in Nat
  BY <1>2, <1>7 DEF LastRead
<1>9. LastWritten \in Nat
  BY <1>8 DEF TypeOK, LastWritten
<1>10. QED BY <1>2, <1>4, <1>5, <1>6, <1>7, <1>8, <1>9
------------------------------------------------------------------------------
\* A pipe without reads, as reset and clear leave it.
LEMMA EmptyPipe ==
    ASSUME rd_valid_pipe = [i \in Stages |-> 0]
    PROVE  outstanding_count = 0
<1>1. {i \in Stages : rd_valid_pipe[i] # 0} = {}
  OBVIOUS
<1>2. QED BY <1>1, FS_EmptySet DEF outstanding_count

\* The registers as reset and clear leave them.
Empty ==
    /\ wr_ptr = 0 /\ rd_ptr = 0 /\ ram_count = 0
    /\ rd_valid_pipe = [i \in Stages |-> 0]
    /\ in_reg = 0 /\ ram_dout_stage = 0 /\ out_reg = 0
    /\ out_wr_ptr = 0 /\ out_rd_ptr = 0 /\ out_count = 0
    /\ accepted = delivered

LEMMA EmptyFifo == Empty /\ TypeOK => FifoInv
<1> SUFFICES ASSUME Empty, TypeOK PROVE FifoInv
  OBVIOUS
<1> USE FifoAssumption
<1>1. outstanding_count = 0
  BY EmptyPipe DEF Empty
<1>2. READY_LEVEL \in Nat
  BY DEF READY_LEVEL, READY_MARGIN, READY_MARGIN_RAW
<1>3. OutputInOrder /\ StageInOrder
  BY DEF Empty, OutputInOrder, StageInOrder
<1>4. PipeInOrder
  BY DEF Empty, PipeInOrder
<1>5. RamInOrder
  BY DEF Empty, RamInOrder
<1>6. InputInOrder
  BY <1>1 DEF Empty, TypeOK, InputInOrder, LastWritten, LastRead, LastStaged, LastStored, LastOut, Bit
<1>7. PointersAgree
  BY DEF Empty, PointersAgree, Slot
<1>8. LevelBounded
  BY <1>1, <1>2 DEF Empty, TypeOK, LevelBounded, buffered_count, Bit
<1>9. QED BY <1>3, <1>4, <1>5, <1>6, <1>7, <1>8 DEF FifoInv, InOrder

LEMMA InitFifo == Init => FifoInv
<1>1. Init => TypeOK
  <2>1. 0 \in 0..(DEPTH - 1) /\ 0 \in 0..(OUT_DEPTH - 1)
    BY FifoAssumption
  <2>2. Init => s_axis_tready_q \in BOOLEAN /\ clear_q \in BOOLEAN
    BY DEF Init
  <2>3. QED BY <2>1, <2>2 DEF Init, TypeOK
<1>2. Init => Empty
  BY DEF Init, Empty
<1>3. QED BY <1>1, <1>2, EmptyFifo

LEMMA FlushFifo ==
    ASSUME FifoInv, Flushed, delivered' = accepted, accepted' = accepted, clear_q' \in BOOLEAN
    PROVE  FifoInv'
<1>1. TypeOK'
  <2>1. 0 \in 0..(DEPTH - 1) /\ 0 \in 0..(OUT_DEPTH - 1)
    BY FifoAssumption
  <2>2. s_axis_tready_q' \in BOOLEAN
    BY DEF Flushed
  <2>3. QED BY <2>1, <2>2 DEF Flushed, FifoInv, TypeOK
<1>2. Empty'
  BY DEF Flushed, Empty
<1>3. QED BY <1>1, <1>2, EmptyFifo, PTL

\* What one clock does to the latency pipe: every older-reads count moves up a
\* place and loses the read that returns; the new read joins.
LEMMA PipeClock ==
    ASSUME FifoInv, RamClock
    PROVE  /\ outstanding_count' = outstanding_count - Bit(ram_return # 0) + Bit(rd_issue)
           /\ \A i \in Stages : i > 0 =>
                 Cardinality(OlderReads(i)') = Cardinality(OlderReads(i - 1)) - Bit(ram_return # 0)
           /\ Cardinality(OlderReads(0)') = outstanding_count - Bit(ram_return # 0)
           /\ rd_issue => rd_valid_pipe'[0] = LastRead + 1
           /\ ~rd_issue => rd_valid_pipe'[0] = 0
           /\ \A i \in Stages : i > 0 => rd_valid_pipe'[i] = rd_valid_pipe[i - 1]
<1> USE FifoAssumption
<1> DEFINE last == RAM_READ_LATENCY - 1
<1>1. last \in Nat /\ last >= 1 /\ Stages = 0..last /\ 0 \in Stages
  BY DEF Stages
<1>2. /\ \A i \in Stages : i > 0 => rd_valid_pipe'[i] = rd_valid_pipe[i - 1]
      /\ rd_valid_pipe'[0] = IF rd_issue THEN payload_ram[rd_ptr] ELSE 0
  BY <1>1 DEF RamClock
<1>3. LastRead \in Nat /\ outstanding_count \in Nat
  BY Amounts DEF FifoInv
<1>4. rd_issue => payload_ram[rd_ptr] = LastRead + 1
  <2>1. SUFFICES ASSUME rd_issue PROVE payload_ram[rd_ptr] = LastRead + 1
    OBVIOUS
  <2>2. 0 \in 0..(ram_count - 1) /\ Slot(rd_ptr, 0, DEPTH) = rd_ptr
    BY <2>1 DEF rd_issue, FifoInv, TypeOK, Slot
  <2>3. payload_ram[Slot(rd_ptr, 0, DEPTH)] = LastRead + 1 + 0
    BY <2>2 DEF FifoInv, InOrder, RamInOrder
  <2>4. QED BY <1>3, <2>2, <2>3
<1>5. ASSUME NEW i \in -1..(last - 1)
      PROVE  /\ IsFiniteSet(OlderReads(i + 1)')
             /\ Cardinality(OlderReads(i + 1)') = Cardinality(OlderReads(i)) - Bit(ram_return # 0)
  <2>1. OlderReads(i) \in SUBSET (0..last)
    BY <1>1 DEF OlderReads
  <2>2. last \in OlderReads(i) <=> ram_return # 0
    BY <1>1 DEF OlderReads, ram_return
  <2>3. OlderReads(i + 1)' = {j + 1 : j \in OlderReads(i) \ {last}}
    <3> DEFINE B == {j + 1 : j \in OlderReads(i) \ {last}}
    <3>1. ASSUME NEW k \in OlderReads(i + 1)' PROVE k \in B
      <4>1. k \in Stages /\ k > i + 1 /\ rd_valid_pipe'[k] # 0
        BY DEF OlderReads
      <4>2. /\ k > 0 /\ k - 1 \in Stages /\ k - 1 > i /\ k - 1 # last
            /\ k = (k - 1) + 1
        BY <1>1, <4>1
      <4>3. k - 1 \in OlderReads(i) \ {last}
        BY <1>2, <4>1, <4>2 DEF OlderReads
      <4>4. QED BY <4>2, <4>3
    <3>2. ASSUME NEW j \in OlderReads(i) \ {last} PROVE j + 1 \in OlderReads(i + 1)'
      <4>1. j \in Stages /\ j > i /\ rd_valid_pipe[j] # 0 /\ j # last
        BY DEF OlderReads
      <4>2. j + 1 \in Stages /\ j + 1 > 0 /\ j + 1 > i + 1 /\ (j + 1) - 1 = j
        BY <1>1, <4>1
      <4>3. rd_valid_pipe'[j + 1] # 0
        BY <1>2, <4>1, <4>2
      <4>4. QED BY <4>2, <4>3 DEF OlderReads
    <3>3. QED BY <3>1, <3>2
  <2>4. last \in Nat
    BY <1>1
  <2> HIDE DEF last
  <2>5. /\ IsFiniteSet(OlderReads(i + 1)')
        /\ Cardinality(OlderReads(i + 1)') = Cardinality(OlderReads(i)) - Bit(last \in OlderReads(i))
    BY <2>1, <2>3, <2>4, ShiftCount
  <2>6. QED BY <2>2, <2>5 DEF Bit
<1>6. OlderReads(-1) = {j \in Stages : rd_valid_pipe[j] # 0}
  BY <1>1 DEF OlderReads
<1>7. /\ IsFiniteSet(OlderReads(0)')
      /\ Cardinality(OlderReads(0)') = outstanding_count - Bit(ram_return # 0)
  <2>1. -1 \in -1..(last - 1) /\ -1 + 1 = 0
    BY <1>1
  <2>2. /\ IsFiniteSet(OlderReads(-1 + 1)')
        /\ Cardinality(OlderReads(-1 + 1)') = Cardinality(OlderReads(-1)) - Bit(ram_return # 0)
    BY <1>5, <2>1
  <2>3. QED BY <1>6, <2>1, <2>2 DEF outstanding_count
<1>8. outstanding_count' = outstanding_count - Bit(ram_return # 0) + Bit(rd_issue)
  <2>1. 0 \notin OlderReads(0)'
    BY DEF OlderReads
  <2>2. CASE rd_issue
    <3>1. {j \in Stages : rd_valid_pipe'[j] # 0} = OlderReads(0)' \cup {0}
      BY <1>1, <1>2, <1>3, <1>4, <2>2 DEF OlderReads
    <3>2. Cardinality(OlderReads(0)' \cup {0}) = Cardinality(OlderReads(0)') + 1
      BY <1>7, <2>1, FS_AddElement, Zenon
    <3>3. outstanding_count' = Cardinality(OlderReads(0)') + 1
      BY <3>1, <3>2, Zenon DEF outstanding_count
    <3>4. outstanding_count' = outstanding_count - Bit(ram_return # 0) + 1
      BY <1>7, <3>3, Zenon
    <3>5. Bit(rd_issue) = 1
      BY <2>2, Zenon DEF Bit
    <3>6. QED BY <3>4, <3>5, Zenon
  <2>3. CASE ~rd_issue
    <3>1. {j \in Stages : rd_valid_pipe'[j] # 0} = OlderReads(0)'
      BY <1>1, <1>2, <2>3 DEF OlderReads
    <3>2. outstanding_count' = outstanding_count - Bit(ram_return # 0)
      BY <1>7, <3>1 DEF outstanding_count
    <3>3. QED BY <1>3, <2>3, <3>2 DEF Bit
  <2>4. QED BY <2>2, <2>3
<1>9. \A i \in Stages : i > 0 =>
        Cardinality(OlderReads(i)') = Cardinality(OlderReads(i - 1)) - Bit(ram_return # 0)
  <2>1. SUFFICES ASSUME NEW i \in Stages, i > 0
                 PROVE  Cardinality(OlderReads(i)') = Cardinality(OlderReads(i - 1)) - Bit(ram_return # 0)
    OBVIOUS
  <2>2. i - 1 \in -1..(last - 1) /\ (i - 1) + 1 = i
    BY <1>1
  <2>3. QED BY <1>5, <2>2
<1>10. QED BY <1>2, <1>4, <1>7, <1>8, <1>9
------------------------------------------------------------------------------
LEMMA ClockTypes ==
    ASSUME FifoInv, NEW tvalid \in BOOLEAN, NEW tready \in BOOLEAN,
           InputClock(tvalid), RamClock, OutputClock(tready), clear_q' \in BOOLEAN
    PROVE  TypeOK'
<1> USE FifoAssumption
<1> USE DEF FifoInv, TypeOK
<1>1. wr_ptr' \in 0..(DEPTH - 1) /\ rd_ptr' \in 0..(DEPTH - 1)
  BY DEF RamClock, inc_ptr
<1>2. out_wr_ptr' \in 0..(OUT_DEPTH - 1) /\ out_rd_ptr' \in 0..(OUT_DEPTH - 1)
  <2>1. \A x \in 0..(OUT_DEPTH - 1) : (x + 1) % OUT_DEPTH \in 0..(OUT_DEPTH - 1)
    BY DivMod
  <2>2. QED BY <2>1 DEF OutputClock
<1>3. ram_count' \in Nat
  BY DEF RamClock, rd_issue, Bit
<1>4. out_count' \in Nat
  BY DEF OutputClock, out_pop, Bit
<1>5. payload_ram' \in [0..(DEPTH - 1) -> Nat]
  BY DEF RamClock
<1>6. out_mem' \in [0..(OUT_DEPTH - 1) -> Nat]
  BY DEF OutputClock
<1>7. rd_valid_pipe' \in [Stages -> Nat]
  <2>1. \A i \in Stages : i > 0 => i - 1 \in Stages
    BY DEF Stages
  <2>2. QED BY <2>1 DEF RamClock
<1>8. in_reg' \in Nat /\ accepted' \in Nat
  BY DEF InputClock
<1>9. ram_dout_stage' \in Nat
  <2>1. RAM_READ_LATENCY - 1 \in Stages
    BY DEF Stages
  <2>2. QED BY <2>1 DEF RamClock, ram_return
<1>10. out_reg' \in Nat /\ delivered' \in Nat
  BY DEF OutputClock
<1>11. s_axis_tready_q' \in BOOLEAN
  <2>1. (total_level <= READY_LEVEL) \in BOOLEAN
    OBVIOUS
  <2>2. s_axis_tready_q' = (total_level <= READY_LEVEL)
    BY DEF InputClock
  <2>3. QED BY <2>1, <2>2, Zenon
<1>12. QED BY <1>1, <1>2, <1>3, <1>4, <1>5, <1>6, <1>7, <1>8, <1>9, <1>10, <1>11

\* How one clock moves the boundaries between the places.
LEMMA ClockCounts ==
    ASSUME FifoInv, NEW tready \in BOOLEAN, RamClock, OutputClock(tready)
    PROVE  /\ LastOut' = LastOut + Bit(out_pop(tready))
           /\ LastStored' = LastStaged
           /\ LastStaged' = LastStaged + Bit(ram_return # 0)
           /\ LastRead' = LastRead + Bit(rd_issue)
           /\ LastWritten' = LastWritten + Bit(wr_fire)
<1>1. /\ out_count \in Nat /\ out_reg \in Nat /\ delivered \in Nat
      /\ out_rd_ptr \in 0..(OUT_DEPTH - 1) /\ ram_count \in Nat
  BY DEF FifoInv, TypeOK
<1>2. /\ LastOut \in Nat /\ LastStored \in Nat /\ LastStaged \in Nat /\ LastRead \in Nat
      /\ outstanding_count \in Nat
  BY Amounts DEF FifoInv
<1>3. out_reg # 0 => out_reg = LastOut
  BY DEF FifoInv, InOrder, OutputInOrder
<1>4. out_count # 0 => out_mem[out_rd_ptr] = LastOut + 1
  <2>1. SUFFICES ASSUME out_count # 0 PROVE out_mem[out_rd_ptr] = LastOut + 1
    OBVIOUS
  <2>2. 0 \in 0..(out_count - 1) /\ Slot(out_rd_ptr, 0, OUT_DEPTH) = out_rd_ptr
    BY <1>1, <2>1, FifoAssumption DEF Slot
  <2>3. out_mem[Slot(out_rd_ptr, 0, OUT_DEPTH)] = LastOut + 1 + 0
    BY <2>2 DEF FifoInv, InOrder, OutputInOrder
  <2>4. QED BY <1>2, <2>2, <2>3
<1>5. LastOut' = LastOut + Bit(out_pop(tready))
  BY <1>1, <1>2, <1>3, <1>4 DEF OutputClock, out_pop, LastOut, Bit
<1>6. LastStored' = LastStaged
  <2>1. out_count' = out_count + Bit(ram_dout_stage # 0) - Bit(out_pop(tready))
    BY DEF OutputClock
  <2>2. QED BY <1>1, <1>2, <1>5, <2>1 DEF LastStored, LastStaged, Bit
<1>7. LastStaged' = LastStaged + Bit(ram_return # 0)
  BY <1>2, <1>6 DEF RamClock, LastStaged, Bit
<1>8. LastRead' = LastRead + Bit(rd_issue)
  <2>1. outstanding_count' = outstanding_count - Bit(ram_return # 0) + Bit(rd_issue)
    BY PipeClock
  <2>2. QED BY <1>2, <1>7, <2>1 DEF LastRead, Bit
<1>9. LastWritten' = LastWritten + Bit(wr_fire)
  BY <1>1, <1>2, <1>8 DEF RamClock, LastWritten, Bit
<1>10. QED BY <1>5, <1>6, <1>7, <1>8, <1>9

\* The sum of the six places is the number of beats accepted and not delivered,
\* and the level word holds it.
LevelFacts ==
    /\ total_level = accepted - delivered
    /\ accepted - delivered \in 0..MaxLevel
    /\ ram_count + buffered_count + Bit(in_reg # 0) <= accepted - delivered
    /\ LastOut <= accepted

LEMMA LevelFifo == FifoInv => LevelFacts
<1> SUFFICES ASSUME FifoInv PROVE LevelFacts
  OBVIOUS
<1> USE FifoAssumption
<1> DEFINE sum == ram_count + buffered_count + Bit(out_reg # 0) + Bit(in_reg # 0)
<1>1. /\ out_count \in Nat /\ out_reg \in Nat /\ delivered \in Nat /\ accepted \in Nat
      /\ ram_count \in Nat /\ in_reg \in Nat /\ ram_dout_stage \in Nat
  BY DEF FifoInv, TypeOK
<1>2. outstanding_count \in Nat /\ buffered_count \in Nat
  BY Amounts DEF FifoInv
<1>3. accepted = LastWritten + Bit(in_reg # 0)
  BY DEF FifoInv, InOrder, InputInOrder
<1>4. sum = accepted - delivered
  BY <1>1, <1>2, <1>3 DEF LastWritten, LastRead, LastStaged, LastStored, LastOut,
     buffered_count, Bit
<1>5. READY_LEVEL \in Nat
  BY DEF READY_LEVEL, READY_MARGIN, READY_MARGIN_RAW
<1>6. sum \in 0..MaxLevel /\ MaxLevel < LevelWord
  BY <1>1, <1>2, <1>4, <1>5 DEF FifoInv, LevelBounded, MaxLevel, Bit
<1>7. sum % LevelWord = sum
  <2>1. LevelWord \in Nat \ {0} /\ sum \in 0..LevelWord /\ sum # LevelWord
    BY <1>5, <1>6 DEF MaxLevel
  <2> HIDE DEF sum
  <2>2. QED BY <2>1, ModStep
<1>8. total_level = sum % LevelWord
  BY DEF total_level
<1>9. LastOut <= accepted
  BY <1>1, <1>2, <1>3 DEF LastWritten, LastRead, LastStaged, LastStored, LastOut, Bit
<1>10. ram_count + buffered_count + Bit(in_reg # 0) <= accepted - delivered
  BY <1>1, <1>2, <1>4 DEF Bit
<1>11. QED BY <1>4, <1>6, <1>7, <1>8, <1>9, <1>10 DEF LevelFacts

LEMMA ClockLevel ==
    ASSUME FifoInv, NEW tvalid \in BOOLEAN, NEW tready \in BOOLEAN, ~clear_q,
           InputClock(tvalid), RamClock, OutputClock(tready), TypeOK'
    PROVE  LevelBounded' /\ InputInOrder'
<1> USE FifoAssumption
<1>1. /\ out_count \in Nat /\ out_reg \in Nat /\ delivered \in Nat /\ accepted \in Nat
      /\ ram_count \in Nat /\ in_reg \in Nat /\ ram_dout_stage \in Nat
      /\ READY_LEVEL \in Nat /\ outstanding_count \in Nat /\ LastWritten \in Nat
      /\ s_axis_tready_q \in BOOLEAN
  <2>1. READY_LEVEL \in Nat
    BY DEF READY_LEVEL, READY_MARGIN, READY_MARGIN_RAW
  <2>2. outstanding_count \in Nat /\ LastWritten \in Nat
    BY Amounts DEF FifoInv
  <2>3. QED BY <2>1, <2>2 DEF FifoInv, TypeOK
<1>2. delivered' \in Nat /\ delivered' >= delivered
  <2>1. out_reg # 0 => out_reg = delivered + 1
    BY <1>1 DEF FifoInv, InOrder, OutputInOrder, LastOut, Bit
  <2>2. QED BY <1>1, <2>1 DEF OutputClock
<1>3. /\ accepted - delivered <= READY_LEVEL + 1 + Bit(in_reg # 0)
      /\ s_axis_tready_q => accepted - delivered <= READY_LEVEL + 1
      /\ buffered_count <= OUT_DEPTH
  BY DEF FifoInv, LevelBounded
<1>4. s_axis_tready_q' => accepted - delivered <= READY_LEVEL
  BY LevelFifo DEF LevelFacts, InputClock
<1>5. /\ accepted' - delivered' <= READY_LEVEL + 1 + Bit(in_reg' # 0)
      /\ s_axis_tready_q' => accepted' - delivered' <= READY_LEVEL + 1
  BY <1>1, <1>2, <1>3, <1>4 DEF InputClock, s_axis_tready, wr_fire, ram_accept, Bit
<1>6. buffered_count' <= OUT_DEPTH
  <2>1. outstanding_count' = outstanding_count - Bit(ram_return # 0) + Bit(rd_issue)
    BY PipeClock
  <2>2. out_count' = out_count + Bit(ram_dout_stage # 0) - Bit(out_pop(tready))
    BY DEF OutputClock
  <2>3. buffered_count' = buffered_count + Bit(rd_issue) - Bit(out_pop(tready))
    BY <1>1, <2>1, <2>2 DEF RamClock, buffered_count, Bit
  <2>4. QED BY <1>1, <1>3, <2>3 DEF rd_issue, buffered_count, Bit
<1>7. InputInOrder'
  <2>1. LastWritten' = LastWritten + Bit(wr_fire)
    BY ClockCounts
  <2>2. accepted = LastWritten + Bit(in_reg # 0) /\ (in_reg # 0 => in_reg = accepted)
    BY DEF FifoInv, InOrder, InputInOrder
  <2>3. in_reg' # 0 => in_reg' = accepted'
    BY <1>1, <2>2 DEF InputClock
  <2>4. accepted' = LastWritten' + Bit(in_reg' # 0)
    BY <1>1, <2>1, <2>2 DEF InputClock, s_axis_tready, wr_fire, Bit
  <2>5. QED BY <2>3, <2>4 DEF InputInOrder
<1>8. QED BY <1>5, <1>6, <1>7 DEF LevelBounded

LEMMA ClockPointers ==
    ASSUME FifoInv, NEW tready \in BOOLEAN, RamClock, OutputClock(tready)
    PROVE  PointersAgree'
<1> USE FifoAssumption
<1>1. /\ out_count \in Nat /\ ram_count \in Nat /\ OUT_DEPTH \in Nat \ {0}
      /\ rd_ptr \in 0..(DEPTH - 1) /\ out_rd_ptr \in 0..(OUT_DEPTH - 1)
      /\ outstanding_count \in Nat
  BY Amounts DEF FifoInv, TypeOK
<1>2. /\ wr_ptr = Slot(rd_ptr, ram_count, DEPTH)
      /\ out_wr_ptr = Slot(out_rd_ptr, out_count, OUT_DEPTH)
  BY DEF FifoInv, PointersAgree
<1>3. wr_fire => ram_count < DEPTH
  <2>1. wr_fire => /\ accepted - delivered <= READY_LEVEL + 1 /\ in_reg # 0
    BY DEF FifoInv, LevelBounded, wr_fire, ram_accept
  <2>2. ram_count + buffered_count + Bit(in_reg # 0) <= accepted - delivered
    BY LevelFifo DEF LevelFacts
  <2>3. buffered_count \in Nat /\ accepted \in Nat /\ delivered \in Nat
    BY Amounts DEF FifoInv, TypeOK
  <2>4. READY_LEVEL \in Nat /\ READY_LEVEL < DEPTH
    BY DEF READY_LEVEL, READY_MARGIN, READY_MARGIN_RAW
  <2>5. QED BY <1>1, <2>1, <2>2, <2>3, <2>4 DEF Bit
<1>4. ram_dout_stage # 0 => out_count < OUT_DEPTH
  <2>1. outstanding_count + out_count + Bit(ram_dout_stage # 0) <= OUT_DEPTH
    BY DEF FifoInv, LevelBounded, buffered_count
  <2>2. QED BY <1>1, <2>1 DEF Bit
<1>5. wr_ptr' = Slot(rd_ptr', ram_count', DEPTH)
  <2>1. /\ rd_issue => ram_count > 0
        /\ wr_ptr' = IF wr_fire THEN inc_ptr(wr_ptr) ELSE wr_ptr
        /\ rd_ptr' = IF rd_issue THEN inc_ptr(rd_ptr) ELSE rd_ptr
        /\ ram_count' = ram_count + Bit(wr_fire) - Bit(rd_issue)
    BY <1>1 DEF RamClock, rd_issue
  <2>2. ram_count <= DEPTH
    <3>1. accepted - delivered <= READY_LEVEL + 1 + Bit(in_reg # 0)
      BY DEF FifoInv, LevelBounded
    <3>2. ram_count + buffered_count + Bit(in_reg # 0) <= accepted - delivered
      BY LevelFifo DEF LevelFacts
    <3>3. buffered_count \in Nat /\ accepted \in Nat /\ delivered \in Nat
      BY Amounts DEF FifoInv, TypeOK
    <3>4. READY_LEVEL \in Nat /\ READY_LEVEL < DEPTH
      BY DEF READY_LEVEL, READY_MARGIN, READY_MARGIN_RAW
    <3>5. QED BY <1>1, <3>1, <3>2, <3>3, <3>4 DEF Bit
  <2>3. QED BY <1>1, <1>2, <1>3, <2>1, <2>2 DEF Slot, inc_ptr, Bit
<1>6. out_wr_ptr' = Slot(out_rd_ptr', out_count', OUT_DEPTH)
  <2>1. /\ out_count <= OUT_DEPTH
        /\ out_wr_ptr \in 0..(OUT_DEPTH - 1)
    <3>1. outstanding_count + out_count + Bit(ram_dout_stage # 0) <= OUT_DEPTH
      BY DEF FifoInv, LevelBounded, buffered_count
    <3>2. QED BY <1>1, <3>1 DEF Bit, FifoInv, TypeOK
  <2>2. /\ (out_wr_ptr + 1) % OUT_DEPTH = Slot(out_wr_ptr, 1, OUT_DEPTH)
        /\ (out_rd_ptr + 1) % OUT_DEPTH = Slot(out_rd_ptr, 1, OUT_DEPTH)
    BY <1>1, <2>1, NextSlot
  <2>3. /\ out_wr_ptr' = IF ram_dout_stage # 0 THEN Slot(out_wr_ptr, 1, OUT_DEPTH) ELSE out_wr_ptr
        /\ out_rd_ptr' = IF out_pop(tready) THEN Slot(out_rd_ptr, 1, OUT_DEPTH) ELSE out_rd_ptr
        /\ out_count' = out_count + Bit(ram_dout_stage # 0) - Bit(out_pop(tready))
        /\ out_pop(tready) => out_count > 0
    BY <1>1, <2>2 DEF OutputClock, out_pop
  <2>4. QED BY <1>1, <1>2, <1>4, <2>1, <2>3 DEF Slot, Bit
<1>7. QED BY <1>5, <1>6 DEF PointersAgree

LEMMA ClockPipe ==
    ASSUME FifoInv, NEW tready \in BOOLEAN, RamClock, OutputClock(tready)
    PROVE  StageInOrder' /\ PipeInOrder'
<1> USE FifoAssumption
<1>1. /\ \A i \in Int : Cardinality(OlderReads(i)) \in Nat
      /\ outstanding_count \in Nat /\ LastStaged \in Nat /\ LastRead = LastStaged + outstanding_count
  BY Amounts DEF FifoInv, LastRead
<1>2. \A i \in Stages : rd_valid_pipe[i] # 0 =>
         rd_valid_pipe[i] = LastStaged + 1 + Cardinality(OlderReads(i))
  BY DEF FifoInv, InOrder, PipeInOrder
<1>3. LastStaged' = LastStaged + Bit(ram_return # 0)
  BY ClockCounts
<1>4. StageInOrder'
  <2>1. RAM_READ_LATENCY - 1 \in Stages /\ OlderReads(RAM_READ_LATENCY - 1) = {}
    BY DEF Stages, OlderReads
  <2>2. Cardinality(OlderReads(RAM_READ_LATENCY - 1)) = 0
    BY <2>1, FS_EmptySet
  <2>3. ram_return # 0 => ram_return = LastStaged + 1
    BY <1>1, <1>2, <2>1, <2>2 DEF ram_return
  <2>4. QED BY <1>1, <1>3, <2>3 DEF RamClock, StageInOrder, Bit
<1>5. ASSUME NEW i \in Stages, rd_valid_pipe'[i] # 0
      PROVE  rd_valid_pipe'[i] = LastStaged' + 1 + Cardinality(OlderReads(i)')
  <2>1. CASE i = 0
    <3>1. rd_valid_pipe'[0] = LastRead + 1
      BY <1>5, <2>1, PipeClock
    <3>2. Cardinality(OlderReads(0)') = outstanding_count - Bit(ram_return # 0)
      BY PipeClock
    <3>3. QED BY <1>1, <1>3, <2>1, <3>1, <3>2 DEF Bit
  <2>2. CASE i > 0
    <3>1. i \in Int /\ i - 1 \in Int /\ i - 1 \in Stages
      BY <2>2 DEF Stages
    <3>2. /\ rd_valid_pipe'[i] = rd_valid_pipe[i - 1]
          /\ Cardinality(OlderReads(i)') = Cardinality(OlderReads(i - 1)) - Bit(ram_return # 0)
      BY <2>2, PipeClock
    <3>3. rd_valid_pipe[i - 1] = LastStaged + 1 + Cardinality(OlderReads(i - 1))
      BY <1>2, <1>5, <3>1, <3>2
    <3>4. Cardinality(OlderReads(i - 1)) \in Nat
      BY <1>1, <3>1
    <3>5. QED BY <1>1, <1>3, <3>2, <3>3, <3>4 DEF Bit
  <2>3. QED BY <2>1, <2>2 DEF Stages
<1>6. QED BY <1>4, <1>5 DEF PipeInOrder

LEMMA ClockOutput ==
    ASSUME FifoInv, NEW tready \in BOOLEAN, RamClock, OutputClock(tready), TypeOK'
    PROVE  OutputInOrder'
<1> USE FifoAssumption
<1>1. /\ out_count \in Nat /\ out_reg \in Nat /\ OUT_DEPTH \in Nat \ {0}
      /\ out_rd_ptr \in 0..(OUT_DEPTH - 1) /\ out_wr_ptr \in 0..(OUT_DEPTH - 1)
      /\ out_mem \in [0..(OUT_DEPTH - 1) -> Nat]
      /\ outstanding_count \in Nat /\ LastOut \in Nat
  <2>1. outstanding_count \in Nat /\ LastOut \in Nat
    BY Amounts DEF FifoInv
  <2>2. OUT_DEPTH \in Nat \ {0}
    OBVIOUS
  <2>3. /\ out_count \in Nat /\ out_reg \in Nat
        /\ out_rd_ptr \in 0..(OUT_DEPTH - 1) /\ out_wr_ptr \in 0..(OUT_DEPTH - 1)
        /\ out_mem \in [0..(OUT_DEPTH - 1) -> Nat]
    BY DEF FifoInv, TypeOK
  <2>4. QED BY <2>1, <2>2, <2>3
<1>2. /\ out_reg # 0 => out_reg = LastOut
      /\ \A i \in 0..(out_count - 1) :
            out_mem[Slot(out_rd_ptr, i, OUT_DEPTH)] = LastOut + 1 + i
  BY DEF FifoInv, InOrder, OutputInOrder
<1>3. LastOut' = LastOut + Bit(out_pop(tready))
  BY ClockCounts
<1>4. out_wr_ptr = Slot(out_rd_ptr, out_count, OUT_DEPTH)
  BY DEF FifoInv, PointersAgree
<1>5. out_count <= OUT_DEPTH /\ (ram_dout_stage # 0 => out_count < OUT_DEPTH)
  <2>1. outstanding_count + out_count + Bit(ram_dout_stage # 0) <= OUT_DEPTH
    BY DEF FifoInv, LevelBounded, buffered_count
  <2>2. QED BY <1>1, <2>1 DEF Bit
<1>6. ram_dout_stage # 0 => ram_dout_stage = LastOut + out_count + 1
  BY <1>1 DEF FifoInv, InOrder, StageInOrder, LastStaged, LastStored, Bit
<1>7. /\ out_pop(tready) => out_count > 0
      /\ out_count' = out_count + Bit(ram_dout_stage # 0) - Bit(out_pop(tready))
      /\ out_rd_ptr' = IF out_pop(tready) THEN Slot(out_rd_ptr, 1, OUT_DEPTH) ELSE out_rd_ptr
      /\ out_mem' = IF ram_dout_stage # 0
                    THEN [out_mem EXCEPT ![out_wr_ptr] = ram_dout_stage] ELSE out_mem
  <2>1. out_pop(tready) => out_count > 0
    BY <1>1 DEF out_pop
  <2>2. out_count' = out_count + Bit(ram_dout_stage # 0) - Bit(out_pop(tready))
    BY Zenon DEF OutputClock
  <2>3. /\ out_mem' = IF ram_dout_stage # 0
                     THEN [out_mem EXCEPT ![out_wr_ptr] = ram_dout_stage] ELSE out_mem
        /\ out_rd_ptr' = IF out_pop(tready) THEN (out_rd_ptr + 1) % OUT_DEPTH ELSE out_rd_ptr
    BY Zenon DEF OutputClock
  <2>4. (out_rd_ptr + 1) % OUT_DEPTH = Slot(out_rd_ptr, 1, OUT_DEPTH)
    BY <1>1, NextSlot
  <2>5. QED BY <2>1, <2>2, <2>3, <2>4, Zenon
<1>8. out_reg' # 0 => out_reg' = LastOut'
  <2>1. out_pop(tready) => out_mem[out_rd_ptr] = LastOut + 1
    BY <1>1, <1>2, <1>7, SlotFacts
  <2>2. QED BY <1>1, <1>2, <1>3, <2>1 DEF OutputClock, out_pop, Bit
<1> DEFINE stored == out_count + Bit(ram_dout_stage # 0)
<1>s. /\ stored \in 0..OUT_DEPTH
      /\ stored = IF ram_dout_stage # 0 THEN out_count + 1 ELSE out_count
      /\ out_count' = IF out_pop(tready) THEN stored - 1 ELSE stored
  BY <1>1, <1>5, <1>7 DEF Bit
<1> HIDE DEF stored
<1>9. \A k \in 0..(stored - 1) :
         out_mem'[Slot(out_rd_ptr, k, OUT_DEPTH)] = LastOut + 1 + k
  <2>1. SUFFICES ASSUME NEW k \in 0..(stored - 1)
                 PROVE  out_mem'[Slot(out_rd_ptr, k, OUT_DEPTH)] = LastOut + 1 + k
    OBVIOUS
  <2>1a. k \in 0..(OUT_DEPTH - 1) /\ k \in 0..OUT_DEPTH
    BY <1>1, <1>s
  <2>2. k \in 0..(OUT_DEPTH - 1) /\ Slot(out_rd_ptr, k, OUT_DEPTH) \in 0..(OUT_DEPTH - 1)
    BY <1>1, <2>1a, SlotFacts
  <2>3. CASE k = out_count
    <3>1. ram_dout_stage # 0
      BY <1>1, <1>s, <2>3
    <3>2. QED BY <1>1, <1>4, <1>6, <1>7, <2>2, <2>3, <3>1
  <2>4. CASE k # out_count
    <3>1. k \in 0..(out_count - 1)
      BY <1>1, <1>s, <2>4
    <3>2. ram_dout_stage # 0 => Slot(out_rd_ptr, k, OUT_DEPTH) # out_wr_ptr
      BY <1>1, <1>4, <1>5, <2>2, <2>4, SlotFacts
    <3>3. QED BY <1>1, <1>2, <1>7, <2>2, <3>1, <3>2
  <2>5. QED BY <2>3, <2>4
<1>10. ASSUME NEW i \in 0..(out_count' - 1)
       PROVE  out_mem'[Slot(out_rd_ptr', i, OUT_DEPTH)] = LastOut' + 1 + i
  <2>1. CASE ~out_pop(tready)
    <3>1. i \in 0..(stored - 1)
      BY <1>s, <2>1
    <3>2. LastOut' = LastOut /\ out_rd_ptr' = out_rd_ptr
      BY <1>1, <1>3, <1>7, <2>1 DEF Bit
    <3>3. QED BY <1>9, <3>1, <3>2
  <2>2. CASE out_pop(tready)
    <3>1. i + 1 \in 0..(stored - 1) /\ i \in 0..(OUT_DEPTH - 1)
      BY <1>1, <1>s, <2>2
    <3>2. LastOut' = LastOut + 1 /\ out_rd_ptr' = Slot(out_rd_ptr, 1, OUT_DEPTH)
      BY <1>1, <1>3, <1>7, <2>2 DEF Bit
    <3>3. Slot(out_rd_ptr', i, OUT_DEPTH) = Slot(out_rd_ptr, i + 1, OUT_DEPTH)
      BY <1>1, <3>1, <3>2, SlotFacts
    <3>4. out_mem'[Slot(out_rd_ptr, i + 1, OUT_DEPTH)] = LastOut + 1 + (i + 1)
      BY <1>9, <3>1
    <3>5. QED BY <1>1, <3>1, <3>2, <3>3, <3>4
  <2>3. QED BY <2>1, <2>2
<1>11. QED BY <1>8, <1>10 DEF OutputInOrder

LEMMA ClockRam ==
    ASSUME FifoInv, NEW tready \in BOOLEAN, RamClock, OutputClock(tready), TypeOK'
    PROVE  RamInOrder'
<1> USE FifoAssumption
<1>1. /\ ram_count \in Nat /\ DEPTH \in Nat \ {0} /\ in_reg \in Nat
      /\ rd_ptr \in 0..(DEPTH - 1) /\ wr_ptr \in 0..(DEPTH - 1)
      /\ payload_ram \in [0..(DEPTH - 1) -> Nat]
      /\ LastRead \in Nat
  <2>1. LastRead \in Nat
    BY Amounts DEF FifoInv
  <2>2. DEPTH \in Nat \ {0}
    OBVIOUS
  <2>3. QED BY <2>1, <2>2 DEF FifoInv, TypeOK
<1>2. \A i \in 0..(ram_count - 1) : payload_ram[Slot(rd_ptr, i, DEPTH)] = LastRead + 1 + i
  BY DEF FifoInv, InOrder, RamInOrder
<1>3. LastRead' = LastRead + Bit(rd_issue)
  BY ClockCounts
<1>4. wr_ptr = Slot(rd_ptr, ram_count, DEPTH)
  BY DEF FifoInv, PointersAgree
<1>5. ram_count <= DEPTH /\ (wr_fire => ram_count < DEPTH)
  <2>1. /\ accepted - delivered <= READY_LEVEL + 1 + Bit(in_reg # 0)
        /\ wr_fire => accepted - delivered <= READY_LEVEL + 1 /\ in_reg # 0
    BY DEF FifoInv, LevelBounded, wr_fire, ram_accept
  <2>2. ram_count + buffered_count + Bit(in_reg # 0) <= accepted - delivered
    BY LevelFifo DEF LevelFacts
  <2>3. buffered_count \in Nat /\ accepted \in Nat /\ delivered \in Nat
    BY Amounts DEF FifoInv, TypeOK
  <2>4. READY_LEVEL \in Nat /\ READY_LEVEL < DEPTH
    BY DEF READY_LEVEL, READY_MARGIN, READY_MARGIN_RAW
  <2>5. QED BY <1>1, <2>1, <2>2, <2>3, <2>4 DEF Bit
<1>6. wr_fire => in_reg = LastRead + ram_count + 1
  BY <1>1 DEF FifoInv, InOrder, InputInOrder, LastWritten, wr_fire, Bit
<1>7. \A p \in 0..(DEPTH - 1) : inc_ptr(p) = Slot(p, 1, DEPTH)
  BY DEF inc_ptr, Slot
<1>8. /\ rd_issue => ram_count > 0
      /\ rd_ptr' = IF rd_issue THEN Slot(rd_ptr, 1, DEPTH) ELSE rd_ptr
      /\ payload_ram' = IF wr_fire THEN [payload_ram EXCEPT ![wr_ptr] = in_reg] ELSE payload_ram
      /\ ram_count' = ram_count + Bit(wr_fire) - Bit(rd_issue)
  BY <1>1, <1>7 DEF RamClock, rd_issue
<1> DEFINE stored == ram_count + Bit(wr_fire)
<1>9. /\ stored \in 0..DEPTH
      /\ stored = IF wr_fire THEN ram_count + 1 ELSE ram_count
      /\ ram_count' = IF rd_issue THEN stored - 1 ELSE stored
  BY <1>1, <1>5, <1>8 DEF Bit
<1> HIDE DEF stored
<1>10. \A k \in 0..(stored - 1) :
         payload_ram'[Slot(rd_ptr, k, DEPTH)] = LastRead + 1 + k
  <2>1. SUFFICES ASSUME NEW k \in 0..(stored - 1)
                 PROVE  payload_ram'[Slot(rd_ptr, k, DEPTH)] = LastRead + 1 + k
    OBVIOUS
  <2>2. k \in 0..(DEPTH - 1) /\ k \in 0..DEPTH
    BY <1>1, <1>9
  <2>3. Slot(rd_ptr, k, DEPTH) \in 0..(DEPTH - 1)
    BY <1>1, <2>2, SlotFacts
  <2>4. CASE k = ram_count
    <3>1. wr_fire
      BY <1>1, <1>9, <2>4
    <3>2. QED BY <1>1, <1>4, <1>6, <1>8, <2>2, <2>3, <2>4, <3>1
  <2>5. CASE k # ram_count
    <3>1. k \in 0..(ram_count - 1)
      BY <1>1, <1>9, <2>5
    <3>2. wr_fire => Slot(rd_ptr, k, DEPTH) # wr_ptr
      BY <1>1, <1>4, <1>5, <2>2, <2>5, SlotFacts
    <3>3. QED BY <1>1, <1>2, <1>8, <2>3, <3>1, <3>2
  <2>6. QED BY <2>4, <2>5
<1>11. ASSUME NEW i \in 0..(ram_count' - 1)
       PROVE  payload_ram'[Slot(rd_ptr', i, DEPTH)] = LastRead' + 1 + i
  <2>1. CASE ~rd_issue
    <3>1. i \in 0..(stored - 1)
      BY <1>9, <2>1
    <3>2. LastRead' = LastRead /\ rd_ptr' = rd_ptr
      BY <1>1, <1>3, <1>8, <2>1 DEF Bit
    <3>3. QED BY <1>10, <3>1, <3>2
  <2>2. CASE rd_issue
    <3>1. i + 1 \in 0..(stored - 1) /\ i \in 0..(DEPTH - 1)
      BY <1>1, <1>9, <2>2
    <3>2. LastRead' = LastRead + 1 /\ rd_ptr' = Slot(rd_ptr, 1, DEPTH)
      BY <1>1, <1>3, <1>8, <2>2 DEF Bit
    <3>3. Slot(rd_ptr', i, DEPTH) = Slot(rd_ptr, i + 1, DEPTH)
      BY <1>1, <3>1, <3>2, SlotFacts
    <3>4. payload_ram'[Slot(rd_ptr, i + 1, DEPTH)] = LastRead + 1 + (i + 1)
      BY <1>10, <3>1
    <3>5. QED BY <1>1, <3>1, <3>2, <3>3, <3>4
  <2>3. QED BY <2>1, <2>2
<1>12. QED BY <1>11 DEF RamInOrder
------------------------------------------------------------------------------
LEMMA NextFifo == FifoInv /\ [Next]_vars => FifoInv'
<1> SUFFICES ASSUME FifoInv, [Next]_vars PROVE FifoInv'
  OBVIOUS
<1>1. CASE Next
  <2>1. PICK tvalid \in BOOLEAN, tready \in BOOLEAN, clear \in BOOLEAN :
            Clock(tvalid, tready, clear)
    BY <1>1 DEF Next
  <2>2. clear_q' \in BOOLEAN
    BY <2>1 DEF Clock
  <2>3. CASE clear_q
    BY <2>1, <2>2, <2>3, FlushFifo DEF Clock
  <2>4. CASE ~clear_q
    <3>1. InputClock(tvalid) /\ RamClock /\ OutputClock(tready)
      BY <2>1, <2>4 DEF Clock
    <3>2. TypeOK'
      BY <2>2, <3>1, ClockTypes
    <3>3. LevelBounded' /\ InputInOrder'
      BY <2>4, <3>1, <3>2, ClockLevel
    <3>4. PointersAgree'
      BY <3>1, ClockPointers
    <3>5. StageInOrder' /\ PipeInOrder'
      BY <3>1, ClockPipe
    <3>6. OutputInOrder'
      BY <3>1, <3>2, ClockOutput
    <3>7. RamInOrder'
      BY <3>1, <3>2, ClockRam
    <3>8. QED BY <3>2, <3>3, <3>4, <3>5, <3>6, <3>7 DEF FifoInv, InOrder
  <2>5. QED BY <2>3, <2>4
<1>2. CASE UNCHANGED vars
  BY <1>2 DEF vars, ram, output, input, FifoInv, TypeOK, InOrder, OutputInOrder, StageInOrder,
     PipeInOrder, RamInOrder, InputInOrder, PointersAgree, LevelBounded, LastOut, LastStored,
     LastStaged, LastRead, LastWritten, OlderReads, outstanding_count, buffered_count, Slot
<1>3. QED BY <1>1, <1>2

\* Types and the place of every beat, at every depth and latency: what the
\* registered handshakes of axis_sync_fifo rely on.
THEOREM FifoSafe == Spec => []FifoInv
<1>1. QED BY InitFifo, NextFifo, PTL DEF Spec

\* The level register is exact (total_level).
THEOREM LevelAlwaysExact == Spec => []LevelExact
<1>1. FifoInv => LevelExact
  BY LevelFifo DEF LevelFacts, LevelExact
<1>2. QED BY <1>1, FifoSafe, PTL

\* Neither memory ever holds more than fits (READY_MARGIN, rd_issue).
THEOREM NeverOverflows == Spec => []NoOverflow
<1>1. FifoInv => NoOverflow
  <2>1. SUFFICES ASSUME FifoInv PROVE NoOverflow
    OBVIOUS
  <2>2. buffered_count <= OUT_DEPTH /\ accepted - delivered <= READY_LEVEL + 1 + Bit(in_reg # 0)
    BY <2>1 DEF FifoInv, LevelBounded
  <2>3. ram_count + buffered_count + Bit(in_reg # 0) <= accepted - delivered
    BY <2>1, LevelFifo DEF LevelFacts
  <2>4. buffered_count \in Nat /\ accepted \in Nat /\ delivered \in Nat /\ ram_count \in Nat
    BY <2>1, Amounts DEF FifoInv, TypeOK
  <2>5. READY_LEVEL \in Nat /\ READY_LEVEL < DEPTH /\ DEPTH \in Nat
    BY FifoAssumption DEF READY_LEVEL, READY_MARGIN, READY_MARGIN_RAW
  <2>6. QED BY <2>2, <2>3, <2>4, <2>5 DEF NoOverflow, Bit
<1>2. QED BY <1>1, FifoSafe, PTL

\* One clock of the FIFO is a step of the abstract channel.
LEMMA ClockOfChannel ==
    ASSUME FifoInv, [Next]_vars, FifoInv', LevelFacts'
    PROVE  [Channel!Transfer \/ Channel!Drop]_(Channel!channelVars)
<1>1. CASE UNCHANGED vars
  BY <1>1 DEF vars, output, Channel!channelVars
<1>2. CASE Next
  <2>1. PICK tvalid \in BOOLEAN, tready \in BOOLEAN, clear \in BOOLEAN :
            Clock(tvalid, tready, clear)
    BY <1>2 DEF Next
  <2>2. CASE clear_q
    <3>1. accepted \in Nat /\ accepted' = accepted /\ delivered' = accepted /\ out_reg' = 0
      BY <2>1, <2>2 DEF Clock, Flushed, FifoInv, TypeOK
    <3>2. accepted' \in accepted..(accepted + 1)
      BY <3>1
    <3>3. QED BY <3>1, <3>2 DEF Channel!Drop
  <2>3. CASE ~clear_q
    <3>1. InputClock(tvalid) /\ OutputClock(tready)
      BY <2>1, <2>3 DEF Clock
    <3>2. /\ accepted \in Nat /\ delivered \in Nat /\ out_reg \in Nat
          /\ accepted' \in Nat /\ delivered' \in Nat /\ out_reg' \in Nat
      BY DEF FifoInv, TypeOK
    <3>3. out_reg' # 0 => out_reg' = delivered' + 1
      BY <3>2 DEF FifoInv, InOrder, OutputInOrder, LastOut, Bit
    <3>4. out_reg' <= accepted'
      <4>1. out_reg' # 0 => out_reg' = LastOut'
        BY DEF FifoInv, InOrder, OutputInOrder
      <4>2. LastOut' <= accepted'
        BY DEF LevelFacts
      <4>3. QED BY <3>2, <4>1, <4>2
    <3>5. accepted' - delivered' <= MaxLevel
      BY FifoAssumption DEF LevelFacts, MaxLevel, READY_LEVEL, READY_MARGIN, READY_MARGIN_RAW
    <3>6. accepted' \in accepted..(accepted + 1)
      BY <3>1, <3>2 DEF InputClock
    <3>7. \/ delivered' = delivered /\ (out_reg # 0 => out_reg' = out_reg)
          \/ out_reg # 0 /\ delivered' = out_reg
      BY <3>1 DEF OutputClock, out_pop
    <3>8. QED BY <3>3, <3>4, <3>5, <3>6, <3>7 DEF Channel!Transfer
  <2>4. QED BY <2>2, <2>3
<1>3. QED BY <1>1, <1>2

\* The FIFO implements the abstract channel: order, nothing lost or doubled, a
\* stable offer, at most MaxLevel beats inside, nothing left after a clear.
THEOREM MeetsChannel == Spec => ImplementsChannel
<1>1. Init => Channel!ChannelInit
  BY DEF Init, Channel!ChannelInit
<1>2. FifoInv /\ [Next]_vars /\ FifoInv' /\ LevelFacts'
        => [Channel!Transfer \/ Channel!Drop]_(Channel!channelVars)
  BY ClockOfChannel
<1>3. FifoInv => LevelFacts
  BY LevelFifo
<1>4. QED BY <1>1, <1>2, <1>3, FifoSafe, PTL DEF Spec, ImplementsChannel, Channel!ChannelSpec
==============================================================================
