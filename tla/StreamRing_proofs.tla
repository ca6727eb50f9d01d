------------------------- MODULE StreamRing_proofs --------------------------
(***************************************************************************)
(* The ring of STREAM mode is never overwritten and never read early, for  *)
(* every ring size, chunking, number of writer threads and register word   *)
(* that holds at least one ring capacity.                                  *)
(***************************************************************************)
EXTENDS StreamRing, ModLemmas, SequenceTheorems

\* What the constants are, without the power-of-two condition.
LEMMA ConstantTypes ==
    /\ Capacity \in Nat \ {0} /\ Ring \in Nat \ {0} /\ PingPong \in BOOLEAN
    /\ PktBeats \in Nat \ {0} /\ Word \in Nat \ {0}
    /\ Guard \in Nat \ {0} /\ Guard < Capacity
    /\ Prefill \in Nat /\ Chunks \in Seq(Nat \ {0})
  BY RingAssumption, StreamAssumption DEF Capacity

\* Zero is a register word, and the sequence of chunks has a length.
LEMMA ZeroWord == 0 \in 0..(Word - 1) /\ Len(Chunks) \in Nat
  BY ConstantTypes

\* A loader position always names an address of the ring.
LEMMA AddressInRing ==
    ASSUME NEW n \in Nat
    PROVE  Address(n) \in Addresses
<1>1. n % Capacity \in 0..(Capacity - 1)
  BY DivMod, ConstantTypes
<1>2. CASE PingPong
  BY <1>1, <1>2, ConstantTypes DEF Address, Addresses, Banks, Capacity
<1>3. CASE ~PingPong
  BY <1>1, <1>3, ConstantTypes DEF Address, Addresses, Banks, Capacity
<1>4. QED BY <1>2, <1>3

\* Positions of one window never share an address, over both banks.
LEMMA AddressDistinct ==
    ASSUME NEW i \in Nat, NEW j \in Nat, i # j,
           i < j + Capacity, j < i + Capacity
    PROVE  Address(i) # Address(j)
<1>1. i % Capacity # j % Capacity
  <2>1. CASE i < j
    BY <2>1, WindowDistinct, ConstantTypes
  <2>2. CASE j < i
    BY <2>2, WindowDistinct, ConstantTypes
  <2>3. QED BY <2>1, <2>2
<1> DEFINE p == i % Capacity
           q == j % Capacity
<1>2. p \in Int /\ q \in Int /\ p # q
  BY <1>1, DivMod, ConstantTypes
<1>3. /\ Address(i) = IF p >= Ring THEN <<1, p - Ring>> ELSE <<0, p>>
      /\ Address(j) = IF q >= Ring THEN <<1, q - Ring>> ELSE <<0, q>>
  BY DEF Address
<1> HIDE DEF p, q
<1>4. QED BY <1>2, <1>3, ConstantTypes

-----------------------------------------------------------------------------
LEMMA LoopPositionInit == Init => TypeOK /\ LoopPosition
<1>1. SUFFICES ASSUME Init PROVE TypeOK /\ LoopPosition
  OBVIOUS
<1>2. TypeOK
  <2>1. mem \in [Addresses -> Nat \cup {NoBeat}]
    BY <1>1 DEF Init
  <2>2. got \in Seq(Nat \cup {NoBeat}) /\ write_jobs \in Seq(Job)
    BY <1>1, EmptySeq DEF Init
  <2>3. next \in 1..(Len(Chunks) + 1)
    <3>1. next = 1
      BY <1>1 DEF Init
    <3>2. QED BY <3>1, ZeroWord
  <2>4. QED BY <1>1, <2>1, <2>2, <2>3, ZeroWord
            DEF Init, TypeOK, ConsumerInit, ConsumerTypeOK, Outcomes
<1>3. LoopPosition
  BY <1>1 DEF Init, LoopPosition, ConsumerInit, Live
<1>4. QED BY <1>2, <1>3

\* A waiting chunk has a positive number of beats.
LEMMA ChunkPositive ==
    ASSUME TypeOK, next <= Len(Chunks)
    PROVE  Chunks[next] \in Nat \ {0} /\ ChunkBeats \in Nat \ {0}
<1>1. Chunks[next] \in Nat \ {0}
  BY ConstantTypes DEF TypeOK
<1>2. QED BY <1>1, ConstantTypes DEF ChunkBeats

\* What JobWrites and JobFails do to one job.
LEMMA JobUpdates ==
    ASSUME NEW job \in Job
    PROVE  /\ [job EXCEPT !.done = @ + 1] \in Job
           /\ [job EXCEPT !.failed = TRUE] \in Job
<1>1. [job EXCEPT !.done = @ + 1] \in Job
  BY DEF Job
<1>2. [job EXCEPT !.failed = TRUE] \in Job
  BY DEF Job
<1>3. QED BY <1>1, <1>2

\* Replacing one element of a sequence leaves a sequence.
LEMMA SeqUpdate ==
    ASSUME NEW S, NEW s \in Seq(S), NEW i \in DOMAIN s, NEW e \in S
    PROVE  [s EXCEPT ![i] = e] \in Seq(S)
<1>1. s \in [1..Len(s) -> S] /\ Len(s) \in Nat /\ DOMAIN s = 1..Len(s)
  OBVIOUS
<1>2. [s EXCEPT ![i] = e] \in [1..Len(s) -> S]
  BY <1>1, Zenon
<1>3. QED BY <1>1, <1>2

\* The fields of a job.
LEMMA JobFields ==
    ASSUME NEW job \in Job
    PROVE  /\ job.begin \in Nat /\ job.beats \in Nat \ {0} /\ job.packets \in Nat
           /\ job.done \in Nat
  BY DEF Job

\* Resume is a place in the loop.
LEMMA ResumePlaces ==
    ASSUME TypeOK
    PROVE  /\ phase = "feed" => Resume = "ready"
           /\ phase = "drain" => Resume = "drain"
           /\ phase = "last" => Resume = "wait"
           /\ phase \in {"feed", "drain", "last"}
  BY DEF TypeOK, Resume

LEMMA TypeStep == TypeOK /\ LoopPosition /\ [Next]_vars => TypeOK'
<1> SUFFICES ASSUME TypeOK, LoopPosition, [Next]_vars PROVE TypeOK'
  OBVIOUS
<1> USE ConstantTypes DEF vars, consumerVars, board, ddr, replay, hostVars,
        source, committed, polled
<1>1. CASE PopChunk \/ SourceFails
  <2>1. pc' \in {"drain", "ready", "stop"} /\ phase' \in {"feed", "drain", "last"}
    BY <1>1 DEF PopChunk, SourceFails, Fail, TypeOK
  <2>2. outcome' \in Outcomes
    BY <1>1 DEF PopChunk, SourceFails, Fail, TypeOK, Outcomes
  <2>3. UNCHANGED <<consumerVars, board, source, committed, started, write_jobs, polled>>
    BY <1>1 DEF PopChunk, SourceFails
  <2>4. ConsumerTypeOK'
    BY <2>3 DEF TypeOK, ConsumerTypeOK
  <2>5. QED BY <2>1, <2>2, <2>3, <2>4 DEF TypeOK
<1>2. CASE TakeFront
  <2>1. write_jobs \in Seq(Job) /\ write_jobs # <<>>
    BY <1>2 DEF TakeFront, TypeOK
  <2>2. Head(write_jobs) \in Job /\ Tail(write_jobs) \in Seq(Job)
    BY <2>1, HeadTailProperties
  <2>3. /\ Head(write_jobs).begin + Head(write_jobs).beats \in Nat
        /\ packet_count + Head(write_jobs).packets \in Nat
    <3>1. /\ Head(write_jobs).begin \in Nat /\ Head(write_jobs).beats \in Nat
          /\ Head(write_jobs).packets \in Nat
      BY <2>2, JobFields
    <3>2. packet_count \in Nat
      BY Zenon DEF TypeOK
    <3>3. QED BY <3>1, <3>2
  <2>4. /\ write_count' \in Nat /\ packet_count' \in Nat /\ write_jobs' \in Seq(Job)
        /\ pc' \in {"wrlo", "stop"} /\ outcome' \in Outcomes
    <3>1. CASE Head(write_jobs).failed
      <4>1. pc' = "stop" /\ outcome' = "H2C write failed"
            /\ UNCHANGED <<write_count, packet_count, write_jobs>>
        BY <1>2, <3>1 DEF TakeFront, Fail
      <4>2. QED BY <4>1 DEF TypeOK, Outcomes
    <3>2. CASE ~Head(write_jobs).failed
      <4>1. /\ write_count' = Head(write_jobs).begin + Head(write_jobs).beats
            /\ packet_count' = packet_count + Head(write_jobs).packets
            /\ write_jobs' = Tail(write_jobs)
            /\ pc' = "wrlo" /\ outcome' = outcome
        BY <1>2, <3>2 DEF TakeFront, JobEnd
      <4>2. QED BY <2>2, <2>3, <4>1 DEF TypeOK
    <3>3. QED BY <3>1, <3>2
  <2>5. QED BY <1>2, <2>4 DEF TakeFront, TypeOK, ConsumerTypeOK
<1>3. CASE WriteLo
  <2>1. write_count % Word \in 0..(Word - 1)
    BY DivMod DEF TypeOK
  <2>2. QED BY <1>3, <2>1 DEF WriteLo, TypeOK, ConsumerTypeOK
<1>4. CASE WriteHi
  <2>1. (write_count \div Word) * Word + write_shadow \in Nat
    <3>1. write_count \div Word \in Nat
      BY DivMod DEF TypeOK
    <3>2. write_shadow \in Nat /\ rd_lo \in Nat /\ Word \in Nat
      BY DEF TypeOK
    <3>3. QED BY <3>1, <3>2, WordsJoin
  <2>2. QED BY <1>4, <2>1, ResumePlaces DEF WriteHi, TypeOK, ConsumerTypeOK
<1>5. CASE StartReplay
  BY <1>5, ResumePlaces DEF StartReplay, StartReader, TypeOK, ConsumerTypeOK
<1>6. CASE EnterPoll
  <2>1. pc' \in {"rdlo", "stop"} /\ outcome' \in Outcomes
    BY <1>6 DEF EnterPoll, Fail, TypeOK, Outcomes
  <2>2. QED BY <1>6, <2>1 DEF EnterPoll, TypeOK, ConsumerTypeOK
<1>7. CASE ReadLo
  <2>1. read_count % Word \in 0..(Word - 1)
    BY DivMod DEF TypeOK, ConsumerTypeOK
  <2>2. QED BY <1>7, <2>1 DEF ReadLo, TypeOK, ConsumerTypeOK
<1>8. CASE ReadHi
  <2>1. (read_count \div Word) * Word + rd_lo \in Nat
    <3>1. read_count \div Word \in Nat
      BY DivMod DEF TypeOK, ConsumerTypeOK
    <3>2. write_shadow \in Nat /\ rd_lo \in Nat /\ Word \in Nat
      BY DEF TypeOK
    <3>3. QED BY <3>1, <3>2, WordsJoin
  <2>2. QED BY <1>8, <2>1 DEF ReadHi, TypeOK, ConsumerTypeOK
<1>9. CASE PollAbort
  <2>1. pc' = "stop" /\ outcome' \in Outcomes
    BY <1>9 DEF PollAbort, Fail, Outcomes
  <2>2. UNCHANGED <<consumerVars, board, source, committed, phase, started, write_jobs, polled>>
    BY <1>9, Zenon DEF PollAbort
  <2>3. ConsumerTypeOK'
    BY <2>2, Zenon DEF TypeOK, ConsumerTypeOK
  <2>4. QED BY <2>1, <2>2, <2>3 DEF TypeOK
<1>10. CASE IssueJob
  <2>1. next <= Len(Chunks)
    BY <1>10 DEF IssueJob, PollOK, LoopPosition
  <2>2. Chunks[next] \in Nat \ {0} /\ ChunkBeats \in Nat \ {0}
    BY <2>1, ChunkPositive
  <2>3. [begin |-> reserved_count, beats |-> ChunkBeats, packets |-> Chunks[next],
         done |-> 0, failed |-> FALSE] \in Job
    BY <2>2 DEF Job, TypeOK
  <2>4. write_jobs' \in Seq(Job)
    BY <1>10, <2>3 DEF IssueJob, TypeOK
  <2>5. next' \in 1..(Len(Chunks) + 1) /\ reserved_count' \in Nat
    BY <1>10, <2>1, <2>2 DEF IssueJob, TypeOK
  <2>6. QED BY <1>10, <2>4, <2>5 DEF IssueJob, TypeOK, ConsumerTypeOK
<1>11. CASE NoRoom
  BY <1>11 DEF NoRoom, TypeOK, ConsumerTypeOK
<1>12. CASE WritePktCount
  BY <1>12 DEF WritePktCount, TypeOK, ConsumerTypeOK
<1>13. CASE WriteEof
  BY <1>13 DEF WriteEof, RaiseEof, TypeOK, ConsumerTypeOK
<1>14. CASE WaitDone
  BY <1>14 DEF WaitDone, Fail, TypeOK, ConsumerTypeOK, Outcomes
<1>15. CASE WriteStop
  BY <1>15 DEF WriteStop, StopReader, TypeOK, ConsumerTypeOK
<1>16. CASE WriteClear
  BY <1>16, ZeroWord DEF WriteClear, ClearRegisters, TypeOK, ConsumerTypeOK
<1>17. ASSUME NEW j \in DOMAIN write_jobs, JobWrites(j) PROVE TypeOK'
  <2>1. write_jobs[j] \in Job
    BY DEF TypeOK
  <2>2. write_jobs[j].begin + write_jobs[j].done \in Nat
    BY <2>1 DEF Job
  <2>3. mem' \in [Addresses -> Nat \cup {NoBeat}]
    BY <1>17, <2>2, AddressInRing DEF JobWrites, TypeOK
  <2>4. [write_jobs[j] EXCEPT !.done = @ + 1] \in Job
    BY <2>1, JobUpdates
  <2>5. write_jobs' \in Seq(Job)
    <3>1. write_jobs' = [write_jobs EXCEPT ![j] = [write_jobs[j] EXCEPT !.done = @ + 1]]
      BY <1>17, Zenon DEF JobWrites
    <3>2. write_jobs \in Seq(Job)
      BY DEF TypeOK
    <3>3. QED BY <2>4, <3>1, <3>2, SeqUpdate, Zenon
  <2>6. QED BY <1>17, <2>3, <2>5 DEF JobWrites, TypeOK, ConsumerTypeOK
<1>18. ASSUME NEW j \in DOMAIN write_jobs, JobFails(j) PROVE TypeOK'
  <2>1. write_jobs[j] \in Job
    BY DEF TypeOK
  <2>2. [write_jobs[j] EXCEPT !.failed = TRUE] \in Job
    BY <2>1, JobUpdates
  <2>3. write_jobs' \in Seq(Job)
    <3>1. write_jobs' = [write_jobs EXCEPT ![j] = [write_jobs[j] EXCEPT !.failed = TRUE]]
      BY <1>18, Zenon DEF JobFails
    <3>2. write_jobs \in Seq(Job)
      BY DEF TypeOK
    <3>3. QED BY <2>2, <3>1, <3>2, SeqUpdate, Zenon
  <2>4. QED BY <1>18, <2>3 DEF JobFails, TypeOK, ConsumerTypeOK
<1>19. CASE DeliverBeat
  <2>1. mem[Address(read_count)] \in Nat \cup {NoBeat}
    BY AddressInRing DEF TypeOK, ConsumerTypeOK
  <2>2. QED BY <1>19, <2>1 DEF DeliverBeat, ConsumeBeat, TypeOK, ConsumerTypeOK
<1>20. CASE ReaderFinishes
  BY <1>20 DEF ReaderFinishes, FinishReader, TypeOK, ConsumerTypeOK
<1>21. CASE OpenGate
  BY <1>21 DEF OpenGate, TypeOK, ConsumerTypeOK
<1>22. CASE SendBeat
  BY <1>22 DEF SendBeat, TypeOK, ConsumerTypeOK
<1>23. CASE HaltReplay
  <2>1. /\ UNCHANGED <<consumerVars, ddr, write_shadow, pkt_count, sent,
                      stream_prefetch_active, hostVars>>
        /\ replay_running' = FALSE
    BY <1>23, Zenon DEF HaltReplay
  <2>2. ConsumerTypeOK'
    BY <2>1, Zenon DEF TypeOK, ConsumerTypeOK
  <2>3. QED BY <2>1, <2>2, ZenonT(60) DEF TypeOK
<1>24. CASE UNCHANGED vars
  BY <1>24 DEF TypeOK, ConsumerTypeOK
<1>25. QED
  BY <1>1, <1>2, <1>3, <1>4, <1>5, <1>6, <1>7, <1>8, <1>9, <1>10, <1>11, <1>12,
     <1>13, <1>14, <1>15, <1>16, <1>17, <1>18, <1>19, <1>20, <1>21, <1>22, <1>23,
     <1>24 DEF Next, HostStep, BoardStep, Terminated

-----------------------------------------------------------------------------
(* The position of the feeding thread in its loops.                        *)

LEMMA LoopStep == TypeOK /\ LoopPosition /\ [Next]_vars => LoopPosition'
<1> SUFFICES ASSUME TypeOK, LoopPosition, [Next]_vars PROVE LoopPosition'
  OBVIOUS
<1> USE DEF vars, consumerVars, board, ddr, replay, hostVars, source, committed,
        polled, Live, LoopPosition
<1>1. CASE PopChunk
  <2>1. next \in Int /\ Len(Chunks) \in Int
    BY ZeroWord DEF TypeOK
  <2>2. CASE next > Len(Chunks)
    BY <1>1, <2>1, <2>2 DEF PopChunk
  <2>3. CASE next <= Len(Chunks)
    <3>1. /\ pc' \in {"stop", "ready"} /\ phase' = phase /\ next' = next
          /\ started' = started /\ state' = state /\ read_count' = read_count
      <4>1. ~(next > Len(Chunks))
        BY <2>1, <2>3
      <4>2. CASE ChunkBeats + Guard > Capacity
        BY <1>1, <4>1, <4>2 DEF PopChunk, Fail
      <4>3. CASE ~(ChunkBeats + Guard > Capacity)
        BY <1>1, <4>1, <4>3 DEF PopChunk
      <4>4. QED BY <4>2, <4>3
    <3>2. phase = "feed" /\ pc = "pop"
      BY <1>1 DEF PopChunk
    <3>3. QED BY <2>3, <3>1, <3>2
  <2>4. QED BY <2>1, <2>2, <2>3
<1>2. CASE TakeFront
  BY <1>2 DEF TakeFront, Fail
<1>3. CASE WriteLo
  BY <1>3 DEF WriteLo
<1>4. CASE WriteHi
  BY <1>4, ResumePlaces DEF WriteHi
<1>5. CASE StartReplay
  BY <1>5, ResumePlaces DEF StartReplay, StartReader
<1>6. CASE EnterPoll
  BY <1>6 DEF EnterPoll, Fail
<1>7. CASE ReadLo
  BY <1>7 DEF ReadLo
<1>8. CASE ReadHi
  BY <1>8 DEF ReadHi
<1>9. CASE PollAbort
  BY <1>9 DEF PollAbort, Fail
<1>10. CASE IssueJob
  BY <1>10 DEF IssueJob, PollOK
<1>11. CASE NoRoom
  BY <1>11 DEF NoRoom, PollOK
<1>12. CASE WritePktCount
  BY <1>12 DEF WritePktCount
<1>13. CASE WriteEof
  BY <1>13 DEF WriteEof, RaiseEof
<1>14. CASE WaitDone
  BY <1>14 DEF WaitDone, Fail, ReplayDone
<1>15. CASE WriteStop
  BY <1>15 DEF WriteStop, StopReader
<1>16. CASE WriteClear
  BY <1>16 DEF WriteClear, ClearRegisters
<1>17. ASSUME NEW j \in DOMAIN write_jobs, JobWrites(j) PROVE LoopPosition'
  BY <1>17 DEF JobWrites
<1>18. ASSUME NEW j \in DOMAIN write_jobs, JobFails(j) PROVE LoopPosition'
  BY <1>18 DEF JobFails
<1>19. CASE DeliverBeat
  BY <1>19 DEF DeliverBeat, ConsumeBeat
<1>20. CASE ReaderFinishes
  BY <1>20 DEF ReaderFinishes, FinishReader
<1>21. CASE OpenGate \/ SendBeat \/ HaltReplay
  BY <1>21 DEF OpenGate, SendBeat, HaltReplay
<1>22. CASE SourceFails
  BY <1>22 DEF SourceFails, Fail
<1>23. CASE UNCHANGED vars
  BY <1>23
<1>24. QED
  BY <1>1, <1>2, <1>3, <1>4, <1>5, <1>6, <1>7, <1>8, <1>9, <1>10, <1>11, <1>12,
     <1>13, <1>14, <1>15, <1>16, <1>17, <1>18, <1>19, <1>20, <1>21, <1>22, <1>23
     DEF Next, HostStep, BoardStep, Terminated

\* Type correctness of the loader, the registers and the board, together
\* with where the feeding thread may be.
THEOREM TypeCorrect == Spec => [](TypeOK /\ LoopPosition)
<1>1. Init => TypeOK /\ LoopPosition
  BY LoopPositionInit
<1>2. TypeOK /\ LoopPosition /\ [Next]_vars => (TypeOK /\ LoopPosition)'
  BY TypeStep, LoopStep
<1>3. QED BY <1>1, <1>2, PTL DEF Spec


-----------------------------------------------------------------------------
(* The jobs tile the reserved part of the stream.                          *)

\* Committing the oldest job moves the lower edge to its end.
LEMMA TilePop ==
    ASSUME NEW jobs \in Seq(Job), jobs # <<>>, NEW lo \in Nat, NEW hi \in Nat,
           Tile(jobs, lo, hi)
    PROVE  Tile(Tail(jobs), JobEnd(Head(jobs)), hi)
<1> DEFINE n == Len(jobs)
           rest == Tail(jobs)
<1>1. /\ n \in Nat \ {0} /\ DOMAIN jobs = 1..n /\ Head(jobs) = jobs[1]
      /\ rest \in Seq(Job) /\ Len(rest) = n - 1 /\ DOMAIN rest = 1..(n - 1)
      /\ \A i \in 1..(n - 1) : rest[i] = jobs[i + 1]
  BY HeadTailProperties, EmptySeq
<1>2. \A i \in 1..n : jobs[i].begin \in Nat /\ jobs[i].beats \in Nat
                      /\ jobs[i].done \in Nat
  BY <1>1, JobFields
<1> HIDE DEF n, rest
<1>3. CASE n = 1
  <2>1. DOMAIN rest = {} /\ rest = <<>> /\ 1 \in 1..n
    BY <1>1, <1>3, EmptySeq, LenProperties
  <2>2. JobEnd(Head(jobs)) = hi
    BY <1>1, <1>3 DEF Tile, n
  <2>3. QED BY <2>1, <2>2 DEF Tile, rest
<1>4. CASE n > 1
  <2>1. rest # <<>> => rest[1].begin = JobEnd(jobs[1]) /\ JobEnd(rest[Len(rest)]) = hi
    <3>1. /\ 1 \in 1..(n - 1) /\ n - 1 \in 1..(n - 1) /\ (n - 1) + 1 = n
          /\ 1 \in 1..n /\ 1 + 1 \in 1..n
      BY <1>1, <1>4
    <3>2. rest[1] = jobs[1 + 1] /\ rest[Len(rest)] = jobs[n]
      BY <1>1, <3>1
    <3>3. jobs[1 + 1].begin = JobEnd(jobs[1]) /\ JobEnd(jobs[Len(jobs)]) = hi
      BY <1>1, <3>1, Zenon DEF Tile
    <3>4. QED BY <3>2, <3>3, Zenon DEF n
  <2>2. rest # <<>>
    BY <1>1, <1>4
  <2>3. ASSUME NEW i \in 1..(n - 1)
        PROVE  /\ JobEnd(jobs[1]) <= rest[i].begin /\ JobEnd(rest[i]) <= hi
               /\ rest[i].done <= rest[i].beats
               /\ i + 1 \in 1..(n - 1) => rest[i + 1].begin = JobEnd(rest[i])
    <3>1. i + 1 \in 1..n /\ 1 \in 1..n /\ 1 < i + 1 /\ rest[i] = jobs[i + 1]
      BY <1>1, <1>4
    <3>2. JobEnd(jobs[1]) <= jobs[i + 1].begin
      BY <1>1, <3>1 DEF Tile
    <3>3. JobEnd(jobs[i + 1]) <= hi /\ jobs[i + 1].done <= jobs[i + 1].beats
      BY <1>1, <3>1 DEF Tile
    <3>4. ASSUME i + 1 \in 1..(n - 1) PROVE rest[i + 1].begin = JobEnd(rest[i])
      <4>1. (i + 1) + 1 \in 1..n /\ rest[i + 1] = jobs[(i + 1) + 1]
        BY <1>1, <3>4
      <4>2. jobs[(i + 1) + 1].begin = JobEnd(jobs[i + 1])
        BY <1>1, <3>1, <4>1, Zenon DEF Tile
      <4>3. QED BY <3>1, <4>1, <4>2, Zenon
    <3>5. QED BY <3>1, <3>2, <3>3, <3>4
  <2>4. ASSUME NEW i \in 1..(n - 1), NEW j \in 1..(n - 1), i < j
        PROVE  JobEnd(rest[i]) <= rest[j].begin
    <3>1. /\ i + 1 \in 1..n /\ j + 1 \in 1..n /\ i + 1 < j + 1
          /\ rest[i] = jobs[i + 1] /\ rest[j] = jobs[j + 1]
      BY <1>1, <2>4
    <3>2. QED BY <1>1, <3>1 DEF Tile
  <2>5. QED BY <1>1, <2>1, <2>2, <2>3, <2>4 DEF Tile, rest
<1>5. QED BY <1>1, <1>3, <1>4

\* Handing out a job that begins at the upper edge moves that edge to its end.
LEMMA TilePush ==
    ASSUME NEW jobs \in Seq(Job), NEW lo \in Nat, NEW hi \in Nat, Tile(jobs, lo, hi),
           NEW job \in Job, job.begin = hi, job.done = 0, lo <= hi
    PROVE  Tile(Append(jobs, job), lo, hi + job.beats)
<1> DEFINE n == Len(jobs)
           all == Append(jobs, job)
<1>1. /\ n \in Nat /\ DOMAIN jobs = 1..n /\ all # <<>> /\ Len(all) = n + 1
      /\ DOMAIN all = 1..(n + 1) /\ all[n + 1] = job
      /\ \A i \in 1..n : all[i] = jobs[i]
  BY AppendProperties, LenProperties
<1>2. /\ \A i \in 1..n : jobs[i].begin \in Nat /\ jobs[i].beats \in Nat
                         /\ jobs[i].done \in Nat
      /\ job.beats \in Nat
  BY <1>1, JobFields
<1>3. (n = 0 => jobs = <<>>) /\ (n # 0 => jobs # <<>>)
  BY <1>1
<1> HIDE DEF n, all
<1>4. all[1].begin = lo
  <2>1. CASE n = 0
    BY <1>1, <1>3, <2>1 DEF Tile
  <2>2. CASE n # 0
    BY <1>1, <1>3, <2>2 DEF Tile
  <2>3. QED BY <2>1, <2>2
<1>5. ASSUME NEW i \in 1..(n + 1)
      PROVE  /\ lo <= all[i].begin /\ JobEnd(all[i]) <= hi + job.beats
             /\ all[i].done <= all[i].beats
             /\ i + 1 \in 1..(n + 1) => all[i + 1].begin = JobEnd(all[i])
  <2>1. CASE i = n + 1
    BY <1>1, <1>2, <2>1 DEF JobEnd
  <2>2. CASE i \in 1..n
    <3>1. all[i] = jobs[i] /\ lo <= jobs[i].begin /\ JobEnd(jobs[i]) <= hi
          /\ jobs[i].done <= jobs[i].beats
      BY <1>1, <2>2 DEF Tile
    <3>2. JobEnd(all[i]) <= hi + job.beats
      <4>1. JobEnd(all[i]) = JobEnd(jobs[i])
        BY <3>1, Zenon
      <4>2. JobEnd(jobs[i]) \in Nat
        BY <1>2, <2>2 DEF JobEnd
      <4>3. JobEnd(jobs[i]) <= hi /\ job.beats \in Nat
        BY <3>1, <1>2
      <4>4. QED BY <4>1, <4>2, <4>3
    <3>3. CASE i = n
      <4>1. all[i + 1].begin = hi /\ JobEnd(jobs[n]) = hi
        BY <1>1, <1>3, <2>2, <3>3 DEF Tile, n
      <4>2. QED BY <3>1, <3>2, <3>3, <4>1
    <3>4. CASE i # n
      <4>1. i + 1 \in 1..n
        BY <1>1, <2>2, <3>4
      <4>2. all[i + 1].begin = JobEnd(all[i])
        BY <1>1, <2>2, <4>1 DEF Tile
      <4>3. QED BY <3>1, <3>2, <4>2
    <3>5. QED BY <3>3, <3>4
  <2>3. QED BY <1>1, <2>1, <2>2
<1>6. ASSUME NEW i \in 1..(n + 1), NEW j \in 1..(n + 1), i < j
      PROVE  JobEnd(all[i]) <= all[j].begin
  <2>1. i \in 1..n
    BY <1>1, <1>6
  <2>2. CASE j = n + 1
    BY <1>1, <2>1, <2>2 DEF Tile
  <2>3. CASE j \in 1..n
    BY <1>1, <1>6, <2>1, <2>3 DEF Tile
  <2>4. QED BY <1>1, <2>2, <2>3
<1>7. JobEnd(all[Len(all)]) = hi + job.beats
  BY <1>1 DEF JobEnd
<1>8. QED BY <1>1, <1>4, <1>5, <1>6, <1>7 DEF Tile, all

\* Progress or failure of one job does not move any edge.
LEMMA TileUpdate ==
    ASSUME NEW jobs \in Seq(Job), NEW lo \in Nat, NEW hi \in Nat, Tile(jobs, lo, hi),
           NEW j \in DOMAIN jobs, NEW job \in Job, job.begin = jobs[j].begin,
           job.beats = jobs[j].beats, job.done <= job.beats
    PROVE  Tile([jobs EXCEPT ![j] = job], lo, hi)
<1> DEFINE n == Len(jobs)
           new == [jobs EXCEPT ![j] = job]
<1>1. /\ n \in Nat /\ DOMAIN jobs = 1..n /\ Len(new) = n /\ DOMAIN new = 1..n
      /\ \A i \in 1..n : new[i] = IF i = j THEN job ELSE jobs[i]
      /\ jobs # <<>> /\ new # <<>>
  BY ExceptSeq, LenProperties
<1> HIDE DEF n, new
<1>2. \A i \in 1..n : /\ new[i].begin = jobs[i].begin /\ JobEnd(new[i]) = JobEnd(jobs[i])
                      /\ new[i].done <= new[i].beats
  BY <1>1 DEF Tile, JobEnd
<1>3. new[1].begin = lo /\ JobEnd(new[Len(new)]) = hi
  BY <1>1, <1>2 DEF Tile, n
<1>4. QED BY <1>1, <1>2, <1>3 DEF Tile, new

-----------------------------------------------------------------------------
(* The ring invariant: SafeInv without the part TypeCorrect establishes.   *)

RingInv == /\ JobsTile /\ PointersOrdered /\ CommittedInRing /\ WrittenInRing
           /\ PollSound /\ ShadowIsLo

\* What RingInv talks about, apart from pc.
core == <<mem, write_jobs, write_count, reserved_count, read_count, ring_write,
          rd_lo, rd, write_shadow>>

\* A step that moves only pc, and not into the middle of a register access.
LEMMA QuietStep ==
    ASSUME RingInv, UNCHANGED core, Live' => Live,
           pc' \in {"rdhi", "decide", "wrhi"} => pc' = pc
    PROVE  RingInv'
<1> USE DEF core
<1>1. JobsTile'
  BY DEF RingInv, JobsTile
<1>2. PointersOrdered'
  BY DEF RingInv, PointersOrdered
<1>3. CommittedInRing' /\ WrittenInRing'
  BY DEF RingInv, CommittedInRing, WrittenInRing, Address
<1>4. PollSound' /\ ShadowIsLo'
  BY DEF RingInv, PollSound, ShadowIsLo
<1>5. QED BY <1>1, <1>2, <1>3, <1>4 DEF RingInv

LEMMA RingInvInit == Init => RingInv
<1> SUFFICES ASSUME Init PROVE RingInv
  OBVIOUS
<1>0. /\ write_jobs = <<>> /\ DOMAIN write_jobs = {} /\ pc = "pop"
      /\ write_count = 0 /\ reserved_count = 0 /\ read_count = 0 /\ ring_write = 0
  <2>1. DOMAIN << >> = {}
    OBVIOUS
  <2>2. QED BY <2>1 DEF Init, ConsumerInit
<1>1. JobsTile
  BY <1>0 DEF JobsTile, Tile
<1>2. PointersOrdered
  BY <1>0, ConstantTypes DEF PointersOrdered
<1>3. CommittedInRing /\ WrittenInRing
  BY <1>0 DEF CommittedInRing, WrittenInRing
<1>4. PollSound /\ ShadowIsLo
  BY <1>0 DEF PollSound, ShadowIsLo
<1>5. QED BY <1>1, <1>2, <1>3, <1>4 DEF RingInv

\* The facts about one job that every job step starts from.
LEMMA JobFacts ==
    ASSUME TypeOK, RingInv, NEW j \in DOMAIN write_jobs
    PROVE  /\ write_jobs[j] \in Job
           /\ write_jobs[j].begin \in Nat /\ write_jobs[j].done \in Nat
           /\ write_jobs[j].beats \in Nat
           /\ write_count <= write_jobs[j].begin
           /\ write_jobs[j].begin + write_jobs[j].beats <= reserved_count
           /\ write_jobs[j].done <= write_jobs[j].beats
<1>1. write_jobs[j] \in Job
  BY DEF TypeOK
<1>2. QED BY <1>1, JobFields DEF RingInv, JobsTile, Tile, JobEnd

\* A commit takes over exactly the beats the oldest job has written.
LEMMA TakeFrontStep ==
    ASSUME TypeOK, RingInv, TakeFront
    PROVE  RingInv'
<1>1. /\ write_jobs \in Seq(Job) /\ write_jobs # <<>> /\ 1 \in DOMAIN write_jobs
      /\ Head(write_jobs) = write_jobs[1]
  <2>1. write_jobs \in Seq(Job) /\ write_jobs # <<>>
    BY DEF TakeFront, TypeOK
  <2>2. Len(write_jobs) \in Nat \ {0} /\ DOMAIN write_jobs = 1..Len(write_jobs)
    BY <2>1, EmptySeq, LenProperties
  <2>3. QED BY <2>1, <2>2
<1>2. /\ Live /\ UNCHANGED <<mem, reserved_count, read_count, ring_write, rd_lo, rd,
                             write_shadow>>
      /\ pc' \in {"stop", "wrlo"}
  BY DEF TakeFront, Fail, consumerVars, board, ddr, source, polled, Live
<1>3. CASE Head(write_jobs).failed
  <2>1. UNCHANGED core
    BY <1>2, <1>3 DEF TakeFront, core
  <2>2. QED BY <1>2, <2>1, QuietStep
<1>4. CASE ~Head(write_jobs).failed
  <2> DEFINE job == write_jobs[1]
  <2>1. /\ write_count' = job.begin + job.beats /\ write_jobs' = Tail(write_jobs)
        /\ job.done = job.beats
    BY <1>1, <1>4 DEF TakeFront, JobReady, JobEnd
  <2>2. /\ write_count \in Nat /\ reserved_count \in Nat /\ read_count \in Nat
        /\ ring_write \in Nat
    BY DEF TypeOK, ConsumerTypeOK
  <2>3. /\ job.begin \in Nat /\ job.beats \in Nat /\ job.begin = write_count
        /\ job.begin + job.beats <= reserved_count
    BY <1>1, JobFacts DEF RingInv, JobsTile, Tile
  <2>4. JobsTile'
    BY <1>1, <1>2, <2>1, <2>2, TilePop DEF RingInv, JobsTile, JobEnd
  <2> HIDE DEF job
  <2>5. PointersOrdered'
    BY <1>2, <2>1, <2>2, <2>3 DEF RingInv, PointersOrdered
  <2>6. CommittedInRing'
    <3>1. ASSUME NEW k \in read_count..(job.begin + job.beats - 1)
          PROVE  mem[Address(k)] = k
      <4>1. CASE k < write_count
        BY <1>2, <2>2, <4>1, <3>1 DEF RingInv, CommittedInRing
      <4>2. CASE ~(k < write_count)
        <5>1. k \in job.begin..(job.begin + job.done - 1)
          BY <2>1, <2>2, <2>3, <3>1, <4>2
        <5>2. QED BY <1>1, <1>2, <5>1 DEF RingInv, WrittenInRing, job
      <4>3. QED BY <4>1, <4>2
    <3>2. QED BY <1>2, <2>1, <2>2, <2>3, <3>1 DEF CommittedInRing, Address
  <2>7. WrittenInRing'
    <3>1. ASSUME NEW i \in DOMAIN Tail(write_jobs)
          PROVE  i + 1 \in DOMAIN write_jobs /\ Tail(write_jobs)[i] = write_jobs[i + 1]
      <4>1. /\ Tail(write_jobs) \in Seq(Job)
            /\ Len(Tail(write_jobs)) = Len(write_jobs) - 1
            /\ \A m \in 1..Len(Tail(write_jobs)) : Tail(write_jobs)[m] = write_jobs[m + 1]
        BY <1>1, HeadTailProperties
      <4>2. /\ Len(write_jobs) \in Nat /\ DOMAIN write_jobs = 1..Len(write_jobs)
            /\ DOMAIN Tail(write_jobs) = 1..Len(Tail(write_jobs))
        BY <1>1, <4>1, LenProperties
      <4>3. QED BY <3>1, <4>1, <4>2
    <3>2. ASSUME NEW i \in DOMAIN Tail(write_jobs),
                 NEW k \in Tail(write_jobs)[i].begin..
                              (Tail(write_jobs)[i].begin + Tail(write_jobs)[i].done - 1)
          PROVE  mem[Address(k)] = k
      BY <1>2, <3>1, <3>2 DEF RingInv, WrittenInRing
    <3>3. QED BY <1>2, <2>1, <3>2 DEF WrittenInRing, Address
  <2>8. PollSound' /\ ShadowIsLo'
    BY <1>2 DEF PollSound, ShadowIsLo
  <2>9. QED BY <2>4, <2>5, <2>6, <2>7, <2>8 DEF RingInv
<1>5. QED BY <1>3, <1>4

\* A reservation fits behind the read pointer, whatever words were read.
LEMMA IssueJobStep ==
    ASSUME TypeOK, LoopPosition, RingInv, IssueJob
    PROVE  RingInv'
<1> DEFINE job == [begin |-> reserved_count, beats |-> ChunkBeats,
                   packets |-> Chunks[next], done |-> 0, failed |-> FALSE]
<1>1. ChunkBeats \in Nat \ {0} /\ Chunks[next] \in Nat \ {0}
  BY ChunkPositive DEF IssueJob, PollOK, LoopPosition
<1>2. /\ write_count \in Nat /\ reserved_count \in Nat /\ read_count \in Nat
      /\ ring_write \in Nat /\ rd \in Nat /\ write_jobs \in Seq(Job)
  BY DEF TypeOK, ConsumerTypeOK
<1>3. /\ job \in Job /\ job.begin = reserved_count /\ job.beats = ChunkBeats
      /\ job.done = 0
  BY <1>1, <1>2 DEF Job
<1>4. /\ Live /\ pc' = "pop" /\ rd <= write_count /\ Free >= ChunkBeats
      /\ write_jobs' = Append(write_jobs, job)
      /\ reserved_count' = reserved_count + ChunkBeats
      /\ UNCHANGED <<mem, write_count, read_count, ring_write>>
  BY DEF IssueJob, PollOK, CanIssue, Live, consumerVars, board, ddr, committed
<1>5. rd <= read_count
  BY <1>2, <1>4 DEF IssueJob, PollOK, RingInv, PollSound
<1>6. PointersOrdered
  BY DEF RingInv
<1> HIDE DEF job
<1>7. JobsTile'
  BY <1>2, <1>3, <1>4, <1>6, TilePush DEF RingInv, JobsTile, PointersOrdered
<1>8. PointersOrdered'
  <2>1. reserved_count + ChunkBeats + Guard <= rd + Capacity
    BY <1>1, <1>2, <1>4, ConstantTypes DEF Free, Level
  <2>2. QED BY <1>1, <1>2, <1>4, <1>5, <1>6, <2>1, ConstantTypes DEF PointersOrdered
<1>9. CommittedInRing'
  BY <1>4 DEF RingInv, CommittedInRing, Address
<1>10. WrittenInRing'
  <2>1. ASSUME NEW i \in DOMAIN Append(write_jobs, job)
        PROVE  \/ i \in DOMAIN write_jobs /\ Append(write_jobs, job)[i] = write_jobs[i]
               \/ Append(write_jobs, job)[i] = job
    BY <1>2, <1>3, AppendProperties, LenProperties
  <2>2. job.begin..(job.begin + job.done - 1) = {}
    BY <1>2, <1>3
  <2>3. QED BY <1>4, <2>1, <2>2 DEF RingInv, WrittenInRing, Address
<1>11. PollSound' /\ ShadowIsLo'
  BY <1>4 DEF PollSound, ShadowIsLo
<1>12. QED BY <1>7, <1>8, <1>9, <1>10, <1>11 DEF RingInv

\* A commit in two words publishes write_count, no more and no less.
LEMMA WritePointerStep ==
    ASSUME TypeOK, RingInv, WriteLo \/ WriteHi
    PROVE  RingInv'
<1>1. write_count \in Nat /\ ring_write \in Nat /\ read_count \in Nat
  BY DEF TypeOK, ConsumerTypeOK
<1>2. /\ Live /\ UNCHANGED <<mem, write_jobs, reserved_count, write_count, read_count>>
      /\ pc' \notin {"rdhi", "decide"}
  BY ResumePlaces DEF WriteLo, WriteHi, consumerVars, board, ddr, source, committed, Live
<1>3. JobsTile' /\ CommittedInRing' /\ WrittenInRing'
  BY <1>2 DEF RingInv, JobsTile, CommittedInRing, WrittenInRing, Address
<1>4. PollSound'
  BY <1>2 DEF PollSound
<1>5. CASE WriteLo
  <2>1. ring_write' = ring_write /\ write_shadow' = write_count % Word
    BY <1>5 DEF WriteLo, consumerVars
  <2>2. PointersOrdered' /\ ShadowIsLo'
    BY <1>2, <2>1 DEF RingInv, PointersOrdered, ShadowIsLo
  <2>3. QED BY <1>3, <1>4, <2>2 DEF RingInv
<1>6. CASE WriteHi
  <2>1. write_shadow = write_count % Word
    BY <1>6 DEF WriteHi, RingInv, ShadowIsLo
  <2>2. ring_write' = write_count
    BY <1>1, <1>6, <2>1, DivMod, ConstantTypes DEF WriteHi
  <2>3. PointersOrdered'
    BY <1>1, <1>2, <2>2 DEF RingInv, PointersOrdered
  <2>4. ShadowIsLo'
    BY <1>6, ResumePlaces DEF WriteHi, ShadowIsLo
  <2>5. QED BY <1>3, <1>4, <2>3, <2>4 DEF RingInv
<1>7. QED BY <1>5, <1>6

\* Two reads of the moving counter: the words join to a value the counter
\* had, or to one at least a word above it, beyond anything committed.
LEMMA ReadPointerStep ==
    ASSUME TypeOK, RingInv, Capacity <= Word, ReadLo \/ ReadHi
    PROVE  RingInv'
<1>1. /\ write_count \in Nat /\ ring_write \in Nat /\ read_count \in Nat
      /\ reserved_count \in Nat
  BY DEF TypeOK, ConsumerTypeOK
<1>2. /\ Live
      /\ UNCHANGED <<mem, write_jobs, reserved_count, write_count, read_count,
                     ring_write, write_shadow>>
      /\ pc' # "wrhi"
  BY DEF ReadLo, ReadHi, consumerVars, board, ddr, source, committed, Live
<1>3. JobsTile' /\ PointersOrdered' /\ CommittedInRing' /\ WrittenInRing'
  BY <1>2 DEF RingInv, JobsTile, PointersOrdered, CommittedInRing, WrittenInRing, Address
<1>4. ShadowIsLo'
  BY <1>2 DEF ShadowIsLo
<1>5. PointersOrdered
  BY DEF RingInv
<1>6. CASE ReadLo
  <2>1. /\ rd_lo' = read_count % Word /\ pc' = "rdhi"
        /\ read_count \in 0..read_count
        /\ reserved_count + Guard <= read_count + Capacity
    BY <1>1, <1>2, <1>5, <1>6 DEF ReadLo, PointersOrdered
  <2>2. PollSound'
    BY <1>2, <2>1 DEF PollSound
  <2>3. QED BY <1>3, <1>4, <2>2 DEF RingInv
<1>7. CASE ReadHi
  <2>1. PICK r \in 0..read_count :
            rd_lo = r % Word /\ reserved_count + Guard <= r + Capacity
    BY <1>7 DEF ReadHi, RingInv, PollSound
  <2> DEFINE v == (read_count \div Word) * Word + (r % Word)
  <2>2. /\ pc' = "decide" /\ rd' = v
    BY <1>7, <2>1 DEF ReadHi
  <2>3. v \in Nat /\ (v = r \/ v >= r + Word)
    <3>1. r \in Nat /\ r <= read_count
      BY <1>1, <2>1
    <3>2. QED BY <1>1, <3>1, TornRead, ConstantTypes
  <2> HIDE DEF v
  <2>4. v <= read_count \/ v > write_count
    BY <1>1, <1>2, <1>5, <2>1, <2>3, ConstantTypes DEF PointersOrdered
  <2>5. PollSound'
    BY <1>2, <2>2, <2>4 DEF PollSound
  <2>6. QED BY <1>3, <1>4, <2>5 DEF RingInv
<1>8. QED BY <1>6, <1>7

\* An asynchronous H2C write puts its next beat where no live beat is.
LEMMA JobWritesStep ==
    ASSUME TypeOK, RingInv, NEW j \in DOMAIN write_jobs, JobWrites(j)
    PROVE  RingInv'
<1> DEFINE job == write_jobs[j]
           n == job.begin + job.done
           new == [job EXCEPT !.done = @ + 1]
<1>1. /\ write_count \in Nat /\ reserved_count \in Nat /\ read_count \in Nat
      /\ ring_write \in Nat /\ write_jobs \in Seq(Job)
  BY DEF TypeOK, ConsumerTypeOK
<1>2. /\ job \in Job /\ job.begin \in Nat /\ job.done \in Nat /\ job.beats \in Nat
      /\ write_count <= job.begin /\ job.begin + job.beats <= reserved_count
      /\ job.done < job.beats
  <2>1. job.done # job.beats
    BY DEF JobWrites, JobReady
  <2>2. QED BY <2>1, JobFacts
<1>3. /\ new \in Job /\ new.begin = job.begin /\ new.beats = job.beats
      /\ new.done = job.done + 1
  BY <1>2, JobUpdates DEF Job
<1>4. /\ mem' = [mem EXCEPT ![Address(n)] = n]
      /\ write_jobs' = [write_jobs EXCEPT ![j] = new]
      /\ UNCHANGED <<pc, write_count, reserved_count, read_count, ring_write,
                     rd_lo, rd, write_shadow>>
  BY DEF JobWrites, consumerVars, source, committed, polled
<1>5. JobsTile'
  <2>1. new.done <= new.beats
    BY <1>2, <1>3
  <2> HIDE DEF new, n
  <2>2. QED BY <1>1, <1>3, <1>4, <2>1, TileUpdate DEF RingInv, JobsTile
<1>6. PointersOrdered'
  BY <1>4 DEF RingInv, PointersOrdered, Live
<1>7. PollSound' /\ ShadowIsLo'
  BY <1>4 DEF RingInv, PollSound, ShadowIsLo
<1>8. Live' = Live
  BY <1>4 DEF Live
<1>9. /\ n \in Nat /\ mem'[Address(n)] = n
      /\ \A k \in Nat : Address(k) # Address(n) => mem'[Address(k)] = mem[Address(k)]
  <2>1. n \in Nat
    BY <1>2
  <2>2. mem \in [Addresses -> Nat \cup {NoBeat}] /\ Address(n) \in Addresses
    BY <2>1, AddressInRing DEF TypeOK
  <2> HIDE DEF n
  <2>3. \A k \in Nat : Address(k) \in Addresses
    BY AddressInRing
  <2>4. QED BY <1>4, <2>1, <2>2, <2>3
<1>10. ASSUME Live, NEW k \in read_count..(reserved_count - 1), k # n
       PROVE  k \in Nat /\ mem'[Address(k)] = mem[Address(k)]
  <2>1. /\ reserved_count <= read_count + Capacity /\ read_count <= write_count
    BY <1>1, <1>10, ConstantTypes DEF RingInv, PointersOrdered
  <2>2. /\ k \in Nat /\ k < n + Capacity /\ n < k + Capacity
    BY <1>1, <1>2, <2>1, ConstantTypes
  <2>3. Address(k) # Address(n)
    BY <1>9, <1>10, <2>2, AddressDistinct
  <2>4. QED BY <1>9, <2>2, <2>3
<1>11. CommittedInRing'
  <2>1. ASSUME Live, NEW k \in read_count..(write_count - 1)
        PROVE  mem'[Address(k)] = k
    <3>1. k # n /\ k \in read_count..(reserved_count - 1)
      BY <1>1, <1>2, <2>1
    <3>2. mem[Address(k)] = k
      BY <2>1 DEF RingInv, CommittedInRing
    <3>3. QED BY <1>10, <2>1, <3>1, <3>2
  <2>2. QED BY <1>4, <1>8, <2>1 DEF CommittedInRing
<1>12. WrittenInRing'
  <2>1. /\ DOMAIN write_jobs' = DOMAIN write_jobs
        /\ \A i \in DOMAIN write_jobs :
              write_jobs'[i] = IF i = j THEN new ELSE write_jobs[i]
    BY <1>1, <1>4, ExceptSeq
  <2>2. ASSUME Live, NEW i \in DOMAIN write_jobs,
               NEW k \in write_jobs[i].begin..(write_jobs[i].begin + write_jobs[i].done - 1)
        PROVE  mem'[Address(k)] = k
    <3>1. mem[Address(k)] = k
      BY <2>2 DEF RingInv, WrittenInRing
    <3>2. k \in read_count..(reserved_count - 1)
      <4>1. /\ read_count <= write_count /\ write_count <= write_jobs[i].begin
            /\ write_jobs[i].begin + write_jobs[i].beats <= reserved_count
            /\ write_jobs[i].done <= write_jobs[i].beats
            /\ write_jobs[i].begin \in Nat /\ write_jobs[i].done \in Nat
            /\ write_jobs[i].beats \in Nat
        <5>1. read_count <= write_count
          BY <1>1, <2>2 DEF RingInv, PointersOrdered
        <5>2. QED BY <2>2, <5>1, JobFacts
      <4>2. QED BY <1>1, <2>2, <4>1
    <3>3. QED BY <1>9, <1>10, <2>2, <3>1, <3>2
  <2>3. ASSUME Live, NEW k \in job.begin..(job.begin + (job.done + 1) - 1)
        PROVE  mem'[Address(k)] = k
    <3>1. CASE k = n
      BY <1>9, <3>1
    <3>2. CASE k # n
      BY <1>2, <2>2, <2>3, <3>2
    <3>3. QED BY <3>1, <3>2
  <2> HIDE DEF new, job
  <2>4. ASSUME Live, NEW i \in DOMAIN write_jobs,
               NEW k \in write_jobs'[i].begin..(write_jobs'[i].begin + write_jobs'[i].done - 1)
        PROVE  mem'[Address(k)] = k
    <3>1. CASE i = j
      <4>1. /\ write_jobs'[i].begin = job.begin
            /\ write_jobs'[i].done = job.done + 1
        BY <1>3, <2>1, <3>1
      <4>2. k \in job.begin..(job.begin + (job.done + 1) - 1)
        BY <2>4, <4>1
      <4>3. QED BY <1>2, <2>3, <2>4, <4>2
    <3>2. CASE i # j
      BY <2>1, <2>2, <2>4, <3>2
    <3>3. QED BY <3>1, <3>2
  <2>5. QED BY <1>8, <2>1, <2>4 DEF WrittenInRing
<1>13. QED BY <1>5, <1>6, <1>7, <1>11, <1>12 DEF RingInv

\* A failing H2C write leaves its beats where they are.
LEMMA JobFailsStep ==
    ASSUME TypeOK, RingInv, NEW j \in DOMAIN write_jobs, JobFails(j)
    PROVE  RingInv'
<1> DEFINE job == write_jobs[j]
           new == [job EXCEPT !.failed = TRUE]
<1>1. write_count \in Nat /\ reserved_count \in Nat /\ write_jobs \in Seq(Job)
  BY DEF TypeOK
<1>2. /\ job \in Job /\ job.done <= job.beats
  BY JobFacts
<1>3. /\ new \in Job /\ new.begin = job.begin /\ new.beats = job.beats
      /\ new.done = job.done
  BY <1>2, JobUpdates DEF Job
<1>4. /\ write_jobs' = [write_jobs EXCEPT ![j] = new]
      /\ UNCHANGED <<mem, pc, write_count, reserved_count, read_count, ring_write,
                     rd_lo, rd, write_shadow>>
  BY DEF JobFails, consumerVars, board, ddr, source, committed, polled
<1>5. JobsTile'
  <2>1. new.done <= new.beats
    BY <1>2, <1>3
  <2> HIDE DEF new
  <2>2. QED BY <1>1, <1>3, <1>4, <2>1, TileUpdate DEF RingInv, JobsTile
<1>6. PointersOrdered' /\ CommittedInRing'
  BY <1>4 DEF RingInv, PointersOrdered, CommittedInRing, Live, Address
<1>7. PollSound' /\ ShadowIsLo'
  BY <1>4 DEF RingInv, PollSound, ShadowIsLo
<1>8. WrittenInRing'
  <2> HIDE DEF new
  <2>1. /\ DOMAIN write_jobs' = DOMAIN write_jobs
        /\ \A i \in DOMAIN write_jobs :
              write_jobs'[i] = IF i = j THEN new ELSE write_jobs[i]
    BY <1>1, <1>4, ExceptSeq
  <2>2. \A i \in DOMAIN write_jobs : /\ write_jobs'[i].begin = write_jobs[i].begin
                                     /\ write_jobs'[i].done = write_jobs[i].done
    BY <1>3, <2>1
  <2>3. QED BY <1>4, <2>1, <2>2 DEF RingInv, WrittenInRing, Live, Address
<1>9. QED BY <1>5, <1>6, <1>7, <1>8 DEF RingInv

\* A delivered beat gives its place back to the host.
LEMMA DeliverBeatStep ==
    ASSUME TypeOK, RingInv, DeliverBeat
    PROVE  RingInv'
<1>1. /\ write_count \in Nat /\ ring_write \in Nat /\ read_count \in Nat
      /\ reserved_count \in Nat
  BY DEF TypeOK, ConsumerTypeOK
<1>2. /\ read_count' = read_count + 1 /\ read_count < ring_write
      /\ UNCHANGED <<mem, pc, write_jobs, write_count, reserved_count, ring_write,
                     rd_lo, rd, write_shadow>>
  BY DEF DeliverBeat, ConsumeBeat, hostVars, source, committed, polled
<1>3. JobsTile' /\ WrittenInRing' /\ ShadowIsLo'
  BY <1>2 DEF RingInv, JobsTile, WrittenInRing, ShadowIsLo, Live, Address
<1>4. PointersOrdered'
  BY <1>1, <1>2, ConstantTypes DEF RingInv, PointersOrdered, Live
<1>5. CommittedInRing'
  <2>1. \A k \in (read_count + 1)..(write_count - 1) :
            k \in read_count..(write_count - 1)
    BY <1>1
  <2>2. QED BY <1>2, <2>1 DEF RingInv, CommittedInRing, Live, Address
<1>6. PollSound'
  <2>1. pc = "rdhi" => \E r \in 0..(read_count + 1) :
            rd_lo = r % Word /\ reserved_count + Guard <= r + Capacity
    <3>1. \A r \in 0..read_count : r \in 0..(read_count + 1)
      BY <1>1
    <3>2. QED BY <3>1 DEF RingInv, PollSound
  <2>2. pc = "decide" => rd <= read_count + 1 \/ rd > write_count
    BY <1>1 DEF RingInv, PollSound, TypeOK
  <2>3. QED BY <1>2, <2>1, <2>2 DEF PollSound
<1>7. QED BY <1>3, <1>4, <1>5, <1>6 DEF RingInv

\* Once the loader has written STOP the ring is nobody's any more.
LEMMA StopStep ==
    ASSUME TypeOK, RingInv, WriteStop \/ WriteClear
    PROVE  RingInv'
<1>1. /\ pc' \in {"clear", "end"}
      /\ UNCHANGED <<write_jobs, write_count, reserved_count>>
  BY DEF WriteStop, WriteClear, source, committed
<1>2. JobsTile'
  BY <1>1 DEF RingInv, JobsTile
<1>3. PointersOrdered' /\ CommittedInRing' /\ WrittenInRing'
  BY <1>1 DEF PointersOrdered, CommittedInRing, WrittenInRing, Live
<1>4. PollSound' /\ ShadowIsLo'
  BY <1>1 DEF PollSound, ShadowIsLo
<1>5. QED BY <1>2, <1>3, <1>4 DEF RingInv

\* The start pulse resets a read counter that was still zero.
LEMMA StartStep ==
    ASSUME TypeOK, LoopPosition, RingInv, StartReplay
    PROVE  RingInv'
<1>1. read_count' = 0 /\ read_count = 0 /\ Live
  BY DEF StartReplay, StartReader, LoopPosition, Live
<1>2. /\ UNCHANGED core /\ pc' \notin {"rdhi", "decide", "wrhi"}
  BY <1>1, ResumePlaces DEF StartReplay, StartReader, core, ddr, source, committed, polled
<1>3. QED BY <1>1, <1>2, QuietStep

LEMMA RingStep ==
    ASSUME TypeOK, LoopPosition, RingInv, Capacity <= Word, [Next]_vars
    PROVE  RingInv'
<1> USE DEF vars, consumerVars, board, ddr, replay, hostVars, source, committed,
        polled, core, Live
<1>1. CASE PopChunk
  <2>1. UNCHANGED core /\ pc = "pop"
    BY <1>1 DEF PopChunk
  <2>2. pc' \in {"drain", "stop", "ready"}
    <3>1. CASE next > Len(Chunks)
      BY <1>1, <3>1 DEF PopChunk
    <3>2. CASE ~(next > Len(Chunks)) /\ ChunkBeats + Guard > Capacity
      BY <1>1, <3>2 DEF PopChunk, Fail
    <3>3. CASE ~(next > Len(Chunks)) /\ ~(ChunkBeats + Guard > Capacity)
      BY <1>1, <3>3 DEF PopChunk
    <3>4. QED BY <3>1, <3>2, <3>3
  <2>3. QED BY <2>1, <2>2, QuietStep
<1>2. CASE TakeFront
  BY <1>2, TakeFrontStep
<1>3. CASE WriteLo \/ WriteHi
  BY <1>3, WritePointerStep
<1>4. CASE StartReplay
  BY <1>4, StartStep
<1>5. CASE ReadLo \/ ReadHi
  BY <1>5, ReadPointerStep
<1>6. CASE IssueJob
  BY <1>6, IssueJobStep
<1>7. CASE WriteStop \/ WriteClear
  BY <1>7, StopStep
<1>8. ASSUME NEW j \in DOMAIN write_jobs, JobWrites(j) PROVE RingInv'
  BY <1>8, JobWritesStep
<1>9. ASSUME NEW j \in DOMAIN write_jobs, JobFails(j) PROVE RingInv'
  BY <1>9, JobFailsStep
<1>10. CASE DeliverBeat
  BY <1>10, DeliverBeatStep
<1>11. CASE EnterPoll \/ PollAbort \/ NoRoom
  <2>1. UNCHANGED core /\ pc \in {"ready", "decide"}
    BY <1>11 DEF EnterPoll, PollAbort, NoRoom, PollOK
  <2>2. pc' \in {"rdlo", "stop", "front", "start", "ready"}
    BY <1>11 DEF EnterPoll, PollAbort, NoRoom, Fail
  <2>3. QED BY <2>1, <2>2, QuietStep
<1>12. CASE SourceFails \/ WritePktCount \/ WriteEof \/ WaitDone
  <2>1. UNCHANGED core /\ pc \in {"pop", "drain", "eof", "wait"}
    BY <1>12 DEF SourceFails, WritePktCount, WriteEof, RaiseEof, WaitDone
  <2>2. pc' \in {"eof", "wait", "start", "end", "stop"}
    BY <1>12 DEF SourceFails, WritePktCount, WriteEof, WaitDone, Fail
  <2>3. QED BY <2>1, <2>2, QuietStep
<1>13. CASE ReaderFinishes \/ OpenGate \/ SendBeat \/ HaltReplay \/ UNCHANGED vars
  <2>1. UNCHANGED core /\ pc' = pc
    BY <1>13 DEF ReaderFinishes, FinishReader, OpenGate, SendBeat, HaltReplay
  <2>2. QED BY <2>1, QuietStep
<1>14. QED
  BY <1>1, <1>2, <1>3, <1>4, <1>5, <1>6, <1>7, <1>8, <1>9, <1>10, <1>11, <1>12, <1>13
     DEF Next, HostStep, BoardStep, Terminated

-----------------------------------------------------------------------------
\* The ring is safe for every stream, ring, number of writer threads, packet
\* size and failure, as long as one register word counts a whole capacity.
THEOREM RingSafe ==
    ASSUME Capacity <= Word
    PROVE  Spec => []SafeInv
<1>1. Init => TypeOK /\ LoopPosition /\ RingInv
  BY LoopPositionInit, RingInvInit
<1>2. TypeOK /\ LoopPosition /\ RingInv /\ [Next]_vars
        => (TypeOK /\ LoopPosition /\ RingInv)'
  BY TypeStep, LoopStep, RingStep
<1>3. TypeOK /\ LoopPosition /\ RingInv => SafeInv
  BY DEF RingInv, SafeInv
<1>4. QED BY <1>1, <1>2, <1>3, PTL DEF Spec

\* Every beat between the read pointer and the committed pointer is in the
\* ring: pwrite_stream_window never overwrites a beat the reader has yet to
\* deliver, and write64(STREAM_WR) never publishes one that is still missing.
THEOREM WindowAlwaysIntact ==
    ASSUME Capacity <= Word
    PROVE  Spec => []WindowIntact
<1>1. SafeInv => WindowIntact
  BY DEF SafeInv, WindowIntact, CommittedInRing, PointersOrdered, LoopPosition,
         Live, TypeOK, ConsumerTypeOK
<1>2. QED BY <1>1, RingSafe, PTL

\* The committed pointer is never one that makes the reader raise
\* STREAM_OVERRUN or its pointer error.
THEOREM PointerAlwaysInWindow ==
    ASSUME Capacity <= Word
    PROVE  Spec => []PointerInWindow
<1>1. SafeInv => PointerInWindow
  BY ConstantTypes DEF SafeInv, PointerInWindow, PointerOK, PointersOrdered,
         LoopPosition, Live, TypeOK, ConsumerTypeOK
<1>2. QED BY <1>1, RingSafe, PTL

-----------------------------------------------------------------------------
(* What the reader hands on.                                               *)

\* Delivered beats are numbered by the read counter until STOP resets it.
Delivered == InOrderDelivery /\ (Live => Len(got) = read_count)

LEMMA DeliveredStep ==
    ASSUME TypeOK, LoopPosition, RingInv, Delivered, [Next]_vars
    PROVE  Delivered'
<1> USE DEF vars, consumerVars, board, ddr, replay, hostVars, source, committed,
        polled, Live
<1>1. CASE DeliverBeat
  <2>1. /\ got' = Append(got, mem[Address(read_count)]) /\ state = "run"
        /\ read_count' = read_count + 1 /\ read_count < ring_write /\ pc' = pc
    BY <1>1 DEF DeliverBeat, ConsumeBeat
  <2>2. Live
    BY <2>1 DEF LoopPosition
  <2>3. mem[Address(read_count)] = read_count
    <3>1. /\ read_count \in read_count..(write_count - 1)
      BY <2>1, <2>2 DEF RingInv, PointersOrdered, TypeOK, ConsumerTypeOK
    <3>2. QED BY <2>2, <3>1 DEF RingInv, CommittedInRing
  <2>4. /\ got \in Seq(Nat \cup {NoBeat}) /\ read_count \in Nat
        /\ Len(got) = read_count
    BY <2>2 DEF TypeOK, ConsumerTypeOK, Delivered
  <2>5. got' = Append(got, read_count) /\ read_count \in Nat \cup {NoBeat}
    BY <2>1, <2>3, <2>4
  <2>6. /\ Len(got') = read_count + 1 /\ DOMAIN got' = 1..(read_count + 1)
        /\ got'[read_count + 1] = read_count
        /\ \A i \in 1..read_count : got'[i] = got[i]
    BY <2>4, <2>5, AppendProperties, LenProperties
  <2>7. \A i \in 1..read_count : got[i] = i - 1
    BY <2>4, LenProperties DEF Delivered, InOrderDelivery
  <2>8. InOrderDelivery'
    BY <2>4, <2>6, <2>7 DEF InOrderDelivery
  <2>9. QED BY <2>1, <2>6, <2>8 DEF Delivered
<1>2. CASE StartReplay
  <2>1. got' = got /\ read_count' = read_count /\ Live
    BY <1>2 DEF StartReplay, StartReader, LoopPosition
  <2>2. QED BY <2>1 DEF Delivered, InOrderDelivery
<1>3. CASE WriteStop \/ WriteClear
  <2>1. got' = got /\ ~Live'
    BY <1>3 DEF WriteStop, WriteClear
  <2>2. QED BY <2>1 DEF Delivered, InOrderDelivery
<1>4. ASSUME got' = got, read_count' = read_count, Live' => Live PROVE Delivered'
  BY <1>4 DEF Delivered, InOrderDelivery
<1>5. CASE PopChunk \/ TakeFront \/ WriteLo \/ WriteHi
  BY <1>4, <1>5 DEF PopChunk, TakeFront, WriteLo, WriteHi
<1>6. CASE EnterPoll \/ ReadLo \/ ReadHi \/ PollAbort \/ IssueJob \/ NoRoom
  BY <1>4, <1>6 DEF EnterPoll, ReadLo, ReadHi, PollAbort, IssueJob, NoRoom, PollOK
<1>7. CASE SourceFails \/ WritePktCount \/ WriteEof \/ WaitDone
  BY <1>4, <1>7 DEF SourceFails, WritePktCount, WriteEof, RaiseEof, WaitDone
<1>8. CASE \E j \in DOMAIN write_jobs : JobWrites(j) \/ JobFails(j)
  <2>1. got' = got /\ read_count' = read_count /\ pc' = pc
    BY <1>8 DEF JobWrites, JobFails
  <2>2. QED BY <1>4, <2>1
<1>9. CASE ReaderFinishes \/ OpenGate \/ SendBeat \/ HaltReplay \/ UNCHANGED vars
  BY <1>4, <1>9 DEF ReaderFinishes, FinishReader, OpenGate, SendBeat, HaltReplay
<1>10. QED
  BY <1>1, <1>2, <1>3, <1>5, <1>6, <1>7, <1>8, <1>9
     DEF Next, HostStep, BoardStep, Terminated

\* The reader delivers the stream: every beat once, in order, unaltered,
\* whatever fails on the host side.
THEOREM AlwaysInOrder ==
    ASSUME Capacity <= Word
    PROVE  Spec => []InOrderDelivery
<1>1. Init => Delivered
  <2>1. DOMAIN << >> = {} /\ Len(<< >>) = 0
    OBVIOUS
  <2>2. QED BY <2>1 DEF Init, ConsumerInit, Delivered, InOrderDelivery
<1>2. SafeInv /\ Delivered /\ [Next]_vars => Delivered'
  BY DeliveredStep DEF SafeInv, RingInv
<1>3. Delivered => InOrderDelivery
  BY DEF Delivered
<1>4. QED BY <1>1, <1>2, <1>3, RingSafe, PTL DEF Spec

-----------------------------------------------------------------------------
(* The loader meets the contract of the ring reader.                       *)

LEMMA ContractStep ==
    ASSUME TypeOK, LoopPosition, RingInv, [Next]_vars
    PROVE  [ConsumerNext]_consumerVars
<1> USE DEF vars, consumerVars, hostVars
<1>1. CASE WriteHi
  <2>1. write_count \in Nat /\ ring_write \in Nat /\ read_count \in Nat
    BY DEF TypeOK, ConsumerTypeOK
  <2>2. write_shadow = write_count % Word /\ Live
    BY <1>1 DEF WriteHi, RingInv, ShadowIsLo, Live
  <2>3. ring_write' = write_count
    BY <1>1, <2>1, <2>2, DivMod, ConstantTypes DEF WriteHi
  <2>4. CommitWindow
    BY <1>1, <2>1, <2>2, <2>3, ConstantTypes
       DEF WriteHi, CommitWindow, RingInv, PointersOrdered, TypeOK
  <2>5. QED BY <2>4 DEF ConsumerNext
<1>2. CASE StartReplay
  BY <1>2 DEF StartReplay, ConsumerNext
<1>3. CASE WriteEof
  BY <1>3 DEF WriteEof, ConsumerNext
<1>4. CASE WriteStop
  BY <1>4 DEF WriteStop, ConsumerNext
<1>5. CASE WriteClear
  BY <1>5 DEF WriteClear, ClearWindow, LoopPosition, ConsumerNext
<1>6. CASE DeliverBeat
  BY <1>6 DEF DeliverBeat, ConsumerNext
<1>7. CASE ReaderFinishes
  BY <1>7 DEF ReaderFinishes, ConsumerNext
<1>8. CASE PopChunk \/ TakeFront \/ WriteLo \/ EnterPoll \/ ReadLo \/ ReadHi
  BY <1>8 DEF PopChunk, TakeFront, WriteLo, EnterPoll, ReadLo, ReadHi
<1>9. CASE SourceFails \/ PollAbort \/ IssueJob \/ NoRoom \/ WritePktCount \/ WaitDone
  BY <1>9 DEF SourceFails, PollAbort, IssueJob, NoRoom, WritePktCount, WaitDone
<1>10. CASE OpenGate \/ SendBeat \/ HaltReplay \/ UNCHANGED vars
  BY <1>10 DEF OpenGate, SendBeat, HaltReplay
<1>11. CASE \E j \in DOMAIN write_jobs : JobWrites(j) \/ JobFails(j)
  BY <1>11 DEF JobWrites, JobFails
<1>12. QED
  BY <1>1, <1>2, <1>3, <1>4, <1>5, <1>6, <1>7, <1>8, <1>9, <1>10, <1>11
     DEF Next, HostStep, BoardStep, Terminated

\* StreamRing implements the contract of the reader: pointers that only
\* grow and stay within one capacity, EOF and clear as the reader expects.
THEOREM MeetsReaderContract ==
    ASSUME Capacity <= Word
    PROVE  Spec => ReaderContract
<1>1. Init => ConsumerInit
  BY DEF Init
<1>2. SafeInv /\ [Next]_vars => [ConsumerNext]_consumerVars
  BY ContractStep DEF SafeInv, RingInv
<1>3. QED BY <1>1, <1>2, RingSafe, PTL DEF Spec, ReaderContract, ConsumerSpec

-----------------------------------------------------------------------------
(* The end of the stream.                                                  *)

\* What PacketsCounted and Sealed talk about, apart from pc and the reader.
counters == <<write_jobs, write_count, packet_count, pkt_count, phase, next,
              ring_write, eof>>

\* A step that moves only pc, and neither within a commit nor at the end.
LEMMA CountersStay ==
    ASSUME PacketsCounted, UNCHANGED counters, Live' => Live,
           pc \notin {"wrlo", "wrhi"}
    PROVE  PacketsCounted'
BY DEF PacketsCounted, counters

LEMMA PacketsCountedInit == Init => PacketsCounted /\ Sealed /\ Departed
<1> SUFFICES ASSUME Init PROVE PacketsCounted /\ Sealed /\ Departed
  OBVIOUS
<1>1. /\ DOMAIN write_jobs = {} /\ write_count = 0 /\ packet_count = 0
      /\ phase = "feed" /\ pc = "pop" /\ ring_write = 0 /\ ~eof /\ state = "idle"
      /\ sent = 0 /\ read_count = 0 /\ outcome = ""
  <2>1. DOMAIN << >> = {}
    OBVIOUS
  <2>2. QED BY <2>1 DEF Init, ConsumerInit
<1>2. write_count = packet_count * PktBeats
  <2>1. 0 * PktBeats = 0
    BY ConstantTypes
  <2>2. QED BY <1>1, <2>1, Zenon
<1>3. PacketsCounted
  <2>1. /\ phase # "feed" => next > Len(Chunks)
        /\ Live /\ pc \notin {"wrlo", "wrhi"} => ring_write = write_count
    BY <1>1
  <2>2. \A i \in DOMAIN write_jobs : write_jobs[i].beats = write_jobs[i].packets * PktBeats
    BY <1>1
  <2>3. QED BY <1>2, <2>1, <2>2 DEF PacketsCounted
<1>4. Sealed
  BY <1>1, Zenon DEF Sealed
<1>5. Departed
  <2>1. 0 <= 0
    OBVIOUS
  <2>2. sent <= read_count
    BY <1>1, <2>1, Zenon
  <2>3. outcome # "completed"
    BY <1>1
  <2>4. QED BY <2>2, <2>3, Zenon DEF Departed
<1>6. QED BY <1>3, <1>4, <1>5

\* The packets of a job, added to those committed, keep the proportion.
LEMMA Proportion ==
    ASSUME NEW a \in Nat, NEW b \in Nat, NEW k \in Nat
    PROVE  (a + b) * k = a * k + b * k
OBVIOUS

\* A commit adds the packets of the oldest job to its beats.
LEMMA TakeFrontCounts ==
    ASSUME TypeOK, RingInv, PacketsCounted, TakeFront
    PROVE  PacketsCounted'
<1>1. /\ write_jobs \in Seq(Job) /\ write_jobs # <<>>
      /\ Len(write_jobs) \in Nat \ {0} /\ DOMAIN write_jobs = 1..Len(write_jobs)
      /\ Head(write_jobs) = write_jobs[1] /\ write_jobs[1] \in Job
  <2>1. write_jobs \in Seq(Job) /\ write_jobs # <<>>
    BY DEF TakeFront, TypeOK
  <2>2. Len(write_jobs) \in Nat \ {0} /\ DOMAIN write_jobs = 1..Len(write_jobs)
    BY <2>1, EmptySeq, LenProperties
  <2>3. QED BY <2>1, <2>2
<1>2. /\ phase' = phase /\ next' = next /\ ring_write' = ring_write
      /\ pc \notin {"wrlo", "wrhi"} /\ Live
  BY DEF TakeFront, Live, consumerVars, source
<1>3. CASE write_jobs[1].failed
  <2>1. /\ write_jobs' = write_jobs /\ write_count' = write_count
        /\ packet_count' = packet_count
    BY <1>1, <1>3 DEF TakeFront
  <2>2. QED BY <1>2, <2>1 DEF PacketsCounted
<1>4. CASE ~write_jobs[1].failed
  <2>1. /\ write_jobs' = Tail(write_jobs) /\ pc' = "wrlo"
        /\ write_count' = write_jobs[1].begin + write_jobs[1].beats
        /\ packet_count' = packet_count + write_jobs[1].packets
    BY <1>1, <1>4 DEF TakeFront, JobEnd
  <2>2. write_jobs[1].begin = write_count
    BY <1>1 DEF RingInv, JobsTile, Tile
  <2>3. write_count' = packet_count' * PktBeats
    <3>1. /\ write_jobs[1].packets \in Nat /\ packet_count \in Nat /\ PktBeats \in Nat
      BY <1>1, JobFields, ConstantTypes DEF TypeOK
    <3>2. write_jobs[1].beats = write_jobs[1].packets * PktBeats
      BY <1>1 DEF PacketsCounted
    <3>3. write_count = packet_count * PktBeats
      BY DEF PacketsCounted
    <3>4. (packet_count + write_jobs[1].packets) * PktBeats
            = packet_count * PktBeats + write_jobs[1].packets * PktBeats
      BY <3>1, Proportion
    <3>5. write_count' = packet_count * PktBeats + write_jobs[1].packets * PktBeats
      BY <2>1, <2>2, <3>2, <3>3, Zenon
    <3>6. QED BY <2>1, <3>4, <3>5, Zenon
  <2>4. \A i \in DOMAIN write_jobs' :
            write_jobs'[i].beats = write_jobs'[i].packets * PktBeats
    <3>1. /\ DOMAIN Tail(write_jobs) = 1..(Len(write_jobs) - 1)
          /\ \A i \in 1..(Len(write_jobs) - 1) : Tail(write_jobs)[i] = write_jobs[i + 1]
      BY <1>1
    <3>2. SUFFICES ASSUME NEW i \in 1..(Len(write_jobs) - 1)
                   PROVE  Tail(write_jobs)[i].beats = Tail(write_jobs)[i].packets * PktBeats
      BY <2>1, <3>1, Zenon
    <3>3. i + 1 \in DOMAIN write_jobs
      BY <1>1
    <3>4. write_jobs[i + 1].beats = write_jobs[i + 1].packets * PktBeats
      BY <3>3 DEF PacketsCounted
    <3>5. QED BY <3>1, <3>4, Zenon
  <2>5. QED BY <1>2, <2>1, <2>3, <2>4 DEF PacketsCounted
<1>5. QED BY <1>3, <1>4

\* A new job has the beats of its packets.
LEMMA IssueJobCounts ==
    ASSUME TypeOK, LoopPosition, PacketsCounted, IssueJob
    PROVE  PacketsCounted'
<1> DEFINE job == [begin |-> reserved_count, beats |-> ChunkBeats,
                   packets |-> Chunks[next], done |-> 0, failed |-> FALSE]
<1>1. /\ write_jobs' = Append(write_jobs, job) /\ write_count' = write_count
      /\ packet_count' = packet_count /\ phase' = phase /\ ring_write' = ring_write
      /\ pc = "decide" /\ phase = "feed"
  BY DEF IssueJob, PollOK, LoopPosition, committed, consumerVars
<1>2. job.beats = job.packets * PktBeats
  BY DEF ChunkBeats
<1>3. write_jobs \in Seq(Job) /\ job \in Job
  <2>1. next <= Len(Chunks)
    BY <1>1 DEF LoopPosition
  <2>2. Chunks[next] \in Nat \ {0} /\ ChunkBeats \in Nat \ {0}
    BY <2>1, ChunkPositive
  <2>3. QED BY <2>2 DEF Job, TypeOK
<1> HIDE DEF job
<1>4. \A i \in DOMAIN write_jobs' :
          write_jobs'[i].beats = write_jobs'[i].packets * PktBeats
  <2>1. /\ Len(write_jobs) \in Nat /\ DOMAIN write_jobs = 1..Len(write_jobs)
        /\ DOMAIN Append(write_jobs, job) = 1..(Len(write_jobs) + 1)
        /\ Append(write_jobs, job)[Len(write_jobs) + 1] = job
        /\ \A i \in 1..Len(write_jobs) : Append(write_jobs, job)[i] = write_jobs[i]
    BY <1>3, AppendProperties, LenProperties
  <2>2. SUFFICES ASSUME NEW i \in 1..(Len(write_jobs) + 1)
                 PROVE  Append(write_jobs, job)[i].beats
                            = Append(write_jobs, job)[i].packets * PktBeats
    BY <1>1, <2>1, Zenon
  <2>3. CASE i = Len(write_jobs) + 1
    BY <1>2, <2>1, <2>3, Zenon
  <2>4. CASE i # Len(write_jobs) + 1
    <3>1. i \in 1..Len(write_jobs)
      BY <2>1, <2>4
    <3>2. write_jobs[i].beats = write_jobs[i].packets * PktBeats
      BY <2>1, <3>1 DEF PacketsCounted
    <3>3. QED BY <2>1, <3>1, <3>2, Zenon
  <2>5. QED BY <2>3, <2>4
<1>5. QED BY <1>1, <1>4 DEF PacketsCounted, Live

\* The steps of a job change neither its beats nor its packets.
LEMMA JobStepCounts ==
    ASSUME TypeOK, PacketsCounted, NEW j \in DOMAIN write_jobs,
           JobWrites(j) \/ JobFails(j)
    PROVE  PacketsCounted'
<1>1. /\ DOMAIN write_jobs' = DOMAIN write_jobs
      /\ \A i \in DOMAIN write_jobs : /\ write_jobs'[i].beats = write_jobs[i].beats
                                      /\ write_jobs'[i].packets = write_jobs[i].packets
  <2>1. write_jobs \in Seq(Job) /\ \A i \in DOMAIN write_jobs : write_jobs[i] \in Job
    BY DEF TypeOK
  <2>2. CASE JobWrites(j)
    <3>1. write_jobs' = [write_jobs EXCEPT ![j].done = @ + 1]
      BY <2>2 DEF JobWrites
    <3>2. QED BY <2>1, <3>1 DEF Job
  <2>3. CASE JobFails(j)
    <3>1. write_jobs' = [write_jobs EXCEPT ![j].failed = TRUE]
      BY <2>3 DEF JobFails
    <3>2. QED BY <2>1, <3>1 DEF Job
  <2>4. QED BY <2>2, <2>3
<1>2. UNCHANGED <<pc, write_count, packet_count, phase, next, ring_write>>
  BY DEF JobWrites, JobFails, consumerVars, committed, source
<1>3. \A i \in DOMAIN write_jobs' :
          write_jobs'[i].beats = write_jobs'[i].packets * PktBeats
  BY <1>1, Zenon DEF PacketsCounted
<1>4. QED BY <1>2, <1>3 DEF PacketsCounted, Live

LEMMA CountStep ==
    ASSUME TypeOK, LoopPosition, RingInv, PacketsCounted, Sealed, [Next]_vars
    PROVE  PacketsCounted'
<1> USE DEF vars, consumerVars, board, ddr, replay, hostVars, source, committed,
        polled, Live
<1>1. CASE PopChunk
  <2>1. CASE next > Len(Chunks)
    BY <1>1, <2>1 DEF PopChunk, PacketsCounted
  <2>2. CASE ~(next > Len(Chunks))
    <3>1. UNCHANGED counters /\ pc = "pop"
      BY <1>1, <2>2 DEF PopChunk, counters
    <3>2. QED BY <3>1, CountersStay
  <2>3. QED BY <2>1, <2>2
<1>2. CASE TakeFront
  BY <1>2, TakeFrontCounts
<1>3. CASE WriteLo
  BY <1>3 DEF WriteLo, PacketsCounted
<1>4. CASE WriteHi
  <2>1. write_count \in Nat /\ write_shadow = write_count % Word
    BY <1>4 DEF WriteHi, RingInv, ShadowIsLo, TypeOK
  <2>2. ring_write' = write_count
    BY <1>4, <2>1, DivMod, ConstantTypes DEF WriteHi
  <2>3. QED BY <1>4, <2>2 DEF WriteHi, PacketsCounted
<1>5. CASE IssueJob
  BY <1>5, IssueJobCounts
<1>6. CASE WritePktCount
  BY <1>6 DEF WritePktCount, PacketsCounted
<1>7. CASE WriteEof
  <2>1. next > Len(Chunks)
    BY <1>7 DEF WriteEof, PacketsCounted, Sealed
  <2>2. QED BY <1>7, <2>1 DEF WriteEof, RaiseEof, PacketsCounted
<1>8. CASE WriteClear
  BY <1>8 DEF WriteClear, PacketsCounted
<1>9. ASSUME NEW j \in DOMAIN write_jobs, JobWrites(j) \/ JobFails(j)
      PROVE  PacketsCounted'
  BY <1>9, JobStepCounts
<1>10. CASE StartReplay
  <2>1. UNCHANGED counters /\ pc = "start"
    BY <1>10 DEF StartReplay, StartReader, counters
  <2>2. QED BY <2>1, CountersStay
<1>11. CASE SourceFails \/ EnterPoll \/ ReadLo \/ ReadHi
  <2>1. UNCHANGED counters /\ pc \in {"pop", "drain", "ready", "rdlo", "rdhi"}
    BY <1>11 DEF SourceFails, EnterPoll, ReadLo, ReadHi, counters
  <2>2. QED BY <2>1, CountersStay
<1>12. CASE PollAbort \/ NoRoom \/ WaitDone
  <2>1. UNCHANGED counters /\ pc \in {"decide", "wait"}
    BY <1>12 DEF PollAbort, NoRoom, PollOK, WaitDone, counters
  <2>2. QED BY <2>1, CountersStay
<1>13. CASE WriteStop
  <2>1. UNCHANGED counters /\ pc = "stop"
    BY <1>13 DEF WriteStop, StopReader, counters
  <2>2. QED BY <2>1, CountersStay
<1>14. CASE DeliverBeat \/ ReaderFinishes \/ OpenGate \/ SendBeat \/ HaltReplay
  <2>1. /\ UNCHANGED <<write_jobs, write_count, packet_count>>
        /\ UNCHANGED <<phase, next, ring_write, pc>>
    BY <1>14 DEF DeliverBeat, ConsumeBeat, ReaderFinishes, FinishReader, OpenGate,
                 SendBeat, HaltReplay
  <2>2. QED BY <2>1 DEF PacketsCounted
<1>15. CASE UNCHANGED vars
  BY <1>15 DEF PacketsCounted
<1>16. QED
  BY <1>1, <1>2, <1>3, <1>4, <1>5, <1>6, <1>7, <1>8, <1>9, <1>10, <1>11, <1>12,
     <1>13, <1>14, <1>15 DEF Next, HostStep, BoardStep, Terminated

\* A step before the end of the stream that leaves the end as it is.
LEMMA SealStays ==
    ASSUME Sealed, phase # "last", phase' # "last", pc' # "eof", eof' = eof,
           state' = "done" => state = "done", error' = error
    PROVE  Sealed'
BY DEF Sealed

\* A step that leaves everything as it is but pc, and moves pc only on the way out.
LEMMA SealKept ==
    ASSUME Sealed, UNCHANGED counters, state' = "done" => state = "done",
           error' = error, read_count' = read_count, pc' # "eof",
           pc' = pc \/ pc' \in {"start", "wait", "stop", "clear", "end"}
    PROVE  Sealed'
<1>1. UNCHANGED <<phase, write_jobs, pkt_count, packet_count, eof, ring_write, write_count>>
  BY DEF counters
<1>2. phase' = "last" => pc' \in {"start", "wait", "stop", "clear", "end"}
  BY <1>1 DEF Sealed
<1>3. QED BY <1>1, <1>2 DEF Sealed

LEMMA SealStep ==
    ASSUME TypeOK, LoopPosition, RingInv, PacketsCounted, Sealed, [Next]_vars
    PROVE  Sealed'
<1> USE DEF vars, consumerVars, board, ddr, replay, hostVars, source, committed,
        polled, Live
<1>1. CASE PopChunk \/ SourceFails
  <2>1. /\ phase # "last" /\ phase' # "last" /\ pc' # "eof"
        /\ UNCHANGED <<eof, state, error>>
    <3>1. phase # "last"
      BY <1>1 DEF PopChunk, SourceFails, LoopPosition
    <3>2. QED BY <1>1, <3>1 DEF PopChunk, SourceFails, Fail
  <2>2. QED BY <2>1, SealStays
<1>2. CASE TakeFront \/ WriteLo \/ WriteHi
  <2>1. phase # "last" /\ phase' = phase /\ pc' # "eof"
    <3>1. phase # "last"
      BY <1>2 DEF TakeFront, WriteLo, WriteHi, Sealed
    <3>2. QED BY <1>2, <3>1, ResumePlaces DEF TakeFront, WriteLo, WriteHi, Fail
  <2>2. UNCHANGED <<eof, state, error>>
    BY <1>2 DEF TakeFront, WriteLo, WriteHi
  <2>3. QED BY <2>1, <2>2, SealStays
<1>3. CASE EnterPoll \/ ReadLo \/ ReadHi \/ PollAbort \/ IssueJob \/ NoRoom
  <2>1. phase # "last" /\ phase' = phase /\ UNCHANGED <<eof, state, error>>
    BY <1>3 DEF EnterPoll, ReadLo, ReadHi, PollAbort, IssueJob, NoRoom, PollOK, LoopPosition
  <2>2. pc' # "eof"
    BY <1>3 DEF EnterPoll, ReadLo, ReadHi, PollAbort, IssueJob, NoRoom, Fail
  <2>3. QED BY <2>1, <2>2, SealStays
<1>4. CASE StartReplay
  <2>1. /\ UNCHANGED counters /\ pc = "start" /\ read_count' = 0 /\ read_count = 0
        /\ state' = "run" /\ pc' # "eof" /\ state = "idle" /\ ~error'
    BY <1>4, ResumePlaces, StreamAssumption
       DEF StartReplay, StartReader, LoopPosition, counters
  <2>2. phase' = "last" => pc' = "wait"
    BY <1>4, ResumePlaces DEF StartReplay
  <2>3. QED BY <2>1, <2>2 DEF Sealed, counters
<1>5. CASE WritePktCount
  <2>1. /\ phase = "drain" /\ phase' = phase /\ write_jobs' = <<>>
        /\ pkt_count' = packet_count'
        /\ UNCHANGED <<eof, state, error, read_count, ring_write, write_count>>
    BY <1>5 DEF WritePktCount, LoopPosition
  <2>2. QED BY <2>1 DEF Sealed
<1>6. CASE WriteEof
  <2>1. /\ pc' \in {"wait", "start"} /\ phase' = "last" /\ pc = "eof" /\ phase = "drain"
        /\ UNCHANGED <<write_jobs, pkt_count, packet_count, state, error, read_count>>
    BY <1>6 DEF WriteEof, RaiseEof, Sealed
  <2>2. QED BY <2>1 DEF Sealed
<1>7. CASE WaitDone
  <2>1. UNCHANGED counters /\ pc' \in {"end", "stop"} /\ UNCHANGED <<state, error, read_count>>
    BY <1>7 DEF WaitDone, Fail, counters
  <2>2. QED BY <2>1, SealKept
<1>8. CASE WriteStop
  <2>1. /\ UNCHANGED counters /\ pc' = "clear" /\ state' = "idle"
    BY <1>8 DEF WriteStop, StopReader, counters
  <2>2. QED BY <2>1 DEF Sealed, counters
<1>9. CASE WriteClear
  <2>1. /\ UNCHANGED <<write_jobs, pkt_count, packet_count, phase>>
        /\ pc' = "end" /\ ~eof' /\ state' = "idle"
    BY <1>9 DEF WriteClear, ClearRegisters, LoopPosition
  <2>2. QED BY <2>1 DEF Sealed
<1>10. ASSUME NEW j \in DOMAIN write_jobs, JobWrites(j) \/ JobFails(j)
       PROVE  Sealed'
  <2>1. write_jobs # <<>>
    <3>1. DOMAIN << >> = {}
      OBVIOUS
    <3>2. QED BY <1>10, <3>1
  <2>2. phase # "last" /\ pc # "eof"
    BY <2>1 DEF Sealed
  <2>3. UNCHANGED <<phase, pc, eof, state, error>>
    BY <1>10 DEF JobWrites, JobFails
  <2>4. QED BY <2>2, <2>3, SealStays
<1>11. CASE DeliverBeat
  <2>1. /\ UNCHANGED counters /\ pc' = pc /\ state = "run" /\ state' = "run"
    BY <1>11 DEF DeliverBeat, ConsumeBeat, counters
  <2>2. QED BY <2>1 DEF Sealed, counters
<1>12. CASE ReaderFinishes
  <2>1. /\ UNCHANGED counters /\ pc' = pc /\ state = "run" /\ error' = error
        /\ read_count' = read_count
        /\ error \/ (eof /\ read_count >= ring_write)
    BY <1>12 DEF ReaderFinishes, FinishReader, counters
  <2>2. Live /\ (eof => phase = "last")
    BY <2>1 DEF LoopPosition, Sealed
  <2>3. read_count \in Nat /\ ring_write \in Nat /\ read_count <= ring_write
    BY <2>2 DEF RingInv, PointersOrdered, TypeOK, ConsumerTypeOK
  <2>4. ~error => read_count = ring_write /\ phase = "last"
    BY <2>1, <2>2, <2>3
  <2>5. ~error => ring_write = write_count
    BY <2>2, <2>4 DEF Sealed, PacketsCounted
  <2>6. QED BY <2>1, <2>4, <2>5 DEF Sealed, counters
<1>13. CASE OpenGate \/ SendBeat \/ HaltReplay \/ UNCHANGED vars
  <2>1. UNCHANGED counters /\ UNCHANGED <<pc, state, error, read_count>>
    BY <1>13 DEF OpenGate, SendBeat, HaltReplay, counters
  <2>2. QED BY <2>1 DEF Sealed, counters
<1>14. QED
  BY <1>1, <1>2, <1>3, <1>4, <1>5, <1>6, <1>7, <1>8, <1>9, <1>10, <1>11, <1>12, <1>13
     DEF Next, HostStep, BoardStep, Terminated

\* The packets that have left, as replay_done counts them, are whole ones.
LEMMA WholePackets ==
    ASSUME NEW n \in Nat, NEW k \in Nat \ {0}, NEW p \in Nat,
           p = 0 \/ n \div k >= p
    PROVE  n >= p * k
<1> DEFINE q == n \div k
<1>1. q \in Nat /\ n % k \in Nat /\ n = q * k + (n % k)
  <2>1. q \in Nat /\ n % k \in 0..(k - 1) /\ n = q * k + (n % k)
    BY DivMod
  <2> HIDE DEF q
  <2>2. QED BY <2>1
<1> HIDE DEF q
<1>2. CASE p = 0
  <2>1. 0 * k = 0
    OBVIOUS
  <2>2. p * k = 0
    BY <1>2, <2>1, Zenon
  <2>3. QED BY <2>2
<1>3. CASE q >= p
  <2>1. PICK d \in Nat : q = p + d
    <3>1. q - p \in Nat /\ q = p + (q - p)
      BY <1>1, <1>3
    <3>2. QED BY <3>1
  <2>2. q * k = p * k + d * k
    <3>1. k \in Nat
      OBVIOUS
    <3>2. (p + d) * k = p * k + d * k
      BY <3>1, Proportion
    <3>3. QED BY <2>1, <3>2, Zenon
  <2>3. p * k \in Nat /\ d * k \in Nat
    BY <2>1
  <2>4. QED BY <1>1, <2>2, <2>3
<1>4. QED BY <1>2, <1>3

\* When wait_done returns, everything that was committed has left.
LEMMA WaitDoneStep ==
    ASSUME TypeOK, LoopPosition, PacketsCounted, Sealed, Departed, Delivered, WaitDone
    PROVE  Departed'
<1>1. /\ UNCHANGED <<sent, read_count, got, replay_running, state, error>>
      /\ pc = "wait" /\ Live
  BY DEF WaitDone, consumerVars, board, ddr, replay, Live
<1>2. CASE outcome' # "completed"
  BY <1>1, <1>2 DEF Departed
<1>3. CASE outcome' = "completed"
  <2>1. ReplayDone /\ ~replay_running /\ pc' = "end"
    BY <1>3 DEF WaitDone, Fail
  <2>2. ASSUME ~error PROVE sent = read_count
    <3>1. /\ state = "done" /\ (pkt_count = 0 \/ sent \div PktBeats >= pkt_count)
      BY <2>1, <2>2 DEF ReplayDone
    <3>2. /\ read_count = write_count /\ pkt_count = packet_count
      BY <2>2, <3>1 DEF Sealed
    <3>3. /\ sent \in Nat /\ pkt_count \in Nat /\ read_count \in Nat
          /\ PktBeats \in Nat \ {0}
      BY ConstantTypes DEF TypeOK, ConsumerTypeOK
    <3>4. sent >= pkt_count * PktBeats
      BY <3>1, <3>3, WholePackets
    <3>5. read_count = pkt_count * PktBeats
      BY <3>2, Zenon DEF PacketsCounted
    <3>6. sent >= read_count
      BY <3>4, <3>5, Zenon
    <3>7. sent <= read_count
      BY DEF Departed
    <3>8. QED BY <3>3, <3>6, <3>7
  <2>3. Len(got) = read_count
    BY <1>1 DEF Delivered
  <2>4. state = "done"
    BY <2>1 DEF ReplayDone
  <2>5. QED BY <1>1, <2>1, <2>2, <2>3, <2>4 DEF Departed
<1>4. QED BY <1>2, <1>3

LEMMA DepartedStep ==
    ASSUME TypeOK, LoopPosition, PacketsCounted, Sealed, Departed, Delivered, [Next]_vars
    PROVE  Departed'
<1> USE DEF vars, consumerVars, board, ddr, replay, hostVars, source, committed, polled
<1>1. CASE WaitDone
  BY <1>1, WaitDoneStep
<1>2. ASSUME pc # "end", outcome' # "completed", sent' <= read_count' PROVE Departed'
  BY <1>2 DEF Departed
<1>3. /\ sent <= read_count /\ (pc # "end" => outcome # "completed")
      /\ sent \in Nat /\ read_count \in Nat
  BY DEF Departed, TypeOK, ConsumerTypeOK
<1>4. CASE PopChunk \/ SourceFails \/ TakeFront \/ WriteLo \/ WriteHi
  <2>1. pc # "end" /\ sent' = sent /\ read_count' = read_count
    BY <1>4 DEF PopChunk, SourceFails, TakeFront, WriteLo, WriteHi
  <2>2. outcome' # "completed"
    BY <1>3, <1>4, <2>1 DEF PopChunk, SourceFails, TakeFront, WriteLo, WriteHi, Fail
  <2>3. QED BY <1>2, <1>3, <2>1, <2>2
<1>5. CASE EnterPoll \/ ReadLo \/ ReadHi \/ PollAbort \/ IssueJob \/ NoRoom
  <2>1. pc # "end" /\ sent' = sent /\ read_count' = read_count
    BY <1>5 DEF EnterPoll, ReadLo, ReadHi, PollAbort, IssueJob, NoRoom, PollOK
  <2>2. outcome' # "completed"
    BY <1>3, <1>5, <2>1 DEF EnterPoll, ReadLo, ReadHi, PollAbort, IssueJob, NoRoom, Fail
  <2>3. QED BY <1>2, <1>3, <2>1, <2>2
<1>6. CASE StartReplay
  <2>1. /\ pc # "end" /\ sent' = sent /\ read_count' = 0 /\ read_count = 0
        /\ outcome' = outcome
    BY <1>6 DEF StartReplay, StartReader, LoopPosition, Live
  <2>2. QED BY <1>2, <1>3, <2>1
<1>7. CASE WritePktCount \/ WriteEof
  <2>1. pc # "end" /\ sent' = sent /\ read_count' = read_count /\ outcome' = outcome
    BY <1>7 DEF WritePktCount, WriteEof, RaiseEof
  <2>2. QED BY <1>2, <1>3, <2>1
<1>8. CASE WriteStop \/ WriteClear
  <2>1. pc # "end" /\ outcome' = outcome
    BY <1>8 DEF WriteStop, WriteClear
  <2>2. sent' <= read_count'
    <3>1. CASE WriteStop
      <4>1. sent' = 0 /\ read_count' = 0
        BY <3>1 DEF WriteStop, StopReader
      <4>2. QED BY <4>1
    <3>2. CASE WriteClear
      <4>1. sent' = sent /\ read_count' = read_count
        BY <3>2 DEF WriteClear, ClearRegisters
      <4>2. QED BY <1>3, <4>1
    <3>3. QED BY <1>8, <3>1, <3>2
  <2>3. QED BY <1>2, <1>3, <2>1, <2>2
<1>9. CASE DeliverBeat
  <2>1. /\ state = "run" /\ sent' = sent /\ read_count' = read_count + 1
        /\ outcome' = outcome
    BY <1>9 DEF DeliverBeat, ConsumeBeat
  <2>2. outcome # "completed" /\ sent' <= read_count'
    BY <1>3, <2>1 DEF Departed
  <2>3. QED BY <2>1, <2>2 DEF Departed
<1>10. CASE SendBeat
  <2>1. /\ replay_running /\ sent < read_count /\ sent' = sent + 1
        /\ read_count' = read_count /\ outcome' = outcome
    BY <1>10 DEF SendBeat
  <2>2. outcome # "completed" /\ sent' <= read_count'
    BY <1>3, <2>1 DEF Departed
  <2>3. QED BY <2>1, <2>2 DEF Departed
<1>11. CASE ReaderFinishes \/ OpenGate \/ HaltReplay \/ UNCHANGED vars
  <2>1. /\ UNCHANGED <<sent, read_count, got, outcome, pc, error>>
        /\ replay_running' => replay_running
        /\ state = "done" => state' = "done"
    BY <1>11 DEF ReaderFinishes, FinishReader, OpenGate, HaltReplay
  <2>2. QED BY <2>1 DEF Departed
<1>12. CASE \E j \in DOMAIN write_jobs : JobWrites(j) \/ JobFails(j)
  <2>1. UNCHANGED <<sent, read_count, got, outcome, pc, error, replay_running, state>>
    BY <1>12 DEF JobWrites, JobFails
  <2>2. QED BY <2>1 DEF Departed
<1>13. QED
  BY <1>1, <1>4, <1>5, <1>6, <1>7, <1>8, <1>9, <1>10, <1>11, <1>12
     DEF Next, HostStep, BoardStep, Terminated

\* How the end of the stream looks to registers, reader and loader.
THEOREM EndAccounted ==
    ASSUME Capacity <= Word
    PROVE  Spec => []EndInv
<1>1. Init => PacketsCounted /\ Sealed /\ Departed /\ Delivered
  <2>1. DOMAIN << >> = {} /\ Len(<< >>) = 0
    OBVIOUS
  <2>2. Init => Delivered
    BY <2>1 DEF Init, ConsumerInit, Delivered, InOrderDelivery
  <2>3. QED BY <2>2, PacketsCountedInit
<1>2. SafeInv /\ PacketsCounted /\ Sealed /\ Departed /\ Delivered /\ [Next]_vars
        => (PacketsCounted /\ Sealed /\ Departed /\ Delivered)'
  BY CountStep, SealStep, DepartedStep, DeliveredStep DEF SafeInv, RingInv
<1>3. PacketsCounted /\ Sealed /\ Departed => EndInv
  BY DEF EndInv
<1>4. QED BY <1>1, <1>2, <1>3, RingSafe, PTL DEF Spec

\* The reader only finishes a stream that was committed to its end, and then
\* cfg_pkt_count is the number of its packets.
THEOREM DoneAlwaysMeansAll ==
    ASSUME Capacity <= Word
    PROVE  Spec => []DoneMeansAll
<1>1. SafeInv /\ EndInv => DoneMeansAll
  <2> SUFFICES ASSUME SafeInv, EndInv, state = "done", ~error
               PROVE  /\ next > Len(Chunks) /\ read_count = reserved_count
                      /\ PktBeats * pkt_count = reserved_count
    BY DEF DoneMeansAll
  <2>1. /\ phase = "last" /\ read_count = write_count
        /\ write_jobs = <<>> /\ pkt_count = packet_count
    BY DEF EndInv, Sealed
  <2>2. next > Len(Chunks) /\ write_count = packet_count * PktBeats
    BY <2>1 DEF EndInv, PacketsCounted
  <2>3. write_count = reserved_count
    BY <2>1 DEF SafeInv, JobsTile, Tile
  <2>4. PktBeats * packet_count = packet_count * PktBeats
    BY ConstantTypes DEF SafeInv, TypeOK
  <2>5. QED BY <2>1, <2>2, <2>3, <2>4, Zenon
<1>2. QED BY <1>1, RingSafe, EndAccounted, PTL

\* A loader that ends as completed, with no error bit, has sent every beat.
THEOREM CompletedAlwaysMeansSent ==
    ASSUME Capacity <= Word
    PROVE  Spec => []CompletedMeansSent
<1>1. DoneMeansAll /\ EndInv => CompletedMeansSent
  BY DEF DoneMeansAll, CompletedMeansSent, EndInv, Departed
<1>2. QED BY <1>1, DoneAlwaysMeansAll, EndAccounted, PTL

-----------------------------------------------------------------------------
(* Why the loader gives up.                                                *)

\* What PollAbort reports about the pointer can only be wrong once the
\* counter has carried; the reason stays there until the board is stopped.
CauseInv ==
    /\ AbortHasCause
    /\ pc = "decide" => rd <= read_count \/ read_count >= Word

\* A step of the board or of another part of the loader, which leaves what
\* has been read and decided.
LEMMA CauseKept ==
    ASSUME CauseInv, ConsumerTypeOK, rd \in Nat,
           pc' = pc \/ pc' \notin {"stop", "decide"},
           pc' = pc => /\ UNCHANGED <<rd, outcome>>
                       /\ read_count' = read_count \/ read_count' = read_count + 1
                       /\ error => error'
    PROVE  CauseInv'
<1>1. CASE pc' \notin {"stop", "decide"}
  BY <1>1 DEF CauseInv, AbortHasCause
<1>2. CASE pc' = pc
  <2>1. /\ UNCHANGED <<rd, outcome>> /\ (error => error')
        /\ read_count \in Nat /\ (read_count' = read_count \/ read_count' = read_count + 1)
    BY <1>2 DEF ConsumerTypeOK
  <2>2. Word \in Nat
    BY ConstantTypes
  <2>3. AbortHasCause'
    <3>1. read_count >= Word => read_count' >= Word
      BY <2>1, <2>2
    <3>2. QED BY <1>2, <2>1, <3>1, Zenon DEF CauseInv, AbortHasCause
  <2>4. pc' = "decide" => rd' <= read_count' \/ read_count' >= Word
    BY <1>2, <2>1, <2>2 DEF CauseInv
  <2>5. QED BY <2>3, <2>4 DEF CauseInv
<1>3. QED BY <1>1, <1>2

\* The decision itself.
LEMMA PollAbortCause ==
    ASSUME SafeInv, CauseInv, PollAbort
    PROVE  CauseInv'
<1>1. pc = "decide" /\ pc' = "stop" /\ UNCHANGED <<read_count, error>>
  BY DEF PollAbort, Fail, consumerVars
<1>2. outcome' = "stream ring error" => error
  <2>1. state = "run" => PointerOK
    BY ConstantTypes DEF SafeInv, PointerOK, PointersOrdered, LoopPosition, Live, TypeOK,
       ConsumerTypeOK
  <2>2. QED BY <2>1 DEF PollAbort, Fail, StreamFatal
<1>3. outcome' = "read pointer advanced past write pointer" => read_count >= Word
  <2>1. SUFFICES ASSUME rd > write_count PROVE read_count >= Word
    BY DEF PollAbort, Fail
  <2>2. rd <= read_count \/ read_count >= Word
    BY <1>1 DEF CauseInv
  <2>3. read_count <= ring_write /\ ring_write <= write_count
    BY <1>1 DEF SafeInv, PointersOrdered, Live
  <2>4. /\ rd \in Nat /\ read_count \in Nat /\ ring_write \in Nat /\ write_count \in Nat
    BY DEF SafeInv, TypeOK, ConsumerTypeOK
  <2>5. QED BY <2>1, <2>2, <2>3, <2>4
<1>4. QED BY <1>1, <1>2, <1>3 DEF CauseInv, AbortHasCause

\* What read64 puts together while the counter fits in one word.
LEMMA ReadHiCause ==
    ASSUME SafeInv, ReadHi
    PROVE  CauseInv'
<1>1. pc = "rdhi" /\ pc' = "decide" /\ rd' = (read_count \div Word) * Word + rd_lo
      /\ read_count' = read_count
  BY DEF ReadHi, consumerVars
<1>2. PICK r \in 0..read_count : rd_lo = r % Word
  BY <1>1 DEF SafeInv, PollSound
<1>3. r \in Nat /\ r <= read_count /\ read_count \in Nat /\ Word \in Nat \ {0}
  BY ConstantTypes DEF SafeInv, TypeOK, ConsumerTypeOK
<1>4. read_count < Word => rd' = r
  BY <1>1, <1>2, <1>3, LowRead
<1>5. rd' <= read_count' \/ read_count' >= Word
  BY <1>1, <1>3, <1>4
<1>6. QED BY <1>1, <1>5 DEF CauseInv, AbortHasCause

LEMMA CauseStep == SafeInv /\ CauseInv /\ [Next]_vars => CauseInv'
<1> SUFFICES ASSUME SafeInv, CauseInv, [Next]_vars PROVE CauseInv'
  OBVIOUS
<1>0. ConsumerTypeOK /\ rd \in Nat
  BY DEF SafeInv, TypeOK
<1>1. CASE PollAbort
  BY <1>1, PollAbortCause
<1>2. CASE ReadHi
  BY <1>2, ReadHiCause
<1>3. CASE PopChunk \/ SourceFails \/ TakeFront \/ EnterPoll \/ WaitDone
  <2>1. \/ pc' \notin {"stop", "decide"}
        \/ /\ pc' = "stop"
           /\ outcome' \in {"chunk too large", "bad source", "H2C write failed",
                            "feed timeout", "replay timeout"}
    BY <1>3 DEF PopChunk, SourceFails, TakeFront, EnterPoll, WaitDone, Fail
  <2>2. QED BY <2>1 DEF CauseInv, AbortHasCause
<1>4. CASE \/ WriteLo \/ WriteHi \/ StartReplay \/ ReadLo \/ IssueJob \/ NoRoom
           \/ WritePktCount \/ WriteEof \/ WriteStop \/ WriteClear
  <2>1. pc' \notin {"stop", "decide"}
    <3>1. Resume \notin {"stop", "decide"}
      BY ResumePlaces DEF SafeInv, TypeOK
    <3>2. QED BY <1>4, <3>1 DEF WriteLo, WriteHi, StartReplay, ReadLo, IssueJob, NoRoom,
                   WritePktCount, WriteEof, WriteStop, WriteClear
  <2>2. QED BY <2>1 DEF CauseInv, AbortHasCause
<1>5. CASE DeliverBeat
  <2>1. UNCHANGED <<pc, rd, outcome>>
    BY <1>5, Zenon DEF DeliverBeat, hostVars, polled
  <2>2. read_count' = read_count + 1 /\ (error => error')
    BY <1>5 DEF DeliverBeat, ConsumeBeat
  <2>3. QED BY <1>0, <2>1, <2>2, CauseKept
<1>6. CASE ReaderFinishes \/ OpenGate \/ SendBeat \/ HaltReplay \/ UNCHANGED vars
  <2>1. UNCHANGED <<pc, rd, outcome, read_count, error>>
    BY <1>6 DEF ReaderFinishes, FinishReader, OpenGate, SendBeat, HaltReplay, vars, hostVars,
       polled, consumerVars
  <2>2. QED BY <1>0, <2>1, CauseKept
<1>7. CASE \E j \in DOMAIN write_jobs : JobWrites(j) \/ JobFails(j)
  <2>1. UNCHANGED <<pc, rd, outcome, read_count, error>>
    BY <1>7 DEF JobWrites, JobFails, polled, consumerVars
  <2>2. QED BY <1>0, <2>1, CauseKept
<1>8. QED
  BY <1>1, <1>2, <1>3, <1>4, <1>5, <1>6, <1>7 DEF Next, HostStep, BoardStep, Terminated

\* The loader does not give up a board that is well (check_stream_status and
\* the comparison of the pointers, in the feeding loop of main).
THEOREM AbortAlwaysHasCause ==
    ASSUME Capacity <= Word
    PROVE  Spec => []AbortHasCause
<1>1. Init => CauseInv
  BY DEF Init, CauseInv, AbortHasCause
<1>2. SafeInv /\ CauseInv /\ [Next]_vars => CauseInv'
  BY CauseStep
<1>3. CauseInv => AbortHasCause
  BY DEF CauseInv
<1>4. QED BY <1>1, <1>2, <1>3, RingSafe, PTL DEF Spec
=============================================================================
