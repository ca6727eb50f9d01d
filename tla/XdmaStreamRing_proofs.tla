----------------------- MODULE XdmaStreamRing_proofs ------------------------
(***************************************************************************)
(* The ring stays sound over any number of sessions of the loader, each of *)
(* which may end or be killed anywhere: for every ring size, guard, set of *)
(* stream files and register word that counts at least one ring.           *)
(***************************************************************************)
EXTENDS XdmaStreamRing, ModLemmas, SequenceTheorems, FiniteSetTheorems

\* What the constants are.
LEMMA ConstantTypes ==
    /\ Ring \in Nat \ {0} /\ Word \in Nat \ {0} /\ ~PingPong
    /\ Guard \in Nat \ {0} /\ Guard < Ring /\ Prefill \in Nat
    /\ Streams \subseteq [records : Files, whole : BOOLEAN, manifest : Nat]
  BY RingAssumption, XdmaAssumption

\* The numbers among them.
LEMMA Sizes ==
    /\ Ring \in Nat /\ Word \in Nat /\ Guard \in Nat
    /\ Ring > 0 /\ Word > 0 /\ Guard > 0
  BY ConstantTypes

\* Zero is a register word.
LEMMA ZeroWord == 0 \in 0..(Word - 1)
  BY ConstantTypes

\* This loader fills one ring.
LEMMA OneRing == Capacity = Ring /\ RingSizeValid
  BY ConstantTypes, Zenon DEF Capacity, RingSizeValid

\* Where the records of a file end.
LEMMA RecordEnds ==
    ASSUME NEW ends \in Files, NEW n \in Nat, n < Len(ends)
    PROVE  /\ ends[n + 1] \in Nat \ {0}
           /\ n > 0 => ends[n] \in Nat /\ ends[n] < ends[n + 1]
<1>1. ends \in Seq(Nat \ {0}) /\ \A i \in 2..Len(ends) : ends[i - 1] < ends[i]
  BY DEF Files
<1>2. n + 1 \in 1..Len(ends) /\ (n > 0 => n \in 1..Len(ends))
  BY <1>1
<1>3. ends[n + 1] \in Nat \ {0} /\ (n > 0 => ends[n] \in Nat)
  BY <1>1, <1>2
<1>4. ASSUME n > 0 PROVE ends[n] < ends[n + 1]
  <2>1. n + 1 \in 2..Len(ends) /\ (n + 1) - 1 = n
    BY <1>1, <1>4
  <2>2. QED BY <1>1, <2>1
<1>5. QED BY <1>3, <1>4

\* A file without records.
LEMMA NoRecords == <<>> \in Files
<1>1. <<>> \in Seq(Nat \ {0}) /\ Len(<<>>) = 0
  BY EmptySeq
<1>2. QED BY <1>1 DEF Files

\* A waiting record has a positive number of beats, and ends where they do.
LEMMA PendingPositive ==
    ASSUME TypeOK, HasRecord
    PROVE  /\ Pending \in Nat \ {0}
           /\ BeatsOf(stream, packet_count + 1) = BeatsOf(stream, packet_count) + Pending
<1>1. stream \in Files /\ packet_count \in Nat /\ packet_count < Len(stream)
  BY DEF TypeOK, HasRecord
<1>2. BeatsOf(stream, packet_count + 1) \in Nat \ {0}
  BY <1>1, RecordEnds DEF BeatsOf
<1>3. /\ BeatsOf(stream, packet_count) \in Nat
      /\ BeatsOf(stream, packet_count) < BeatsOf(stream, packet_count + 1)
  <2>1. CASE packet_count = 0
    BY <1>2, <2>1 DEF BeatsOf
  <2>2. CASE packet_count # 0
    <3>1. packet_count \in Nat \ {0}
      BY <1>1, <2>2
    <3>2. /\ stream[packet_count] \in Nat
          /\ stream[packet_count] < stream[packet_count + 1]
      BY <1>1, <3>1, RecordEnds
    <3>3. packet_count + 1 # 0
      BY <3>1
    <3>4. QED BY <3>2, <3>3, <2>2 DEF BeatsOf
  <2>3. QED BY <2>1, <2>2
<1>4. Pending = BeatsOf(stream, packet_count + 1) - BeatsOf(stream, packet_count)
  BY DEF Pending
<1>5. QED
  <2>1. \A a, b \in Nat : a < b => b - a \in Nat \ {0} /\ b = a + (b - a)
    OBVIOUS
  <2>2. QED BY <1>2, <1>3, <1>4, <2>1

\* The ring slot of a beat, written or read.
LEMMA SlotTypes ==
    ASSUME TypeOK, NEW n \in Nat
    PROVE  /\ n % Ring \in 0..(Ring - 1)
           /\ mem[n % Ring] \in Nat \X Nat
           /\ \A beat \in Nat \X Nat :
                 [mem EXCEPT ![n % Ring] = beat] \in [0..(Ring - 1) -> Nat \X Nat]
<1>1. n % Ring \in 0..(Ring - 1)
  BY DivMod, ConstantTypes
<1>2. mem \in [0..(Ring - 1) -> Nat \X Nat]
  BY DEF TypeOK
<1>3. QED BY <1>1, <1>2

-----------------------------------------------------------------------------
(* Types.                                                                  *)

LEMMA TypeInit == Init => TypeOK
<1>1. SUFFICES ASSUME Init PROVE TypeOK
  OBVIOUS
<1>2. mem \in [0..(Ring - 1) -> Nat \X Nat]
  BY <1>1 DEF Init, NoBeat
<1>3. got \in Seq(Nat \X Nat) /\ stream \in Files
  BY <1>1, EmptySeq, NoRecords DEF Init
<1>4. playing \in [session : Nat, records : Files]
  BY <1>1, NoRecords DEF Init, NoReplay
<1>5. QED
  BY <1>1, <1>2, <1>3, <1>4, ZeroWord DEF Init, TypeOK, ConsumerInit, ConsumerTypeOK, Outcomes

LEMMA TypeStep == TypeOK /\ WritePointers /\ [Next]_vars => TypeOK'
<1> SUFFICES ASSUME TypeOK, WritePointers, [Next]_vars PROVE TypeOK'
  OBVIOUS
<1> USE DEF vars, consumerVars, registers, replay, board, input, counts, polled,
        process, quiet
<1>1. CASE Launch
  <2>1. PICK file \in Streams :
           stream' = file.records /\ whole' = file.whole /\ manifest_packets' = file.manifest
    BY <1>1 DEF Launch
  <2>2. file \in [records : Files, whole : BOOLEAN, manifest : Nat]
    BY ConstantTypes
  <2>3. stream' \in Files /\ whole' \in BOOLEAN /\ manifest_packets' \in Nat
    BY <2>1, <2>2, Zenon
  <2>4. /\ session' \in Nat /\ pc' = "halt" /\ outcome' \in Outcomes
        /\ write_count' = 0 /\ packet_count' = 0 /\ copied' = 0
        /\ rd_lo' \in 0..(Word - 1) /\ rd' = 0
    <3>1. /\ session' = session + 1 /\ pc' = "halt" /\ outcome' = ""
          /\ write_count' = 0 /\ packet_count' = 0 /\ copied' = 0 /\ rd_lo' = 0 /\ rd' = 0
      BY <1>1, Zenon DEF Launch
    <3>2. rd_lo' \in 0..(Word - 1) /\ outcome' \in Outcomes
      BY <3>1, ZeroWord DEF Outcomes
    <3>3. session' \in Nat
      <4>1. session \in Nat
        BY DEF TypeOK
      <4>2. session + 1 \in Nat
        BY <4>1
      <4>3. QED BY <3>1, <4>2, Zenon
    <3>4. QED BY <3>1, <3>2, <3>3
  <2>5. started' = FALSE /\ UNCHANGED <<consumerVars, board>>
    BY <1>1, Zenon DEF Launch
  <2>6. QED BY <2>3, <2>4, <2>5 DEF TypeOK, ConsumerTypeOK
<1>2. CASE ConfigureStop \/ AbortStop
  <2>1. StopPulse /\ UNCHANGED <<counts, started, copied, polled, outcome>>
    BY <1>2, Zenon DEF ConfigureStop, AbortStop
  <2>2. playing' \in [session : Nat, records : Files]
    <3>1. NoReplay \in [session : Nat, records : Files]
      BY NoRecords DEF NoReplay
    <3>2. QED BY <2>1, <3>1, Zenon DEF StopPulse
  <2>3. got' \in Seq(Nat \X Nat)
    BY <2>1, EmptySeq, Zenon DEF StopPulse
  <2>4. pc' \in {"wipe", "clear"}
    BY <1>2 DEF ConfigureStop, AbortStop
  <2>5. /\ state' = "idle" /\ read_count' = 0 /\ sent' = 0
        /\ UNCHANGED <<ring_write, eof, mem, registers, input>>
    BY <2>1, Zenon DEF StopPulse, StopReader
  <2>6. error' \in BOOLEAN /\ replay_running' \in BOOLEAN
    BY <2>1, Zenon DEF StopPulse, StopReader
  <2>7. QED BY <2>1, <2>2, <2>3, <2>4, <2>5, <2>6 DEF TypeOK, ConsumerTypeOK
<1>3. CASE ConfigureClear \/ AbortClear
  <2>1. ClearPulse /\ UNCHANGED <<counts, started, copied, polled, outcome>>
    BY <1>3, Zenon DEF ConfigureClear, AbortClear
  <2>2. pc' \in {"setup", "idle"}
    BY <1>3 DEF ConfigureClear, AbortClear
  <2>3. QED BY <2>1, <2>2, ZeroWord DEF ClearPulse, ClearRegisters, TypeOK, ConsumerTypeOK
<1>4. CASE ConfigureRegisters
  BY <1>4, ZeroWord DEF ConfigureRegisters, TypeOK, ConsumerTypeOK
<1>5. CASE TakeRecord \/ EndOfFile \/ PollAbort \/ Interrupted
  <2>1. pc' \in {"stop", "rdlo", "pkt"} /\ outcome' \in Outcomes
    BY <1>5 DEF TakeRecord, EndOfFile, PollAbort, Interrupted, Fail, TypeOK, Outcomes
  <2>2. UNCHANGED <<quiet, counts, started, copied, polled>>
    BY <1>5 DEF TakeRecord, EndOfFile, PollAbort, Interrupted
  <2>3. QED BY <2>1, <2>2 DEF TypeOK, ConsumerTypeOK
<1>6. CASE WritePktCount
  BY <1>6 DEF WritePktCount, TypeOK, ConsumerTypeOK
<1>7. CASE WriteEof
  BY <1>7 DEF WriteEof, RaiseEof, TypeOK, ConsumerTypeOK
<1>8. CASE StartReplay
  <2>1. playing' \in [session : Nat, records : Files] /\ got' \in Seq(Nat \X Nat)
    BY <1>8, EmptySeq DEF StartReplay, TypeOK
  <2>2. pc' \in {"wait", "next"}
    BY <1>8 DEF StartReplay
  <2>3. QED BY <1>8, <2>1, <2>2 DEF StartReplay, StartReader, TypeOK, ConsumerTypeOK
<1>9. CASE ReadLo
  <2>1. read_count % Word \in 0..(Word - 1)
    BY DivMod, ConstantTypes DEF TypeOK, ConsumerTypeOK
  <2>2. QED BY <1>9, <2>1 DEF ReadLo, TypeOK, ConsumerTypeOK
<1>10. CASE ReadHi
  <2>1. (read_count \div Word) * Word + rd_lo \in Nat
    <3>1. read_count \div Word \in Nat
      BY DivMod, ConstantTypes DEF TypeOK, ConsumerTypeOK
    <3>2. rd_lo \in Nat /\ Word \in Nat
      BY ConstantTypes DEF TypeOK
    <3>3. QED BY <3>1, <3>2, WordsJoin
  <2>2. QED BY <1>10, <2>1 DEF ReadHi, TypeOK, ConsumerTypeOK
<1>11. CASE Room \/ NoRoom
  <2>1. pc' \in {"copy", "start", "next"} /\ copied' \in Nat
    BY <1>11 DEF Room, NoRoom, TypeOK
  <2>2. UNCHANGED <<quiet, counts, started, polled, outcome>>
    BY <1>11 DEF Room, NoRoom
  <2>3. QED BY <2>1, <2>2 DEF TypeOK, ConsumerTypeOK
<1>12. CASE CopyBeat
  <2>1. write_count + copied \in Nat /\ <<session, write_count + copied>> \in Nat \X Nat
    BY DEF TypeOK
  <2>2. mem' \in [0..(Ring - 1) -> Nat \X Nat]
    BY <1>12, <2>1, SlotTypes DEF CopyBeat
  <2>3. QED BY <1>12, <2>2 DEF CopyBeat, TypeOK, ConsumerTypeOK
<1>13. CASE WriteLo
  <2>1. Pending \in Nat \ {0}
    BY <1>13, PendingPositive DEF WriteLo, WritePointers
  <2>2. write_count' \in Nat /\ packet_count' \in Nat
    BY <1>13, <2>1 DEF WriteLo, TypeOK
  <2>3. write_count' % Word \in 0..(Word - 1)
    BY <2>2, DivMod, ConstantTypes
  <2>4. QED BY <1>13, <2>2, <2>3 DEF WriteLo, TypeOK, ConsumerTypeOK
<1>14. CASE WriteHi
  <2>1. (write_count \div Word) * Word + write_shadow \in Nat
    <3>1. write_count \div Word \in Nat
      BY DivMod, ConstantTypes DEF TypeOK
    <3>2. write_shadow \in Nat /\ Word \in Nat
      BY ConstantTypes DEF TypeOK
    <3>3. QED BY <3>1, <3>2, WordsJoin
  <2>2. pc' \in {"start", "next"}
    BY <1>14 DEF WriteHi
  <2>3. QED BY <1>14, <2>1, <2>2 DEF WriteHi, TypeOK, ConsumerTypeOK
<1>15. CASE Finish \/ Kill
  <2>1. pc' = "idle" /\ outcome' \in Outcomes
    BY <1>15 DEF Finish, Kill, Outcomes
  <2>2. UNCHANGED <<quiet, counts, started, copied, polled>>
    BY <1>15 DEF Finish, Kill
  <2>3. QED BY <2>1, <2>2 DEF TypeOK, ConsumerTypeOK
<1>16. CASE DeliverBeat
  <2>1. got' \in Seq(Nat \X Nat)
    <3>1. got \in Seq(Nat \X Nat) /\ read_count \in Nat
      BY DEF TypeOK, ConsumerTypeOK
    <3>2. mem[read_count % Ring] \in Nat \X Nat
      BY <3>1, SlotTypes
    <3>3. got' = Append(got, mem[read_count % Ring])
      BY <1>16, Zenon DEF DeliverBeat
    <3>4. QED BY <3>1, <3>2, <3>3, AppendProperties
  <2>2. QED BY <1>16, <2>1 DEF DeliverBeat, ConsumeBeat, TypeOK, ConsumerTypeOK
<1>17. CASE ReaderFinishes
  BY <1>17 DEF ReaderFinishes, FinishReader, TypeOK, ConsumerTypeOK
<1>18. CASE SendBeat
  BY <1>18 DEF SendBeat, TypeOK, ConsumerTypeOK
<1>19. CASE HaltReplay
  <2>1. /\ UNCHANGED <<consumerVars, mem, got, registers, sent, playing, input, process>>
        /\ replay_running' = FALSE
    BY <1>19, Zenon DEF HaltReplay
  <2>2. QED BY <2>1, ZenonT(60) DEF TypeOK, ConsumerTypeOK
<1>20. CASE UNCHANGED vars
  BY <1>20 DEF TypeOK, ConsumerTypeOK
<1>21. QED
  BY <1>1, <1>2, <1>3, <1>4, <1>5, <1>6, <1>7, <1>8, <1>9, <1>10, <1>11, <1>12, <1>13,
     <1>14, <1>15, <1>16, <1>17, <1>18, <1>19, <1>20
     DEF Next, ProcessStep, BoardStep, AtRest

-----------------------------------------------------------------------------
(* Who owns the reader.                                                    *)

LEMMA OwnedStep == TypeOK /\ ReaderOwned /\ [Next]_vars => ReaderOwned'
<1> SUFFICES ASSUME TypeOK, ReaderOwned, [Next]_vars PROVE ReaderOwned'
  OBVIOUS
<1> USE DEF vars, consumerVars, registers, replay, board, input, counts, polled,
        process, quiet, Feeding, ReaderOwned
<1>1. CASE Launch
  <2>1. /\ pc' = "halt" /\ started' = FALSE /\ state' = state /\ read_count' = read_count
    BY <1>1, Zenon DEF Launch
  <2>2. QED BY <2>1
<1>2. CASE ConfigureStop \/ AbortStop
  <2>1. /\ pc' \in {"wipe", "clear"} /\ state' = "idle" /\ read_count' = 0
        /\ started' = started /\ (pc' = "wipe" => pc = "halt")
    BY <1>2 DEF ConfigureStop, AbortStop, StopPulse, StopReader
  <2>2. QED BY <2>1
<1>3. CASE ConfigureClear \/ AbortClear
  BY <1>3 DEF ConfigureClear, AbortClear, ClearPulse, ClearRegisters
<1>4. CASE ConfigureRegisters
  <2>1. /\ pc = "setup" /\ pc' = "next" /\ UNCHANGED <<started, state, read_count>>
    BY <1>4, Zenon DEF ConfigureRegisters
  <2>2. QED BY <2>1
<1>5. CASE TakeRecord \/ EndOfFile \/ PollAbort \/ Interrupted
  <2>1. UNCHANGED <<quiet, started>>
    BY <1>5, Zenon DEF TakeRecord, EndOfFile, PollAbort, Interrupted
  <2>2. pc' = "stop" \/ (pc = "next" /\ pc' \in {"rdlo", "pkt"})
    BY <1>5 DEF TakeRecord, EndOfFile, PollAbort, Interrupted, Fail
  <2>3. QED BY <2>1, <2>2
<1>6. CASE WritePktCount \/ WriteEof
  BY <1>6 DEF WritePktCount, WriteEof, RaiseEof
<1>7. CASE StartReplay
  <2>1. playing'.session = session
    BY <1>7 DEF StartReplay
  <2>2. /\ pc' \in {"wait", "next"} /\ started' /\ read_count' = 0 /\ session' = session
    BY <1>7 DEF StartReplay, StartReader
  <2>3. QED BY <2>1, <2>2
<1>8. CASE ReadLo \/ ReadHi \/ Room \/ NoRoom
  BY <1>8 DEF ReadLo, ReadHi, Room, NoRoom, PollOK
<1>9. CASE CopyBeat \/ WriteLo \/ WriteHi
  BY <1>9 DEF CopyBeat, WriteLo, WriteHi
<1>10. CASE Finish \/ Kill
  BY <1>10 DEF Finish, Kill
<1>11. CASE DeliverBeat \/ ReaderFinishes
  BY <1>11 DEF DeliverBeat, ConsumeBeat, ReaderFinishes, FinishReader
<1>12. CASE SendBeat \/ HaltReplay \/ UNCHANGED vars
  <2>1. UNCHANGED <<pc, started, state, read_count, playing, session>>
    BY <1>12, Zenon DEF SendBeat, HaltReplay
  <2>2. QED BY <2>1
<1>13. QED
  BY <1>1, <1>2, <1>3, <1>4, <1>5, <1>6, <1>7, <1>8, <1>9, <1>10, <1>11, <1>12
     DEF Next, ProcessStep, BoardStep, AtRest

-----------------------------------------------------------------------------
(* The pointers, and the words they are compared with.                     *)

\* What the pointers depend on.
pointers == <<read_count, ring_write, write_shadow, counts, copied, stream>>

\* A step that leaves the pointers and goes nowhere new in the loop.
LEMMA PointersRest ==
    ASSUME TypeOK, WritePointers, PollSound, UNCHANGED <<pointers, rd_lo, rd>>,
           \/ pc' = pc
           \/ pc' \in {"idle", "stop", "clear"}
           \/ pc' \in {"next", "pkt", "eof", "start", "wait"} /\ Feeding /\ pc # "copy"
              /\ pc # "wrhi"
    PROVE  WritePointers' /\ PollSound'
<1> USE DEF pointers, counts, Feeding, HasRecord, Pending
<1>1. WritePointers'
  BY DEF WritePointers
<1>2. PollSound'
  BY DEF PollSound
<1>3. QED BY <1>1, <1>2

\* The numbers of the pointers.
LEMMA PointerTypes ==
    ASSUME TypeOK
    PROVE  /\ read_count \in Nat /\ ring_write \in Nat /\ write_count \in Nat
           /\ copied \in Nat /\ rd \in Nat /\ rd_lo \in Nat /\ write_shadow \in Nat
           /\ packet_count \in Nat
  BY ConstantTypes DEF TypeOK, ConsumerTypeOK

\* Start-up: nothing is written before the registers are zero.
LEMMA SetupPointers ==
    ASSUME TypeOK, ReaderOwned, WritePointers, PollSound,
           Launch \/ ConfigureStop \/ ConfigureClear \/ ConfigureRegisters
    PROVE  WritePointers' /\ PollSound'
<1> USE DEF Feeding, WritePointers, PollSound
<1>1. CASE Launch
  <2>1. pc' = "halt" /\ write_count' = 0 /\ packet_count' = 0 /\ copied' = 0
    BY <1>1, Zenon DEF Launch
  <2>2. QED BY <2>1
<1>2. CASE ConfigureStop \/ ConfigureClear
  <2>1. /\ pc' \in {"wipe", "setup"} /\ pc \in {"halt", "wipe"}
        /\ UNCHANGED <<write_count, packet_count, copied>>
    BY <1>2 DEF ConfigureStop, ConfigureClear, counts
  <2>2. QED BY <2>1
<1>3. CASE ConfigureRegisters
  <2>1. /\ pc' = "next" /\ pc = "setup" /\ ring_write' = 0
        /\ UNCHANGED <<write_count, packet_count, copied, read_count>>
    BY <1>3, Zenon DEF ConfigureRegisters, counts
  <2>2. read_count' = 0 /\ write_count' = 0 /\ copied' = 0
    BY <2>1 DEF ReaderOwned
  <2>3. QED BY <2>1, <2>2, ConstantTypes
<1>4. QED BY <1>1, <1>2, <1>3

\* read64 of STREAM_RD while the reader goes on: the value is one the pointer
\* has had, or lies beyond everything written.
LEMMA PollPointers ==
    ASSUME TypeOK, WritePointers, PollSound, Ring <= Word, ReadLo \/ ReadHi
    PROVE  WritePointers' /\ PollSound'
<1> USE DEF Feeding, polled, counts, quiet, board, registers, input, consumerVars
<1>1. WritePointers'
  <2>1. /\ UNCHANGED <<pointers>> /\ pc \in {"rdlo", "rdhi"} /\ pc' \in {"rdhi", "decide"}
    BY DEF ReadLo, ReadHi, pointers
  <2>2. QED BY <2>1 DEF WritePointers, HasRecord, Pending, pointers
<1>2. CASE ReadLo
  <2>1. pc = "rdlo" /\ pc' = "rdhi" /\ UNCHANGED <<read_count, write_count>>
        /\ rd_lo' = read_count % Word
    BY <1>2, Zenon DEF ReadLo
  <2>2. write_count + copied + Guard <= read_count + Ring
    BY <2>1 DEF WritePointers
  <2>3. read_count \in 0..read_count /\ write_count < read_count + Ring
    BY <2>2, PointerTypes, Sizes, SMTT(60)
  <2>4. \E p \in 0..read_count : rd_lo' = p % Word /\ write_count < p + Ring
    BY <2>1, <2>3, Zenon
  <2>5. QED BY <1>1, <2>1, <2>4 DEF PollSound
<1>3. CASE ReadHi
  <2>1. pc = "rdhi" /\ pc' = "decide" /\ UNCHANGED <<read_count, write_count>>
        /\ rd' = (read_count \div Word) * Word + rd_lo
    BY <1>3, Zenon DEF ReadHi
  <2>2. PICK p \in 0..read_count : rd_lo = p % Word /\ write_count < p + Ring
    BY <2>1 DEF PollSound
  <2> DEFINE v == (read_count \div Word) * Word + rd_lo
  <2>3. v \in Nat /\ (v = p \/ v >= p + Word)
    <3>1. p \in Nat /\ p <= read_count /\ read_count \in Nat /\ Word \in Nat \ {0}
      BY PointerTypes, Sizes, SMTT(60)
    <3>2. QED BY <2>2, <3>1, TornRead
  <2> HIDE DEF v
  <2>4. v <= read_count \/ v > write_count
    BY <2>2, <2>3, PointerTypes, Sizes, SMTT(60)
  <2>5. rd' = v
    BY <2>1 DEF v
  <2>6. rd' <= read_count' \/ rd' > write_count'
    BY <2>1, <2>4, <2>5
  <2>7. QED BY <1>1, <2>1, <2>6 DEF PollSound
<1>4. QED BY <1>2, <1>3

\* A record is copied only where there is room behind the guard.
LEMMA RoomPointers ==
    ASSUME TypeOK, WritePointers, PollSound, Room
    PROVE  WritePointers' /\ PollSound'
<1>1. /\ pc = "decide" /\ pc' = "copy" /\ copied' = 0 /\ rd <= write_count
      /\ Ring - (write_count - rd) - Guard >= Pending
      /\ UNCHANGED <<read_count, ring_write, counts, stream>>
  BY DEF Room, PollOK, free, level, quiet, consumerVars, board, input
<1>2. HasRecord /\ rd <= read_count /\ Pending \in Nat \ {0}
  BY <1>1, PendingPositive, PointerTypes DEF WritePointers, PollSound
<1>3. write_count + Pending + Guard <= read_count + Ring
  BY <1>1, <1>2, PointerTypes, Sizes, SMTT(60)
<1>4. write_count + 0 + Guard <= read_count + Ring /\ 0 <= Pending
  BY <1>2, <1>3, PointerTypes, Sizes, SMTT(60)
<1>5. WritePointers'
  <2>1. Pending' = Pending /\ HasRecord'
    BY <1>1, <1>2 DEF HasRecord, Pending, counts
  <2>2. /\ read_count <= ring_write /\ ring_write <= write_count
        /\ ring_write = write_count
    BY <1>1 DEF WritePointers, Feeding
  <2>3. QED BY <1>1, <1>3, <1>4, <2>1, <2>2 DEF WritePointers, Feeding, counts
<1>6. PollSound'
  BY <1>1 DEF PollSound
<1>7. QED BY <1>5, <1>6

\* A copied beat stays within the record, and the record counts as a whole.
LEMMA CopyPointers ==
    ASSUME TypeOK, WritePointers, PollSound, CopyBeat \/ WriteLo
    PROVE  WritePointers' /\ PollSound'
<1> USE DEF Feeding
<1>1. /\ pc = "copy" /\ HasRecord /\ copied <= Pending
      /\ write_count + Pending + Guard <= read_count + Ring
      /\ read_count <= ring_write /\ ring_write = write_count
      /\ Pending \in Nat \ {0}
  <2>1. pc = "copy" /\ HasRecord
    BY DEF CopyBeat, WriteLo, WritePointers
  <2>2. QED BY <2>1, PendingPositive DEF WritePointers
<1>2. CASE CopyBeat
  <2>1. /\ copied < Pending /\ copied' = copied + 1
        /\ UNCHANGED <<pc, read_count, ring_write, write_count, packet_count, stream>>
    BY <1>2, Zenon DEF CopyBeat, consumerVars, counts, input
  <2>2. copied + 1 \in Nat /\ copied + 1 <= Pending
        /\ write_count + (copied + 1) + Guard <= read_count + Ring
    <3>1. copied < Pending /\ write_count + Pending + Guard <= read_count + Ring
          /\ Pending \in Nat
      BY <1>1, <2>1
    <3>2. QED BY <3>1, PointerTypes, Sizes, SMTT(60)
  <2>3. Pending' = Pending /\ HasRecord'
    BY <1>1, <2>1 DEF HasRecord, Pending
  <2>4. PICK n \in Nat : copied' = n /\ n = copied + 1
    BY <2>1, <2>2
  <2>5. QED BY <1>1, <2>1, <2>2, <2>3, <2>4 DEF WritePointers, PollSound
<1>3. CASE WriteLo
  <2>1. /\ copied = Pending /\ write_count' = write_count + Pending /\ copied' = 0
        /\ write_shadow' = write_count' % Word
        /\ pc' = "wrhi" /\ UNCHANGED <<read_count, ring_write>>
    BY <1>3, Zenon DEF WriteLo, consumerVars
  <2>2. PICK n \in Nat : write_count' = n /\ n = write_count + Pending
    <3>1. Pending \in Nat
      BY <1>1
    <3>2. write_count + Pending \in Nat
      BY <3>1, PointerTypes
    <3>3. QED BY <2>1, <3>2, Zenon
  <2>3. ring_write <= n /\ n + 0 + Guard <= read_count + Ring
    <3>1. /\ write_count + Pending + Guard <= read_count + Ring
          /\ ring_write = write_count /\ Pending \in Nat
      BY <1>1
    <3>2. QED BY <2>2, <3>1, PointerTypes, Sizes, SMTT(60)
  <2>4. QED BY <1>1, <2>1, <2>2, <2>3 DEF WritePointers, PollSound
<1>4. QED BY <1>2, <1>3

\* The HI write puts the two words of the pointer together.
LEMMA CommitsWriteCount ==
    ASSUME TypeOK, WritePointers, WriteHi
    PROVE  ring_write' = write_count
<1>1. /\ ring_write' = (write_count \div Word) * Word + write_shadow
      /\ write_shadow = write_count % Word
  BY DEF WriteHi, WritePointers
<1>2. write_count = (write_count \div Word) * Word + (write_count % Word)
  BY PointerTypes, ConstantTypes, DivMod
<1>3. QED BY <1>1, <1>2, Zenon

LEMMA CommitPointers ==
    ASSUME TypeOK, WritePointers, PollSound, WriteHi
    PROVE  WritePointers' /\ PollSound'
<1>1. /\ pc = "wrhi" /\ pc' \in {"start", "next"}
      /\ UNCHANGED <<read_count, write_count, copied>>
  BY DEF WriteHi, counts
<1>2. ring_write' = write_count
  BY CommitsWriteCount
<1>3. /\ read_count <= ring_write /\ ring_write <= write_count /\ copied = 0
      /\ write_count + copied + Guard <= read_count + Ring
  BY <1>1 DEF WritePointers, Feeding
<1>4. read_count <= write_count
  BY <1>3, PointerTypes
<1>5. QED BY <1>1, <1>2, <1>3, <1>4, PointerTypes DEF WritePointers, PollSound, Feeding

\* The reader only makes room, and only as far as the committed pointer.
LEMMA DeliverPointers ==
    ASSUME TypeOK, WritePointers, PollSound, DeliverBeat
    PROVE  WritePointers' /\ PollSound'
<1>1. /\ read_count < ring_write /\ read_count' = read_count + 1
      /\ UNCHANGED <<pc, ring_write, write_shadow, write_count, packet_count, copied,
                     stream, rd_lo, rd>>
  BY DEF DeliverBeat, ConsumeBeat, process, counts, polled, registers, input
<1>2. PICK n \in Nat : read_count' = n /\ n = read_count + 1
  BY <1>1, PointerTypes
<1>3. n <= ring_write /\ read_count + Ring <= n + Ring /\ read_count <= n
  BY <1>1, <1>2, PointerTypes, Sizes, SMTT(60)
<1>4. Pending' = Pending /\ (HasRecord => HasRecord')
  BY <1>1 DEF HasRecord, Pending
<1>5. WritePointers'
  <2>1. Feeding' => /\ n <= ring_write /\ ring_write <= write_count
                    /\ write_count + copied + Guard <= n + Ring
                    /\ pc # "wrhi" => ring_write = write_count
    <3>1. ASSUME Feeding
          PROVE  /\ ring_write <= write_count
                 /\ write_count + copied + Guard <= read_count + Ring
                 /\ pc # "wrhi" => ring_write = write_count
      BY <3>1 DEF WritePointers
    <3>2. ASSUME write_count + copied + Guard <= read_count + Ring
          PROVE  write_count + copied + Guard <= n + Ring
      BY <1>3, <3>2, PointerTypes, Sizes, SMTT(60)
    <3>3. Feeding' = Feeding
      BY <1>1 DEF Feeding
    <3>4. QED BY <1>3, <3>1, <3>2, <3>3
  <2>2. pc = "copy" => copied <= Pending /\ write_count + Pending + Guard <= n + Ring
    <3>1. ASSUME pc = "copy"
          PROVE  copied <= Pending /\ write_count + Pending + Guard <= n + Ring
      <4>1. copied <= Pending /\ write_count + Pending + Guard <= read_count + Ring
        BY <3>1 DEF WritePointers
      <4>2. Pending \in Nat \ {0}
        BY <3>1, PendingPositive DEF WritePointers
      <4>3. QED BY <1>3, <4>1, <4>2, PointerTypes, Sizes, SMTT(60)
    <3>2. QED BY <3>1
  <2>3. QED BY <1>1, <1>2, <1>4, <2>1, <2>2 DEF WritePointers, Feeding
<1>6. PollSound'
  <2>1. ASSUME pc = "rdhi" PROVE PollSound'
    <3>1. PICK p \in 0..read_count : rd_lo = p % Word /\ write_count < p + Ring
      BY <2>1 DEF PollSound
    <3>2. p \in 0..n
      BY <1>3, <1>2, PointerTypes
    <3>3. QED BY <1>1, <1>2, <2>1, <3>1, <3>2 DEF PollSound
  <2>2. ASSUME pc = "decide" PROVE PollSound'
    <3>1. rd <= n \/ rd > write_count
      BY <1>3, <2>2, PointerTypes DEF PollSound
    <3>2. QED BY <1>1, <1>2, <2>2, <3>1 DEF PollSound
  <2>3. QED BY <1>1, <2>1, <2>2 DEF PollSound
<1>7. QED BY <1>5, <1>6

LEMMA PointersStep ==
    ASSUME TypeOK, ReaderOwned, WritePointers, PollSound, Ring <= Word, [Next]_vars
    PROVE  WritePointers' /\ PollSound'
<1> USE DEF vars, consumerVars, registers, replay, board, input, counts, polled,
        process, quiet, pointers
<1>1. CASE Launch \/ ConfigureStop \/ ConfigureClear \/ ConfigureRegisters
  BY <1>1, SetupPointers
<1>2. CASE ReadLo \/ ReadHi
  BY <1>2, PollPointers
<1>3. CASE Room
  BY <1>3, RoomPointers
<1>4. CASE CopyBeat \/ WriteLo
  BY <1>4, CopyPointers
<1>5. CASE WriteHi
  BY <1>5, CommitPointers
<1>6. CASE DeliverBeat
  BY <1>6, DeliverPointers
<1>7. CASE StartReplay
  <2>1. /\ pc = "start" /\ pc' \in {"next", "wait"} /\ read_count' = 0
        /\ UNCHANGED <<ring_write, write_shadow, counts, copied, stream, rd_lo, rd>>
    BY <1>7 DEF StartReplay, StartReader
  <2>2. read_count = 0
    BY <2>1 DEF ReaderOwned, Feeding
  <2>3. QED BY <2>1, <2>2, PointersRest DEF Feeding
<1>8. CASE TakeRecord
  <2>1. CASE pc' = "stop"
    BY <1>8, <2>1, PointersRest DEF TakeRecord
  <2>2. CASE pc' # "stop"
    <3>1. pc = "next" /\ pc' = "rdlo" /\ HasRecord /\ UNCHANGED <<pointers, rd_lo, rd>>
      BY <1>8, <2>2 DEF TakeRecord, Fail
    <3>2. QED BY <3>1 DEF WritePointers, PollSound, Feeding, HasRecord
  <2>3. QED BY <2>1, <2>2
<1>9. CASE EndOfFile \/ WritePktCount \/ WriteEof \/ NoRoom
  <2>1. UNCHANGED <<pointers, rd_lo, rd>> /\ pc \in {"next", "pkt", "eof", "decide"}
    BY <1>9, Zenon DEF EndOfFile, WritePktCount, WriteEof, RaiseEof, NoRoom, PollOK
  <2>2. pc' \in {"stop", "pkt", "eof", "wait", "start", "next"}
    BY <1>9 DEF EndOfFile, WritePktCount, WriteEof, NoRoom, Fail
  <2>3. QED BY <2>1, <2>2, PointersRest DEF Feeding
<1>10. CASE PollAbort \/ Finish \/ Interrupted \/ Kill
  <2>1. UNCHANGED <<pointers, rd_lo, rd>>
    BY <1>10, Zenon DEF PollAbort, Finish, Interrupted, Kill
  <2>2. pc' \in {"stop", "idle"}
    BY <1>10 DEF PollAbort, Finish, Interrupted, Kill, Fail
  <2>3. QED BY <2>1, <2>2, PointersRest
<1>11. CASE AbortStop \/ AbortClear
  <2>1. pc' \in {"clear", "idle"}
    BY <1>11 DEF AbortStop, AbortClear
  <2>2. UNCHANGED <<copied, counts>>
    BY <1>11 DEF AbortStop, AbortClear
  <2>3. QED BY <2>1, <2>2 DEF WritePointers, PollSound, Feeding
<1>12. CASE ReaderFinishes \/ SendBeat \/ HaltReplay \/ UNCHANGED vars
  <2>1. UNCHANGED <<pointers, rd_lo, rd, pc>>
    BY <1>12, Zenon DEF ReaderFinishes, FinishReader, SendBeat, HaltReplay
  <2>2. QED BY <2>1, PointersRest
<1>13. QED
  BY <1>1, <1>2, <1>3, <1>4, <1>5, <1>6, <1>7, <1>8, <1>9, <1>10, <1>11, <1>12
     DEF Next, ProcessStep, BoardStep, AtRest

-----------------------------------------------------------------------------
(* What lies in the ring.                                                  *)

\* The beat that is copied takes the slot of none that is still needed.
LEMMA CopyKeeps ==
    ASSUME TypeOK, WritePointers, CopyBeat,
           NEW k \in read_count..(write_count + copied - 1)
    PROVE  mem'[k % Ring] = mem[k % Ring]
<1>1. /\ copied < Pending /\ write_count + Pending + Guard <= read_count + Ring
      /\ Pending \in Nat \ {0}
  <2>1. pc = "copy" /\ HasRecord /\ copied < Pending
    BY DEF CopyBeat, WritePointers
  <2>2. QED BY <2>1, PendingPositive DEF WritePointers
<1>2. k \in Nat /\ write_count + copied \in Nat /\ k < write_count + copied
      /\ write_count + copied < k + Ring
  <2>1. /\ copied < Pending /\ write_count + Pending + Guard <= read_count + Ring
        /\ Pending \in Nat
    BY <1>1
  <2>2. k \in Nat /\ write_count + copied \in Nat /\ k < write_count + copied /\ read_count <= k
    BY PointerTypes, SMTT(60)
  <2>3. QED BY <2>1, <2>2, PointerTypes, Sizes, SMTT(60)
<1>3. k % Ring # (write_count + copied) % Ring
  BY <1>2, WindowDistinct, ConstantTypes
<1>4. k % Ring \in DOMAIN mem
  BY <1>2, SlotTypes DEF TypeOK
<1>5. mem' = [mem EXCEPT ![(write_count + copied) % Ring] = <<session, write_count + copied>>]
  BY DEF CopyBeat
<1>6. QED BY <1>3, <1>4, <1>5

\* Copying a beat adds it to what the session has in the ring.
LEMMA CopyAdds ==
    ASSUME TypeOK, ReaderOwned, WritePointers, SessionInRing, CommittedIntact, CopyBeat
    PROVE  SessionInRing' /\ CommittedIntact'
<1>1. /\ pc = "copy" /\ copied' = copied + 1
      /\ UNCHANGED <<pc, read_count, ring_write, write_count, state, session, playing>>
  BY DEF CopyBeat, consumerVars, counts, input, replay
<1>2. Feeding /\ ring_write = write_count
  BY <1>1 DEF Feeding, WritePointers
<1>3. \A k \in read_count..(write_count + copied - 1) : mem'[k % Ring] = <<session, k>>
  BY <1>2, CopyKeeps DEF SessionInRing
<1>4. mem'[(write_count + copied) % Ring] = <<session, write_count + copied>>
  <2>1. (write_count + copied) % Ring \in DOMAIN mem
    <3>1. write_count + copied \in Nat
      BY PointerTypes
    <3>2. (write_count + copied) % Ring \in 0..(Ring - 1)
      BY <3>1, SlotTypes
    <3>3. DOMAIN mem = 0..(Ring - 1)
      BY DEF TypeOK
    <3>4. QED BY <3>2, <3>3
  <2>2. mem' = [mem EXCEPT ![(write_count + copied) % Ring] = <<session, write_count + copied>>]
    BY DEF CopyBeat
  <2>3. QED BY <2>1, <2>2
<1>5. \A k \in read_count..(write_count + copied) : mem'[k % Ring] = <<session, k>>
  BY <1>3, <1>4, PointerTypes
<1>6. write_count + (copied + 1) - 1 = write_count + copied
  BY PointerTypes
<1>7. SessionInRing'
  <2>1. PICK n \in Nat : copied' = n /\ n = copied + 1
    BY <1>1, PointerTypes
  <2>2. \A k \in read_count..(write_count + n - 1) : mem'[k % Ring] = <<session, k>>
    BY <1>5, <1>6, <2>1
  <2>3. QED BY <1>1, <2>1, <2>2 DEF SessionInRing
<1>8. CommittedIntact'
  <2>1. ASSUME state = "run"
        PROVE  \A k \in read_count..(ring_write - 1) : mem'[k % Ring] = <<playing.session, k>>
    <3>1. playing.session = session
      BY <1>2, <2>1 DEF ReaderOwned
    <3>2. \A k \in read_count..(write_count - 1) : mem'[k % Ring] = <<session, k>>
      BY <1>5, PointerTypes
    <3>3. QED BY <1>2, <3>1, <3>2
  <2>2. QED BY <1>1, <2>1 DEF CommittedIntact
<1>9. QED BY <1>7, <1>8

\* A commit publishes beats that are there; a start hands them to the reader.
LEMMA CommitKeeps ==
    ASSUME TypeOK, ReaderOwned, WritePointers, SessionInRing, CommittedIntact,
           WriteLo \/ WriteHi \/ StartReplay
    PROVE  SessionInRing' /\ CommittedIntact'
<1> USE DEF Feeding
<1>1. CASE WriteLo
  <2>1. /\ pc = "copy" /\ copied = Pending /\ pc' = "wrhi" /\ copied' = 0
        /\ write_count' = write_count + Pending
        /\ UNCHANGED <<mem, read_count, ring_write, state, session, playing>>
    BY <1>1 DEF WriteLo, consumerVars, input, replay
  <2>2. PICK n \in Nat : write_count' = n /\ n = write_count + copied
    BY <2>1, PointerTypes
  <2>3. \A k \in read_count..(n + 0 - 1) : mem[k % Ring] = <<session, k>>
    BY <2>1, <2>2, PointerTypes DEF SessionInRing
  <2>4. SessionInRing'
    BY <2>1, <2>2, <2>3 DEF SessionInRing
  <2>5. CommittedIntact'
    BY <2>1 DEF CommittedIntact
  <2>6. QED BY <2>4, <2>5
<1>2. CASE WriteHi
  <2>1. /\ pc = "wrhi" /\ copied = 0
        /\ UNCHANGED <<mem, read_count, write_count, copied, state, session, playing>>
    BY <1>2 DEF WriteHi, WritePointers, board, counts, input, replay
  <2>2. ring_write' = write_count
    BY <1>2, CommitsWriteCount
  <2>3. \A k \in read_count..(write_count - 1) : mem[k % Ring] = <<session, k>>
    BY <2>1, PointerTypes DEF SessionInRing
  <2>4. SessionInRing'
    BY <2>1 DEF SessionInRing
  <2>5. state = "run" => playing.session = session
    BY <2>1 DEF ReaderOwned
  <2>6. CommittedIntact'
    BY <2>1, <2>2, <2>3, <2>5 DEF CommittedIntact
  <2>7. QED BY <2>4, <2>6
<1>3. CASE StartReplay
  <2>1. /\ pc = "start" /\ read_count' = 0 /\ playing'.session = session
        /\ UNCHANGED <<mem, ring_write, write_count, copied, session>>
    BY <1>3 DEF StartReplay, StartReader, counts, input
  <2>2. read_count = 0 /\ copied = 0 /\ ring_write = write_count
    BY <2>1 DEF ReaderOwned, WritePointers
  <2>3. \A k \in 0..(write_count + 0 - 1) : mem[k % Ring] = <<session, k>>
    BY <2>1, <2>2 DEF SessionInRing
  <2>4. SessionInRing'
    BY <2>1, <2>2, <2>3 DEF SessionInRing
  <2>5. \A k \in 0..(ring_write - 1) : mem[k % Ring] = <<session, k>>
    BY <2>2, <2>3, PointerTypes
  <2>6. CommittedIntact'
    BY <2>1, <2>5 DEF CommittedIntact
  <2>7. QED BY <2>4, <2>6
<1>4. QED BY <1>1, <1>2, <1>3

LEMMA RingStep ==
    ASSUME TypeOK, ReaderOwned, WritePointers, SessionInRing, CommittedIntact, [Next]_vars
    PROVE  SessionInRing' /\ CommittedIntact'
<1> USE DEF vars, consumerVars, registers, replay, board, input, counts, polled,
        process, quiet, Feeding
<1>1. CASE CopyBeat
  BY <1>1, CopyAdds
<1>2. CASE WriteLo \/ WriteHi \/ StartReplay
  BY <1>2, CommitKeeps
<1>3. CASE ConfigureRegisters
  <2>1. /\ pc = "setup" /\ write_count' = 0 /\ copied' = 0 /\ read_count' = 0
        /\ state' = "idle"
    BY <1>3 DEF ConfigureRegisters, ReaderOwned, WritePointers
  <2>2. QED BY <2>1 DEF SessionInRing, CommittedIntact
<1>4. CASE Launch \/ Interrupted \/ Kill
  <2>1. pc' \in {"halt", "stop", "idle"}
    BY <1>4 DEF Launch, Interrupted, Kill, Fail
  <2>2. UNCHANGED <<consumerVars, board>>
    BY <1>4, Zenon DEF Launch, Interrupted, Kill
  <2>3. QED BY <2>1, <2>2 DEF SessionInRing, CommittedIntact
<1>5. CASE ConfigureStop \/ ConfigureClear \/ AbortStop \/ AbortClear
  <2>1. pc' \in {"wipe", "setup", "clear", "idle"} /\ state' = "idle"
    BY <1>5 DEF ConfigureStop, ConfigureClear, AbortStop, AbortClear, StopPulse, StopReader,
                ClearPulse, ClearRegisters, ReaderOwned
  <2>2. QED BY <2>1 DEF SessionInRing, CommittedIntact
<1>6. CASE TakeRecord \/ EndOfFile \/ ReadLo \/ ReadHi \/ PollAbort \/ NoRoom \/ Finish
  <2>1. /\ pc \in {"next", "rdlo", "rdhi", "decide", "wait"}
        /\ UNCHANGED <<consumerVars, board, input, counts, copied>>
    BY <1>6, Zenon DEF TakeRecord, EndOfFile, ReadLo, ReadHi, PollAbort, NoRoom, PollOK, Finish
  <2>2. QED BY <2>1 DEF SessionInRing, CommittedIntact
<1>7. CASE Room
  <2>1. /\ pc = "decide" /\ copied = 0 /\ copied' = 0
        /\ UNCHANGED <<consumerVars, board, input, write_count>>
    BY <1>7 DEF Room, PollOK, WritePointers
  <2>2. QED BY <2>1 DEF SessionInRing, CommittedIntact
<1>8. CASE WritePktCount \/ WriteEof
  <2>1. /\ pc \in {"pkt", "eof"}
        /\ UNCHANGED <<ring_write, state, read_count, mem, playing, input, counts, copied>>
    BY <1>8, Zenon DEF WritePktCount, WriteEof, RaiseEof
  <2>2. QED BY <2>1 DEF SessionInRing, CommittedIntact
<1>9. CASE DeliverBeat
  <2>1. /\ read_count' = read_count + 1
        /\ UNCHANGED <<ring_write, state, mem, playing, input, pc, counts, copied>>
    BY <1>9, Zenon DEF DeliverBeat, ConsumeBeat
  <2>2. PICK n \in Nat : read_count' = n /\ n = read_count + 1
    BY <2>1, PointerTypes
  <2>3. \A k \in n..(write_count + copied - 1) : k \in read_count..(write_count + copied - 1)
    BY <2>2, PointerTypes
  <2>4. \A k \in n..(ring_write - 1) : k \in read_count..(ring_write - 1)
    BY <2>2, PointerTypes
  <2>5. SessionInRing'
    BY <2>1, <2>2, <2>3 DEF SessionInRing
  <2>6. CommittedIntact'
    BY <2>1, <2>2, <2>4 DEF CommittedIntact
  <2>7. QED BY <2>5, <2>6
<1>10. CASE ReaderFinishes
  <2>1. /\ state' = "done"
        /\ UNCHANGED <<read_count, mem, input, pc, counts, copied>>
    BY <1>10, Zenon DEF ReaderFinishes, FinishReader
  <2>2. QED BY <2>1 DEF SessionInRing, CommittedIntact
<1>11. CASE SendBeat \/ HaltReplay \/ UNCHANGED vars
  <2>1. UNCHANGED <<ring_write, state, read_count, mem, playing, input, pc, counts, copied>>
    BY <1>11, Zenon DEF SendBeat, HaltReplay
  <2>2. QED BY <2>1 DEF SessionInRing, CommittedIntact
<1>12. QED
  BY <1>1, <1>2, <1>3, <1>4, <1>5, <1>6, <1>7, <1>8, <1>9, <1>10, <1>11
     DEF Next, ProcessStep, BoardStep, AtRest

-----------------------------------------------------------------------------
(* What the reader hands on.                                               *)

LEMMA OrderStep ==
    ASSUME TypeOK, CommittedIntact, InOrder, [Next]_vars
    PROVE  InOrder'
<1> USE DEF vars, consumerVars, registers, replay, board, input, counts, polled,
        process, quiet
<1>1. CASE DeliverBeat
  <2>1. /\ got' = Append(got, mem[read_count % Ring]) /\ state = "run"
        /\ read_count' = read_count + 1 /\ read_count < ring_write /\ playing' = playing
    BY <1>1 DEF DeliverBeat, ConsumeBeat
  <2>2. mem[read_count % Ring] = <<playing.session, read_count>>
    <3>1. read_count \in read_count..(ring_write - 1)
      BY <2>1, PointerTypes
    <3>2. QED BY <2>1, <3>1 DEF CommittedIntact
  <2>3. got \in Seq(Nat \X Nat) /\ read_count \in Nat /\ Len(got) = read_count
        /\ mem[read_count % Ring] \in Nat \X Nat
    BY PointerTypes, SlotTypes DEF TypeOK, InOrder
  <2>4. /\ Len(got') = read_count + 1 /\ DOMAIN got' = 1..(read_count + 1)
        /\ got'[read_count + 1] = mem[read_count % Ring]
        /\ \A i \in 1..read_count : got'[i] = got[i]
    BY <2>1, <2>3, AppendProperties, LenProperties
  <2>5. \A i \in 1..read_count : got[i] = <<playing.session, i - 1>>
    BY <2>3, LenProperties DEF InOrder
  <2>6. ASSUME NEW k \in 1..(read_count + 1) PROVE got'[k] = <<playing.session, k - 1>>
    <3>1. CASE k = read_count + 1
      BY <2>2, <2>3, <2>4, <3>1
    <3>2. CASE k \in 1..read_count
      BY <2>4, <2>5, <3>2
    <3>3. QED BY <2>3, <3>1, <3>2
  <2>7. QED BY <2>1, <2>4, <2>6 DEF InOrder
<1>2. CASE ConfigureStop \/ AbortStop \/ StartReplay
  <2>1. got' = <<>> /\ read_count' = 0
    BY <1>2 DEF ConfigureStop, AbortStop, StopPulse, StopReader, StartReplay, StartReader
  <2>2. Len(<<>>) = 0 /\ DOMAIN <<>> = {}
    OBVIOUS
  <2>3. QED BY <2>1, <2>2 DEF InOrder
<1>3. ASSUME UNCHANGED <<got, read_count, playing>> PROVE InOrder'
  BY <1>3 DEF InOrder
<1>4. CASE Launch \/ ConfigureClear \/ ConfigureRegisters \/ AbortClear \/ TakeRecord
           \/ EndOfFile \/ WritePktCount \/ WriteEof
  BY <1>3, <1>4, Zenon DEF Launch, ConfigureClear, ConfigureRegisters, AbortClear, ClearPulse,
     ClearRegisters, TakeRecord, EndOfFile, WritePktCount, WriteEof, RaiseEof
<1>5. CASE ReadLo \/ ReadHi \/ PollAbort \/ Room \/ NoRoom \/ CopyBeat \/ WriteLo \/ WriteHi
           \/ Finish \/ Interrupted \/ Kill
  BY <1>3, <1>5, Zenon DEF ReadLo, ReadHi, PollAbort, Room, NoRoom, CopyBeat, WriteLo,
     WriteHi, Finish, Interrupted, Kill
<1>6. CASE ReaderFinishes \/ SendBeat \/ HaltReplay \/ UNCHANGED vars
  BY <1>3, <1>6, Zenon DEF ReaderFinishes, FinishReader, SendBeat, HaltReplay
<1>7. QED
  BY <1>1, <1>2, <1>4, <1>5, <1>6 DEF Next, ProcessStep, BoardStep, AtRest

-----------------------------------------------------------------------------
(* The theorems.                                                           *)

LEMMA SessionInit == Init => SessionInv
<1>1. SUFFICES ASSUME Init PROVE SessionInv
  OBVIOUS
<1>2. TypeOK
  BY <1>1, TypeInit
<1>3. /\ pc = "idle" /\ state = "idle" /\ read_count = 0 /\ got = <<>> /\ copied = 0
  BY <1>1 DEF Init, ConsumerInit
<1>4. ReaderOwned /\ WritePointers /\ PollSound
  BY <1>3 DEF ReaderOwned, WritePointers, PollSound, Feeding
<1>5. SessionInRing /\ CommittedIntact
  BY <1>3 DEF SessionInRing, CommittedIntact, Feeding
<1>6. InOrder
  <2>1. Len(<<>>) = 0 /\ DOMAIN <<>> = {}
    OBVIOUS
  <2>2. QED BY <1>3, <2>1 DEF InOrder
<1>7. QED BY <1>2, <1>4, <1>5, <1>6 DEF SessionInv

LEMMA SessionStep ==
    ASSUME SessionInv, Ring <= Word, [Next]_vars
    PROVE  SessionInv'
<1>1. /\ TypeOK /\ ReaderOwned /\ WritePointers /\ PollSound
      /\ SessionInRing /\ CommittedIntact /\ InOrder
  BY DEF SessionInv
<1>2. TypeOK' /\ ReaderOwned'
  BY <1>1, TypeStep, OwnedStep
<1>3. WritePointers' /\ PollSound'
  BY <1>1, PointersStep
<1>4. SessionInRing' /\ CommittedIntact'
  BY <1>1, RingStep
<1>5. InOrder'
  BY <1>1, OrderStep
<1>6. QED BY <1>2, <1>3, <1>4, <1>5 DEF SessionInv

\* The ring stays sound over any number of sessions, each of which may end,
\* fail or be killed anywhere in configure, the loop of main or
\* stop_and_clear: as long as a register word counts a whole ring, no beat is
\* overwritten before it is delivered and none is committed before it is there.
THEOREM SessionsSafe ==
    ASSUME Ring <= Word
    PROVE  Spec => []SessionInv
<1>1. Init => SessionInv
  BY SessionInit
<1>2. SessionInv /\ [Next]_vars => SessionInv'
  BY SessionStep
<1>3. QED BY <1>1, <1>2, PTL DEF Spec

\* What the reader hands on belongs to the session that started it, in order
\* and once each: nothing that an earlier session left in the ring, whichever
\* way that session ended, is ever replayed (pwrite_ring, write64).
THEOREM SessionsInOrder ==
    ASSUME Ring <= Word
    PROVE  Spec => []InOrder
<1>1. SessionInv => InOrder
  BY DEF SessionInv
<1>2. QED BY <1>1, SessionsSafe, PTL

-----------------------------------------------------------------------------
(* The contract of the ring reader.                                        *)

LEMMA ContractStep ==
    ASSUME TypeOK, ReaderOwned, WritePointers, [Next]_vars
    PROVE  [ConsumerNext]_consumerVars
<1> USE DEF vars, consumerVars, board, input, process, quiet
<1>1. CASE WriteHi
  <2>1. /\ pc = "wrhi"
        /\ UNCHANGED <<eof, state, read_count, error>>
    BY <1>1, Zenon DEF WriteHi
  <2>2. /\ ring_write <= write_count /\ copied = 0
        /\ write_count + copied + Guard <= read_count + Ring
    BY <2>1 DEF WritePointers, Feeding
  <2>3. write_count >= ring_write /\ write_count - read_count <= Ring
    BY <2>2, PointerTypes, Sizes, SMTT(60)
  <2>4. ring_write' = write_count
    BY <1>1, CommitsWriteCount
  <2>5. ring_write' >= ring_write /\ ring_write' - read_count <= Capacity
    BY <2>3, <2>4, OneRing
  <2>6. QED BY <2>1, <2>5 DEF CommitWindow, ConsumerNext
<1>2. CASE ConfigureStop \/ AbortStop
  BY <1>2, Zenon DEF ConfigureStop, AbortStop, StopPulse, ConsumerNext
<1>3. CASE ConfigureClear \/ AbortClear
  <2>1. ClearRegisters /\ state = "idle"
    BY <1>3 DEF ConfigureClear, AbortClear, ClearPulse, ReaderOwned
  <2>2. QED BY <2>1, Zenon DEF ClearWindow, ConsumerNext
<1>4. CASE ConfigureRegisters
  <2>1. state = "idle"
    BY <1>4 DEF ConfigureRegisters, ReaderOwned
  <2>2. ClearRegisters
    BY <1>4, Zenon DEF ConfigureRegisters, ClearRegisters
  <2>3. QED BY <2>1, <2>2, Zenon DEF ClearWindow, ConsumerNext
<1>5. CASE WriteEof
  BY <1>5, Zenon DEF WriteEof, ConsumerNext
<1>6. CASE StartReplay
  BY <1>6, Zenon DEF StartReplay, ConsumerNext
<1>7. CASE DeliverBeat
  BY <1>7, Zenon DEF DeliverBeat, ConsumerNext
<1>8. CASE ReaderFinishes
  BY <1>8, Zenon DEF ReaderFinishes, ConsumerNext
<1>9. CASE Launch \/ TakeRecord \/ EndOfFile \/ WritePktCount \/ ReadLo \/ ReadHi
  BY <1>9, Zenon DEF Launch, TakeRecord, EndOfFile, WritePktCount, ReadLo, ReadHi
<1>10. CASE PollAbort \/ Room \/ NoRoom \/ CopyBeat \/ WriteLo \/ Finish
  BY <1>10, Zenon DEF PollAbort, Room, NoRoom, CopyBeat, WriteLo, Finish
<1>11. CASE Interrupted \/ Kill \/ SendBeat \/ HaltReplay \/ UNCHANGED vars
  BY <1>11, Zenon DEF Interrupted, Kill, SendBeat, HaltReplay
<1>12. QED
  BY <1>1, <1>2, <1>3, <1>4, <1>5, <1>6, <1>7, <1>8, <1>9, <1>10, <1>11
     DEF Next, ProcessStep, BoardStep, AtRest

\* Over all sessions, killed ones included, the registers change only as the
\* reader's contract allows: committed pointers grow within one ring, and the
\* write pointer is cleared only while the reader is stopped (configure,
\* write64 and stop_and_clear).
THEOREM SessionsMeetContract ==
    ASSUME Ring <= Word
    PROVE  Spec => ReaderContract
<1>1. SessionInv /\ [Next]_vars => [ConsumerNext]_consumerVars
  BY ContractStep DEF SessionInv
<1>2. QED BY <1>1, SessionsSafe, PTL DEF Spec, ReaderContract

-----------------------------------------------------------------------------
(* What a completed session has sent.                                      *)

\* The loader is behind the last record, and the file was as it should be.
AtEnd == packet_count = Len(stream) /\ whole /\ manifest_packets \in {0, Len(stream)}
WholeSent == /\ playing = [session |-> session, records |-> stream]
             /\ sent = BeatsOf(stream, Len(stream))
             /\ whole /\ manifest_packets \in {0, Len(stream)}

\* Behind EOF.
Ended == pc \in {"eof", "wait"} \/ (pc = "start" /\ eof)

\* Where the file stands: beats and packets are counted together, what plays is
\* the open file, EOF follows its last record and PKT_COUNT.
FileInv ==
    /\ sent <= read_count
    /\ packet_count <= Len(stream) /\ write_count = BeatsOf(stream, packet_count)
    /\ Feeding => /\ started => playing = [session |-> session, records |-> stream]
                  /\ eof => pc \in {"start", "wait"}
    /\ Ended \/ pc = "pkt" => AtEnd
    /\ Ended => pkt_count = packet_count
    /\ pc = "wait" => started
    /\ outcome = "completed" => /\ pc = "idle" /\ state = "done" /\ ~replay_running
                                /\ error \/ WholeSent

\* As many packets as the file has are all of them: the last one is sent.
LEMMA AllPackets ==
    ASSUME NEW ends \in Files, NEW n \in Nat, Len(ends) > 0,
           PacketsIn(ends, n) >= Len(ends)
    PROVE  BeatsOf(ends, Len(ends)) <= n
<1> DEFINE sentOnes == {i \in DOMAIN ends : ends[i] <= n}
<1>1. /\ Len(ends) \in Nat \ {0} /\ DOMAIN ends = 1..Len(ends)
  BY DEF Files
<1>2. IsFiniteSet(1..Len(ends)) /\ Cardinality(1..Len(ends)) = Len(ends)
  BY <1>1, FS_Interval
<1>3. sentOnes \in SUBSET (1..Len(ends))
  BY <1>1
<1>4. IsFiniteSet(sentOnes) /\ Cardinality(sentOnes) <= Len(ends)
      /\ (Cardinality(sentOnes) = Len(ends) => 1..Len(ends) = sentOnes)
  <2> HIDE DEF sentOnes
  <2>1. QED BY <1>2, <1>3, FS_Subset
<1>5. Cardinality(sentOnes) = Len(ends)
  <2>1. Cardinality(sentOnes) >= Len(ends)
    BY DEF PacketsIn
  <2>2. Cardinality(sentOnes) \in Nat
    <3> HIDE DEF sentOnes
    <3>1. QED BY <1>4, FS_CardinalityType
  <2> HIDE DEF sentOnes
  <2>3. QED BY <1>1, <1>4, <2>1, <2>2
<1>6. Len(ends) \in sentOnes
  <2>1. Len(ends) \in 1..Len(ends)
    BY <1>1
  <2> HIDE DEF sentOnes
  <2>2. QED BY <1>4, <1>5, <2>1
<1>7. QED BY <1>1, <1>6 DEF BeatsOf

\* The numbers of the file.
LEMMA FileTypes ==
    ASSUME TypeOK
    PROVE  /\ sent \in Nat /\ read_count \in Nat /\ ring_write \in Nat /\ write_count \in Nat
           /\ packet_count \in Nat /\ pkt_count \in Nat
           /\ Len(stream) \in Nat /\ stream \in Files
<1>1. stream \in Files
  BY DEF TypeOK
<1>2. Len(stream) \in Nat
  BY <1>1 DEF Files
<1>3. QED BY <1>1, <1>2 DEF TypeOK, ConsumerTypeOK

\* A board that has replayed everything behind an EOF, and has no error, has
\* sent the whole file (wait_done of main, replay_done of the core).
LEMMA DoneMeansWhole ==
    ASSUME TypeOK, ReaderOwned, WritePointers, FileInv, pc = "wait", ReplayDone, ~error
    PROVE  WholeSent
<1>1. AtEnd /\ pkt_count = packet_count /\ started
  BY DEF FileInv, Ended
<1>2. playing = [session |-> session, records |-> stream]
  BY <1>1 DEF FileInv, Feeding
<1>3. write_count = BeatsOf(stream, Len(stream)) /\ pkt_count = Len(stream)
  BY <1>1 DEF FileInv, AtEnd
<1>4. sent <= write_count
  <2>1. sent <= read_count /\ read_count <= ring_write /\ ring_write <= write_count
    BY DEF FileInv, WritePointers, Feeding
  <2>2. QED BY <2>1, FileTypes
<1>5. write_count <= sent
  <2>1. CASE Len(stream) = 0
    <3>1. write_count = 0
      BY <1>3, <2>1 DEF BeatsOf
    <3>2. QED BY <3>1, FileTypes
  <2>2. CASE Len(stream) # 0
    <3>1. PacketsIn(stream, sent) >= Len(stream)
      <4>1. pkt_count # 0
        BY <1>3, <2>2
      <4>2. PacketsIn(playing.records, sent) >= pkt_count
        BY <4>1, Zenon DEF ReplayDone
      <4>3. playing.records = stream
        BY <1>2
      <4>4. QED BY <1>3, <4>2, <4>3
    <3>2. Len(stream) > 0
      BY <2>2, FileTypes
    <3>3. BeatsOf(stream, Len(stream)) <= sent
      BY <3>1, <3>2, FileTypes, AllPackets
    <3>4. QED BY <1>3, <3>3
  <2>3. QED BY <2>1, <2>2
<1>6. sent = write_count
  BY <1>4, <1>5, FileTypes
<1>7. QED BY <1>1, <1>2, <1>3, <1>6 DEF WholeSent, AtEnd

\* Neither AtEnd nor WholeSent changes unless one of its variables does.
LEMMA FileKept ==
    /\ UNCHANGED <<input, packet_count>> => AtEnd' = AtEnd
    /\ UNCHANGED <<input, playing, sent>> => WholeSent' = WholeSent
  BY DEF AtEnd, WholeSent, input, BeatsOf

\* Steps of the process outside the loop, and those that end it.
LEMMA FileOutside ==
    ASSUME TypeOK, ReaderOwned, WritePointers, FileInv,
           \/ Launch \/ ConfigureStop \/ ConfigureClear \/ ConfigureRegisters
           \/ AbortStop \/ AbortClear \/ Interrupted \/ Kill
    PROVE  FileInv'
<1> USE DEF Feeding, Ended
<1>1. CASE Launch
  <2>1. PICK file \in Streams : stream' = file.records
    BY <1>1, Zenon DEF Launch
  <2>2. Len(stream') \in Nat
    <3>1. file.records \in Files
      BY ConstantTypes
    <3>2. QED BY <2>1, <3>1 DEF Files
  <2>3. /\ pc' = "halt" /\ outcome' = "" /\ write_count' = 0 /\ packet_count' = 0
        /\ UNCHANGED <<sent, read_count>>
    BY <1>1, Zenon DEF Launch, consumerVars, board, replay
  <2>4. sent' <= read_count' /\ packet_count' <= Len(stream')
    <3>1. 0 <= Len(stream')
      BY <2>2
    <3>2. sent <= read_count
      BY DEF FileInv
    <3>3. QED BY <2>3, <3>1, <3>2
  <2>5. write_count' = BeatsOf(stream', packet_count')
    BY <2>3 DEF BeatsOf
  <2>6. QED BY <2>3, <2>4, <2>5 DEF FileInv
<1>2. CASE ConfigureStop \/ AbortStop
  <2>1. /\ pc \in {"halt", "stop"} /\ pc' \in {"wipe", "clear"}
        /\ sent' = 0 /\ read_count' = 0
        /\ UNCHANGED <<input, counts, outcome>>
    BY <1>2 DEF ConfigureStop, AbortStop, StopPulse, StopReader
  <2>2. QED BY <2>1 DEF FileInv, input, counts, BeatsOf
<1>3. CASE ConfigureClear \/ AbortClear
  <2>1. /\ pc \in {"wipe", "clear"} /\ pc' \in {"setup", "idle"}
        /\ UNCHANGED <<input, counts, outcome, sent, read_count>>
    BY <1>3 DEF ConfigureClear, AbortClear, ClearPulse, ClearRegisters, replay
  <2>2. QED BY <2>1 DEF FileInv, input, counts, BeatsOf
<1>4. CASE ConfigureRegisters
  <2>1. /\ pc = "setup" /\ pc' = "next" /\ eof' = FALSE
        /\ UNCHANGED <<input, counts, started, outcome, sent, read_count>>
    BY <1>4, Zenon DEF ConfigureRegisters, replay
  <2>2. ~started
    BY <2>1 DEF ReaderOwned
  <2>3. QED BY <2>1, <2>2 DEF FileInv, input, counts, BeatsOf
<1>5. CASE Interrupted \/ Kill
  <2>1. /\ pc # "idle" /\ pc' \in {"stop", "idle"} /\ outcome' # "completed"
        /\ UNCHANGED <<consumerVars, board, input, counts>>
    BY <1>5 DEF Interrupted, Kill, Fail, quiet
  <2>2. QED BY <2>1 DEF FileInv, input, counts, consumerVars, board, replay, BeatsOf
<1>6. QED BY <1>1, <1>2, <1>3, <1>4, <1>5

\* The loop of main up to the last commit: a record counts with its beats.
LEMMA FileLoop ==
    ASSUME TypeOK, WritePointers, FileInv,
           \/ TakeRecord \/ ReadLo \/ ReadHi \/ PollAbort \/ Room \/ NoRoom \/ CopyBeat
           \/ WriteLo \/ WriteHi
    PROVE  FileInv'
<1> USE DEF Feeding, Ended
<1>1. /\ pc \in {"next", "rdlo", "rdhi", "decide", "copy", "wrhi"}
      /\ pc' \in {"next", "rdlo", "rdhi", "decide", "copy", "wrhi", "start", "stop"}
  BY DEF TakeRecord, ReadLo, ReadHi, PollAbort, Room, NoRoom, PollOK, CopyBeat, WriteLo,
         WriteHi, Fail
<1>2. UNCHANGED <<eof, read_count, sent, playing, input, started>>
  BY Zenon DEF TakeRecord, ReadLo, ReadHi, PollAbort, Room, NoRoom, CopyBeat, WriteLo,
         WriteHi, quiet, consumerVars, board, replay
<1>3. outcome # "completed" /\ outcome' # "completed"
  <2>1. outcome # "completed"
    BY <1>1 DEF FileInv
  <2>2. outcome' = outcome \/ outcome' \in {"record too large", "stream ring error",
                                            "read pointer advanced past write pointer"}
    BY DEF TakeRecord, ReadLo, ReadHi, PollAbort, Room, NoRoom, CopyBeat, WriteLo,
           WriteHi, Fail
  <2>3. QED BY <2>1, <2>2
<1>4. ~eof
  BY <1>1 DEF FileInv
<1>5. packet_count' <= Len(stream') /\ write_count' = BeatsOf(stream', packet_count')
  <2>1. CASE WriteLo
    <3>1. /\ HasRecord /\ stream' = stream /\ packet_count' = packet_count + 1
          /\ write_count' = write_count + Pending
      BY <1>2, <2>1 DEF WriteLo, WritePointers, input
    <3>2. write_count' = BeatsOf(stream, packet_count + 1)
      BY <3>1, PendingPositive DEF FileInv
    <3>3. packet_count + 1 <= Len(stream)
      BY <3>1, FileTypes DEF HasRecord
    <3>4. QED BY <3>1, <3>2, <3>3
  <2>2. CASE ~WriteLo
    <3>1. UNCHANGED counts
      BY <2>2, Zenon DEF TakeRecord, ReadLo, ReadHi, PollAbort, Room, NoRoom, CopyBeat, WriteHi
    <3>2. QED BY <1>2, <3>1 DEF FileInv, counts, input, BeatsOf
  <2>3. QED BY <2>1, <2>2
<1>6. QED BY <1>1, <1>2, <1>3, <1>4, <1>5 DEF FileInv, input

\* The end of the file: EOF follows the last record and PKT_COUNT.
LEMMA FileEnd ==
    ASSUME TypeOK, ReaderOwned, WritePointers, FileInv,
           EndOfFile \/ WritePktCount \/ WriteEof \/ StartReplay \/ Finish
    PROVE  FileInv'
<1> USE DEF Feeding, Ended
<1>1. UNCHANGED <<input, counts>>
  BY Zenon DEF EndOfFile, WritePktCount, WriteEof, StartReplay, Finish, quiet
<1>2. packet_count' <= Len(stream') /\ write_count' = BeatsOf(stream', packet_count')
  BY <1>1 DEF FileInv, input, counts, BeatsOf
<1>3. AtEnd' = AtEnd
  BY <1>1, FileKept DEF counts
<1>4. pc # "idle" /\ outcome # "completed"
  BY DEF EndOfFile, WritePktCount, WriteEof, StartReplay, Finish, FileInv
<1>5. CASE EndOfFile
  <2>1. /\ pc = "next" /\ ~HasRecord
        /\ UNCHANGED <<eof, sent, read_count, started, playing, session, stream>>
    BY <1>5, Zenon DEF EndOfFile, quiet, consumerVars, board, replay, input
  <2>2. \/ pc' = "stop" /\ outcome' \in {"short record", "manifest"}
        \/ pc' = "pkt" /\ outcome' = outcome /\ whole
           /\ (manifest_packets = 0 \/ manifest_packets = packet_count)
    BY <1>5 DEF EndOfFile, Fail
  <2>3. packet_count = Len(stream)
    BY <2>1, FileTypes DEF HasRecord, FileInv
  <2>4. pc' = "pkt" => AtEnd
    BY <2>2, <2>3 DEF AtEnd
  <2>5. ~eof
    BY <2>1 DEF FileInv
  <2>6. pc' \in {"stop", "pkt"} /\ outcome' # "completed"
    BY <1>4, <2>2
  <2>7. QED BY <1>2, <1>3, <2>1, <2>4, <2>5, <2>6 DEF FileInv
<1>6. CASE WritePktCount
  <2>1. /\ pc = "pkt" /\ pc' = "eof" /\ pkt_count' = packet_count /\ packet_count' = packet_count
        /\ UNCHANGED <<eof, sent, read_count, started, playing, session, stream, outcome>>
    BY <1>6, Zenon DEF WritePktCount, consumerVars, replay, input, counts
  <2>2. AtEnd /\ ~eof
    BY <2>1 DEF FileInv
  <2>3. QED BY <1>2, <1>3, <1>4, <2>1, <2>2 DEF FileInv
<1>7. CASE WriteEof
  <2>1. /\ pc = "eof" /\ pc' = IF started THEN "wait" ELSE "start"
        /\ UNCHANGED <<sent, read_count, started, playing, session, stream, outcome,
                       packet_count, pkt_count>>
    BY <1>7, Zenon DEF WriteEof, RaiseEof, board, registers, replay, input, counts
  <2>2. AtEnd /\ pkt_count = packet_count
    BY <2>1 DEF FileInv
  <2>3. QED BY <1>2, <1>3, <1>4, <2>1, <2>2 DEF FileInv
<1>8. CASE StartReplay
  <2>1. /\ pc = "start" /\ pc' = IF eof THEN "wait" ELSE "next"
        /\ started' = TRUE /\ sent' = 0 /\ read_count' = 0
        /\ playing' = [session |-> session, records |-> stream]
        /\ UNCHANGED <<eof, session, stream, outcome, packet_count, pkt_count>>
    BY <1>8, Zenon DEF StartReplay, StartReader, registers, input, counts
  <2>2. eof => AtEnd /\ pkt_count = packet_count
    BY <2>1 DEF FileInv
  <2>3. QED BY <1>2, <1>3, <1>4, <2>1, <2>2 DEF FileInv
<1>9. CASE Finish
  <2>1. /\ pc = "wait" /\ pc' = "idle"
        /\ UNCHANGED <<state, error, replay_running, sent, read_count, playing, session,
                       stream, whole, manifest_packets>>
    BY <1>9, Zenon DEF Finish, quiet, consumerVars, board, replay, input
  <2>2. outcome' = "completed" => ReplayDone /\ ~replay_running
    BY <1>9 DEF Finish
  <2>3. WholeSent' = WholeSent
    BY <1>1, <2>1, FileKept
  <2>4. outcome' = "completed" => state = "done" /\ ~replay_running /\ (error \/ WholeSent)
    BY <2>1, <2>2, DoneMeansWhole DEF ReplayDone
  <2>5. QED BY <1>2, <2>1, <2>3, <2>4 DEF FileInv
<1>10. QED BY <1>5, <1>6, <1>7, <1>8, <1>9

\* The board goes on, and leaves a session that has completed as it is.
LEMMA FileBoard ==
    ASSUME TypeOK, FileInv, BoardStep \/ UNCHANGED vars
    PROVE  FileInv'
<1>1. UNCHANGED <<eof, pkt_count, playing, input, process>>
  BY Zenon DEF BoardStep, DeliverBeat, ConsumeBeat, ReaderFinishes, FinishReader, SendBeat,
               HaltReplay, vars, consumerVars, board, registers, replay
<1>2. sent' <= read_count'
  <2>1. \/ sent' = sent /\ read_count' \in {read_count, read_count + 1}
        \/ sent' = sent + 1 /\ sent < read_count /\ read_count' = read_count
    BY DEF BoardStep, DeliverBeat, ConsumeBeat, ReaderFinishes, FinishReader, SendBeat,
           HaltReplay, vars, consumerVars, board, replay
  <2>2. QED BY <2>1, FileTypes DEF FileInv
<1>3. outcome = "completed" => UNCHANGED <<state, error, replay_running, sent>>
  <2>1. outcome = "completed" => state # "run" /\ ~replay_running
    BY DEF FileInv
  <2>2. CASE outcome = "completed"
    <3>1. ~DeliverBeat /\ ~ReaderFinishes /\ ~SendBeat /\ ~HaltReplay
      BY <2>1, <2>2 DEF DeliverBeat, ConsumeBeat, ReaderFinishes, FinishReader, SendBeat,
                        HaltReplay
    <3>2. UNCHANGED vars
      BY <3>1 DEF BoardStep
    <3>3. QED BY <3>2 DEF vars, consumerVars, board, replay
  <2>3. QED BY <2>2
<1>4. (Feeding' = Feeding) /\ (Ended' = Ended)
  BY <1>1 DEF Feeding, Ended, process
<1>5. /\ AtEnd' = AtEnd
      /\ outcome = "completed" => WholeSent' = WholeSent
  BY <1>1, <1>3, FileKept DEF process, counts
<1>6. packet_count' <= Len(stream') /\ write_count' = BeatsOf(stream', packet_count')
  BY <1>1 DEF FileInv, input, process, counts, BeatsOf
<1>7. QED BY <1>1, <1>2, <1>3, <1>4, <1>5, <1>6 DEF FileInv, process, counts, input

LEMMA FileInit == Init => FileInv
<1>1. SUFFICES ASSUME Init PROVE FileInv
  OBVIOUS
<1>2. /\ sent = 0 /\ read_count = 0 /\ packet_count = 0 /\ stream = <<>> /\ write_count = 0
      /\ pc = "idle" /\ outcome = ""
  BY <1>1, Zenon DEF Init, ConsumerInit
<1>3. Len(stream) = 0 /\ write_count = BeatsOf(stream, packet_count)
  BY <1>2 DEF BeatsOf
<1>4. sent <= read_count /\ packet_count <= Len(stream)
  <2>1. 0 <= 0
    OBVIOUS
  <2>2. QED BY <1>2, <1>3, <2>1, Zenon
<1>5. ~Feeding /\ ~Ended /\ pc # "pkt" /\ pc # "wait" /\ outcome # "completed"
  BY <1>2 DEF Feeding, Ended
<1>6. QED BY <1>3, <1>4, <1>5, Zenon DEF FileInv

LEMMA FileStep ==
    ASSUME TypeOK, ReaderOwned, WritePointers, FileInv, [Next]_vars
    PROVE  FileInv'
<1>1. CASE \/ Launch \/ ConfigureStop \/ ConfigureClear \/ ConfigureRegisters
           \/ AbortStop \/ AbortClear \/ Interrupted \/ Kill
  BY <1>1, FileOutside
<1>2. CASE \/ TakeRecord \/ ReadLo \/ ReadHi \/ PollAbort \/ Room \/ NoRoom \/ CopyBeat
           \/ WriteLo \/ WriteHi
  BY <1>2, FileLoop
<1>3. CASE EndOfFile \/ WritePktCount \/ WriteEof \/ StartReplay \/ Finish
  BY <1>3, FileEnd
<1>4. CASE BoardStep \/ UNCHANGED vars
  BY <1>4, FileBoard
<1>5. QED BY <1>1, <1>2, <1>3, <1>4, Zenon DEF Next, ProcessStep, AtRest

\* A session that ends with "completed", on a reader without error, has sent
\* all of its file, the file was whole and it agreed with its manifest,
\* whatever sessions went before and wherever they were cut (the loop and
\* wait_done of main, replay_done of the core).
THEOREM CompletionIsWhole ==
    ASSUME Ring <= Word
    PROVE  Spec => []CompletedMeansWhole
<1>1. SessionInv /\ FileInv /\ [Next]_vars => FileInv'
  BY FileStep DEF SessionInv
<1>2. FileInv => CompletedMeansWhole
  BY Zenon DEF FileInv, CompletedMeansWhole, WholeSent
<1>3. QED BY <1>1, <1>2, FileInit, SessionsSafe, PTL DEF Spec
=============================================================================
