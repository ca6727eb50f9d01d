------------------------ MODULE StripedLoader_proofs ------------------------
(***************************************************************************)
(* Out of order reading never reorders a striped stream, for every list of *)
(* blocks, number of threads, window and queue: the staged path hands main *)
(* the blocks in order, the direct path publishes whole blocks only.       *)
(***************************************************************************)
EXTENDS StripedLoader, ModLemmas, SequenceTheorems

\* What the constants are, without the power-of-two condition.
LEMMA ConstantTypes ==
    /\ Blocks \in Seq(Nat \ {0}) /\ Last \in Nat /\ None \in 0..Last
    /\ Window \in Nat \ {0} /\ QueueDepth \in Nat \ {0} /\ Faults \in BOOLEAN
    /\ Capacity \in Nat \ {0} /\ Ring \in Nat \ {0} /\ PingPong \in BOOLEAN
    /\ PktBeats \in Nat \ {0} /\ Word \in Nat \ {0}
    /\ Guard \in Nat \ {0} /\ Guard < Capacity
<1>1. Blocks \in Seq(Nat \ {0}) /\ Last \in Nat
  BY StripeAssumption DEF Last
<1>2. None \in 0..Last
  BY <1>1 DEF None
<1>3. Capacity \in Nat \ {0} /\ Guard \in Nat \ {0} /\ Guard < Capacity
  BY RingAssumption, DirectAssumption DEF Capacity
<1>4. QED BY <1>1, <1>2, <1>3, StripeAssumption, QueueAssumption, RingAssumption, DirectAssumption

-----------------------------------------------------------------------------
(* The staged path.                                                        *)

LEMMA StagedInvInit == StagedInit => StagedInv
<1> SUFFICES ASSUME StagedInit PROVE StagedInv
  OBVIOUS
<1> USE ConstantTypes
<1>1. StagedTypeOK
  <2>1. 1 \in 1..(Last + 1)
    OBVIOUS
  <2>2. chunks_ \in Seq(0..Last) /\ popped \in Seq(0..Last)
    BY EmptySeq DEF StagedInit
  <2>3. reader \in [Readers -> [at : {"work", "read", "submit", "exit"}, block : 0..Last]]
    BY DEF StagedInit
  <2>4. QED BY <2>1, <2>2, <2>3 DEF StagedInit, StagedTypeOK
<1>2. popped = <<>> /\ chunks_ = <<>> /\ next_emit_ = 1 /\ feeding = "feed" /\ ~done_
      /\ producer.at = "pop"
  BY DEF StagedInit
<1>3. Len(popped) = 0 /\ Len(chunks_) = 0 /\ DOMAIN popped = {} /\ DOMAIN chunks_ = {}
  BY <1>2
<1>4. BlocksInOrder /\ InLine /\ EndOfBlocks
  BY <1>2, <1>3 DEF BlocksInOrder, InLine, EndOfBlocks, Abandoned
<1>5. QED BY <1>1, <1>4 DEF StagedInv

Places == [at : {"work", "read", "submit", "exit"}, block : 0..Last]

\* A reader goes from one place to another.
LEMMA ReaderPlaces ==
    ASSUME reader \in [Readers -> Places], NEW r \in Readers,
           NEW at \in {"work", "read", "submit", "exit"}, NEW b \in 0..Last,
           ReaderGoes(r, at, b)
    PROVE  reader' \in [Readers -> Places]
  BY DEF ReaderGoes, Places

\* The readers only change what InLine does not speak of.
LEMMA StagedReaderStep ==
    ASSUME StagedInv, NEW r \in Readers, ReaderStep(r)
    PROVE  StagedInv'
<1> USE ConstantTypes DEF queue, main
<1>1. CASE GetWork(r)
  <2>1. next_assign_ \in Nat /\ 1 <= next_assign_ /\ next_assign_ <= Last + 1
    <3>1. next_assign_ \in 1..(Last + 1)
      BY Zenon DEF StagedInv, StagedTypeOK
    <3>2. QED BY <3>1
  <2>3. \/ next_assign_' = next_assign_
        \/ next_assign_' = next_assign_ + 1 /\ next_assign_ <= Last
    BY <1>1 DEF GetWork
  <2>6. next_assign_' \in 1..(Last + 1)
    BY <2>1, <2>3
  <2>2. asleep' \subseteq Readers \cup {Main, Producer}
    BY <1>1 DEF GetWork, Sleeps, StagedInv, StagedTypeOK
  <2>4. \/ reader' = reader
        \/ ReaderGoes(r, "exit", None)
        \/ next_assign_ <= Last /\ ReaderGoes(r, "read", next_assign_)
    BY <1>1 DEF GetWork
  <2>5. reader' \in [Readers -> Places]
    <3>1. reader \in [Readers -> Places]
      BY Zenon DEF StagedInv, StagedTypeOK, Places
    <3>2. CASE reader' = reader
      BY <3>1, <3>2
    <3>3. CASE ReaderGoes(r, "exit", None)
      BY <3>1, <3>3, ReaderPlaces
    <3>4. CASE next_assign_ <= Last /\ ReaderGoes(r, "read", next_assign_)
      <4>1. next_assign_ \in 0..Last
        BY <2>1, <3>4
      <4>2. QED BY <3>1, <3>4, <4>1, ReaderPlaces
    <3>5. QED BY <2>4, <3>2, <3>3, <3>4
  <2>7. QED BY <1>1, <2>6, <2>2, <2>5 DEF Places, GetWork, StagedInv, StagedTypeOK, BlocksInOrder, InLine,
                                    EndOfBlocks, Abandoned
<1>2. CASE ReadBlock(r)
  <2>1. reader' \in [Readers -> [at : {"work", "read", "submit", "exit"}, block : 0..Last]]
    BY <1>2 DEF ReadBlock, ReaderGoes, StagedInv, StagedTypeOK
  <2>2. QED BY <1>2, <2>1 DEF ReadBlock, readState, StagedInv, StagedTypeOK, BlocksInOrder,
                              InLine, EndOfBlocks, Abandoned
<1>3. CASE ReadFails(r)
  <2>1. reader' \in [Readers -> [at : {"work", "read", "submit", "exit"}, block : 0..Last]]
    BY <1>3 DEF ReadFails, ReaderGoes, StagedInv, StagedTypeOK
  <2>2. asleep' \subseteq Readers \cup {Main, Producer}
    BY <1>3 DEF ReadFails, FailNotifies, StagedInv, StagedTypeOK
  <2>3. QED BY <1>3, <2>1, <2>2 DEF ReadFails, StagedInv, StagedTypeOK, BlocksInOrder,
                                    InLine, EndOfBlocks, Abandoned
<1>4. CASE Submit(r)
  <2>1. reader' \in [Readers -> Places]
    BY <1>4, ReaderPlaces DEF Submit, StagedInv, StagedTypeOK, Places
  <2>2. asleep' \subseteq Readers \cup {Main, Producer}
    BY <1>4 DEF Submit, StagedInv, StagedTypeOK
  <2>3. completed_' \subseteq 0..Last
    <3>1. reader[r].block \in 0..Last
      BY DEF StagedInv, StagedTypeOK
    <3>2. QED BY <1>4, <3>1 DEF Submit, StagedInv, StagedTypeOK
  <2>4. QED BY <1>4, <2>1, <2>2, <2>3 DEF Places, Submit, StagedInv, StagedTypeOK, BlocksInOrder,
                                          InLine, EndOfBlocks, Abandoned
<1>5. QED BY <1>1, <1>2, <1>3, <1>4 DEF ReaderStep

\* The lengths and the next block, as numbers.
LEMMA StagedNumbers ==
    ASSUME StagedInv
    PROVE  /\ Len(popped) \in Nat /\ Len(chunks_) \in Nat
           /\ next_emit_ \in Nat /\ 1 <= next_emit_ /\ next_emit_ <= Last + 1
           /\ popped \in Seq(0..Last) /\ chunks_ \in Seq(0..Last)
           /\ producer \in [at : {"pop", "push", "join", "end"}, block : 0..Last]
           /\ asleep \subseteq Readers \cup {Main, Producer}
<1>1. /\ popped \in Seq(0..Last) /\ chunks_ \in Seq(0..Last)
      /\ producer \in [at : {"pop", "push", "join", "end"}, block : 0..Last]
      /\ asleep \subseteq Readers \cup {Main, Producer}
      /\ next_emit_ \in 1..(Last + 1)
  BY Zenon DEF StagedInv, StagedTypeOK
<1>2. Len(popped) \in Nat /\ Len(chunks_) \in Nat
  BY <1>1
<1>3. QED BY <1>1, <1>2, ConstantTypes

\* The block whose turn it is goes to the producer.
LEMMA TakeNextStep ==
    ASSUME StagedInv, producer.at = "pop", next_emit_ <= Last, TakeNext,
           UNCHANGED <<next_assign_, reader, queue, main>>
    PROVE  StagedInv'
<1> USE ConstantTypes DEF queue, main
<1>1. producer' = [at |-> "push", block |-> next_emit_]
  BY DEF TakeNext, ProducerGoes
<1>2. producer'.at = "push" /\ producer'.block = next_emit_ /\ next_emit_' = next_emit_ + 1
  BY <1>1 DEF TakeNext
<1>3. StagedTypeOK'
  <2>1. next_emit_' \in 1..(Last + 1) /\ next_emit_ \in 0..Last
    BY <1>2, StagedNumbers
  <2>2. producer' \in [at : {"pop", "push", "join", "end"}, block : 0..Last]
    BY <1>1, <2>1
  <2>3. completed_' \subseteq 0..Last
    BY DEF TakeNext, StagedInv, StagedTypeOK
  <2>4. asleep' \subseteq Readers \cup {Main, Producer}
    BY StagedNumbers DEF TakeNext
  <2>5. QED BY <2>1, <2>2, <2>3, <2>4 DEF TakeNext, StagedInv, StagedTypeOK
<1>4. BlocksInOrder'
  BY DEF StagedInv, BlocksInOrder
<1>5. InLine'
  <2>1. CASE Abandoned
    BY <2>1 DEF InLine, Abandoned
  <2>2. CASE ~Abandoned
    <3>1. next_emit_ = Len(popped) + Len(chunks_) + 1
      BY <2>2 DEF StagedInv, InLine
    <3>2. \A i \in DOMAIN chunks_ : chunks_[i] = Len(popped) + i
      BY <2>2 DEF StagedInv, InLine
    <3>3. QED BY <1>2, <3>1, <3>2 DEF InLine, Abandoned
  <2>3. QED BY <2>1, <2>2
<1>6. EndOfBlocks'
  BY <1>2 DEF StagedInv, EndOfBlocks, TakeNext, Abandoned
<1>7. QED BY <1>3, <1>4, <1>5, <1>6 DEF StagedInv

LEMMA PopNextStep ==
    ASSUME StagedInv, PopNext
    PROVE  StagedInv'
<1> USE ConstantTypes DEF queue, main
<1>0. producer.at = "pop" /\ UNCHANGED <<next_assign_, reader, queue, main>>
  BY DEF PopNext
<1>1. CASE error_ /\ ProducerGoes("join", None) /\ producer_error' = TRUE /\ FailNotifies
           /\ UNCHANGED <<next_emit_, completed_, error_>>
  <2>1. producer' = [at |-> "join", block |-> None]
    BY <1>1 DEF ProducerGoes
  <2>2. producer'.at = "join" /\ producer' \in [at : {"pop", "push", "join", "end"}, block : 0..Last]
    BY <2>1
  <2>3. asleep' \subseteq Readers \cup {Main, Producer}
    BY <1>1, StagedNumbers DEF FailNotifies
  <2>4. StagedTypeOK'
    BY <1>0, <1>1, <2>2, <2>3 DEF StagedInv, StagedTypeOK
  <2>5. BlocksInOrder' /\ InLine'
    BY <1>0, <1>1, <2>2 DEF StagedInv, BlocksInOrder, InLine, Abandoned
  <2>6. EndOfBlocks'
    BY <1>0, <1>1, <2>2 DEF StagedInv, EndOfBlocks, Abandoned
  <2>7. QED BY <2>4, <2>5, <2>6 DEF StagedInv
<1>2. CASE next_emit_ > Last /\ ProducerGoes("join", None)
           /\ UNCHANGED <<next_emit_, completed_, error_, producer_error, asleep>>
  <2>1. producer' = [at |-> "join", block |-> None]
    BY <1>2 DEF ProducerGoes
  <2>2. producer'.at = "join" /\ producer' \in [at : {"pop", "push", "join", "end"}, block : 0..Last]
    BY <2>1
  <2>4. StagedTypeOK'
    BY <1>0, <1>2, <2>2 DEF StagedInv, StagedTypeOK
  <2>5. BlocksInOrder' /\ InLine'
    BY <1>0, <1>2, <2>2 DEF StagedInv, BlocksInOrder, InLine, Abandoned
  <2>6. EndOfBlocks'
    BY <1>0, <1>2, <2>2 DEF StagedInv, EndOfBlocks, Abandoned
  <2>7. QED BY <2>4, <2>5, <2>6 DEF StagedInv
<1>3. CASE next_emit_ <= Last /\ TakeNext
  BY <1>0, <1>3, TakeNextStep
<1>4. CASE Sleeps(Producer)
           /\ UNCHANGED <<next_emit_, completed_, error_, producer, producer_error>>
  <2>1. asleep' \subseteq Readers \cup {Main, Producer}
    BY <1>4, StagedNumbers DEF Sleeps
  <2>2. StagedTypeOK'
    BY <1>0, <1>4, <2>1 DEF StagedInv, StagedTypeOK
  <2>3. BlocksInOrder' /\ InLine' /\ EndOfBlocks'
    BY <1>0, <1>4 DEF StagedInv, BlocksInOrder, InLine, EndOfBlocks, Abandoned
  <2>4. QED BY <2>2, <2>3 DEF StagedInv
<1>5. QED BY <1>1, <1>2, <1>3, <1>4 DEF PopNext

LEMMA PushChunkStep ==
    ASSUME StagedInv, PushChunk
    PROVE  StagedInv'
<1> USE ConstantTypes DEF readState, main
<1>0. producer.at = "push" /\ UNCHANGED <<readState, reader, producer_error, done_, main>>
  BY DEF PushChunk
<1>1. CASE done_ /\ ProducerGoes("pop", None) /\ UNCHANGED <<chunks_, asleep>>
  <2>1. Abandoned
    BY <1>0, <1>1 DEF StagedInv, EndOfBlocks
  <2>2. producer' = [at |-> "pop", block |-> None]
    BY <1>1 DEF ProducerGoes
  <2>3. producer'.at = "pop" /\ producer' \in [at : {"pop", "push", "join", "end"}, block : 0..Last]
    BY <2>2
  <2>4. StagedTypeOK'
    BY <1>0, <1>1, <2>3 DEF StagedInv, StagedTypeOK
  <2>5. BlocksInOrder' /\ InLine' /\ EndOfBlocks'
    BY <1>0, <1>1, <2>1, <2>3 DEF StagedInv, BlocksInOrder, InLine, EndOfBlocks, Abandoned
  <2>6. QED BY <2>4, <2>5 DEF StagedInv
<1>2. CASE ~done_ /\ ProducerGoes("pop", None)
           /\ chunks_' = Append(chunks_, producer.block) /\ asleep' = asleep \ OnNotEmpty
  <2>1. producer' = [at |-> "pop", block |-> None]
    BY <1>2 DEF ProducerGoes
  <2>2. producer'.at = "pop" /\ producer' \in [at : {"pop", "push", "join", "end"}, block : 0..Last]
    BY <2>1
  <2>3. feeding \notin {"join", "fed", "bad source"}
    BY <1>2 DEF StagedInv, EndOfBlocks
  <2>4. producer.block \in 0..Last
    BY StagedNumbers
  <2>5. chunks_' \in Seq(0..Last)
    BY <1>2, <2>4, StagedNumbers
  <2>6. StagedTypeOK'
    BY <1>0, <1>2, <2>2, <2>5, StagedNumbers DEF StagedInv, StagedTypeOK
  <2>7. BlocksInOrder'
    BY <1>0 DEF StagedInv, BlocksInOrder
  <2>8. InLine'
    <3>1. CASE Abandoned
      BY <1>0, <3>1 DEF InLine, Abandoned
    <3>2. CASE ~Abandoned
      <4>1. /\ \A i \in DOMAIN chunks_ : chunks_[i] = Len(popped) + i
            /\ producer.block = Len(popped) + Len(chunks_) + 1
            /\ next_emit_ = producer.block + 1
        BY <1>0, <3>2 DEF StagedInv, InLine
      <4>2. Len(chunks_') = Len(chunks_) + 1
        BY <1>2, StagedNumbers
      <4>3. next_emit_' = Len(popped') + Len(chunks_') + 1
        BY <1>0, <4>1, <4>2, StagedNumbers
      <4>4. ASSUME NEW i \in DOMAIN chunks_' PROVE chunks_'[i] = Len(popped') + i
        <5>1. i \in 1..(Len(chunks_) + 1)
          BY <4>2, <4>4, <2>5
        <5>2. CASE i \in 1..Len(chunks_)
          <6>1. chunks_'[i] = chunks_[i] /\ i \in DOMAIN chunks_
            BY <1>2, <2>4, <5>2, StagedNumbers, AppendProperties
          <6>2. QED BY <1>0, <4>1, <6>1
        <5>3. CASE i = Len(chunks_) + 1
          <6>1. chunks_'[i] = producer.block
            BY <1>2, <2>4, <5>3, StagedNumbers, AppendProperties
          <6>2. QED BY <1>0, <4>1, <5>3, <6>1
        <5>4. QED BY <5>1, <5>2, <5>3, StagedNumbers
      <4>5. QED BY <1>0, <2>2, <4>3, <4>4 DEF InLine, Abandoned
    <3>3. QED BY <3>1, <3>2
  <2>9. EndOfBlocks'
    BY <1>0, <1>2, <2>2, <2>3 DEF StagedInv, EndOfBlocks, Abandoned
  <2>10. QED BY <2>6, <2>7, <2>8, <2>9 DEF StagedInv
<1>3. CASE Sleeps(Producer) /\ UNCHANGED <<chunks_, producer>>
  <2>1. asleep' \subseteq Readers \cup {Main, Producer}
    BY <1>3, StagedNumbers DEF Sleeps
  <2>2. StagedTypeOK'
    BY <1>0, <1>3, <2>1 DEF StagedInv, StagedTypeOK
  <2>3. BlocksInOrder' /\ InLine' /\ EndOfBlocks'
    BY <1>0, <1>3 DEF StagedInv, BlocksInOrder, InLine, EndOfBlocks, Abandoned
  <2>4. QED BY <2>2, <2>3 DEF StagedInv
<1>4. QED BY <1>1, <1>2, <1>3 DEF PushChunk

LEMMA JoinReadersStep ==
    ASSUME StagedInv, JoinReaders
    PROVE  StagedInv'
<1> USE ConstantTypes DEF readState, main
<1>0. /\ producer.at = "join" /\ done_' = TRUE
      /\ UNCHANGED <<readState, reader, producer_error, chunks_, main>>
  BY DEF JoinReaders
<1>1. producer' = [at |-> "end", block |-> None]
  BY DEF JoinReaders, ProducerGoes
<1>2. producer'.at = "end" /\ producer' \in [at : {"pop", "push", "join", "end"}, block : 0..Last]
  BY <1>1
<1>3. asleep' \subseteq Readers \cup {Main, Producer}
  BY StagedNumbers DEF JoinReaders
<1>4. StagedTypeOK'
  BY <1>0, <1>2, <1>3 DEF StagedInv, StagedTypeOK
<1>5. BlocksInOrder' /\ InLine'
  BY <1>0, <1>2 DEF StagedInv, BlocksInOrder, InLine, Abandoned
<1>6. EndOfBlocks'
  BY <1>0, <1>2 DEF StagedInv, EndOfBlocks, Abandoned
<1>7. QED BY <1>4, <1>5, <1>6 DEF StagedInv

LEMMA PopChunkStep ==
    ASSUME StagedInv, PopChunk
    PROVE  StagedInv'
<1> USE ConstantTypes DEF readState
<1>0. feeding = "feed" /\ UNCHANGED <<readState, reader, producer, producer_error, done_>>
  BY DEF PopChunk
<1>1. CASE /\ chunks_ # <<>> /\ popped' = Append(popped, Head(chunks_))
           /\ chunks_' = Tail(chunks_) /\ asleep' = asleep \ OnNotFull /\ feeding' = feeding
  <2>1. /\ Head(chunks_) \in 0..Last /\ chunks_' \in Seq(0..Last)
        /\ Len(chunks_') = Len(chunks_) - 1 /\ Len(chunks_) \in Nat \ {0}
        /\ Head(chunks_) = chunks_[1] /\ 1 \in DOMAIN chunks_
    BY <1>1, StagedNumbers
  <2>2. popped' \in Seq(0..Last) /\ Len(popped') = Len(popped) + 1
    BY <1>1, <2>1, StagedNumbers
  <2>3. asleep' \subseteq Readers \cup {Main, Producer}
    BY <1>1, StagedNumbers
  <2>4. StagedTypeOK'
    BY <1>0, <1>1, <2>1, <2>2, <2>3 DEF StagedInv, StagedTypeOK
  <2>5. \A i \in DOMAIN chunks_ : chunks_[i] = Len(popped) + i
    BY <1>0 DEF StagedInv, InLine, Abandoned
  <2>6. BlocksInOrder'
    <3>1. ASSUME NEW i \in DOMAIN popped' PROVE popped'[i] = i
      <4>1. i \in 1..(Len(popped) + 1)
        BY <2>2, <3>1
      <4>2. CASE i \in 1..Len(popped)
        <5>1. popped'[i] = popped[i] /\ i \in DOMAIN popped
          BY <1>1, <2>1, <4>2, StagedNumbers
        <5>2. QED BY <5>1 DEF StagedInv, BlocksInOrder
      <4>3. CASE i = Len(popped) + 1
        <5>1. chunks_[1] = Len(popped) + 1
          BY <2>1, <2>5
        <5>2. popped'[i] = Head(chunks_)
          <6>1. popped \in Seq(0..Last) /\ Head(chunks_) \in 0..Last
            BY <2>1, StagedNumbers
          <6>2. QED BY <1>1, <4>3, <6>1
        <5>3. QED BY <2>1, <4>3, <5>1, <5>2
      <4>4. QED BY <4>1, <4>2, <4>3, StagedNumbers
    <3>2. QED BY <1>0, <1>1, <3>1 DEF BlocksInOrder
  <2>7. InLine'
    <3>1. \A i \in DOMAIN chunks_' : chunks_'[i] = Len(popped') + i
      <4>1. ASSUME NEW i \in DOMAIN chunks_' PROVE chunks_'[i] = Len(popped') + i
        <5>1. i \in Nat /\ i + 1 \in DOMAIN chunks_ /\ chunks_'[i] = chunks_[i + 1]
          <6>1. i \in 1..(Len(chunks_) - 1)
            BY <2>1, <4>1
          <6>2. Len(chunks_) \in Nat /\ chunks_ \in Seq(0..Last) /\ chunks_ # <<>>
            BY <1>1, StagedNumbers
          <6>3. Tail(chunks_)[i] = chunks_[i + 1]
            BY <6>1, <6>2, HeadTailProperties
          <6>4. QED BY <1>1, <6>1, <6>2, <6>3
        <5>2. QED BY <2>2, <2>5, <5>1, StagedNumbers
      <4>2. QED BY <4>1
    <3>2. Len(popped') + Len(chunks_') = Len(popped) + Len(chunks_)
      BY <2>1, <2>2, StagedNumbers
    <3>3. /\ producer.at = "push" =>
                producer.block = Len(popped') + Len(chunks_') + 1 /\ next_emit_ = producer.block + 1
          /\ producer.at # "push" => next_emit_ = Len(popped') + Len(chunks_') + 1
      BY <1>0, <3>2 DEF StagedInv, InLine, Abandoned
    <3>4. QED BY <1>0, <3>1, <3>3 DEF InLine
  <2>8. EndOfBlocks'
    BY <1>0, <1>1 DEF StagedInv, EndOfBlocks, Abandoned
  <2>9. QED BY <2>4, <2>6, <2>7, <2>8 DEF StagedInv
<1>2. CASE chunks_ = <<>> /\ done_ /\ feeding' = "join" /\ UNCHANGED <<popped, chunks_, asleep>>
  <2>1. StagedTypeOK'
    BY <1>0, <1>2 DEF StagedInv, StagedTypeOK
  <2>2. BlocksInOrder' /\ InLine' /\ EndOfBlocks'
    BY <1>0, <1>2 DEF StagedInv, BlocksInOrder, InLine, EndOfBlocks, Abandoned
  <2>3. QED BY <1>0, <2>1, <2>2 DEF StagedInv
<1>3. CASE Sleeps(Main) /\ UNCHANGED <<popped, chunks_, feeding>>
  <2>1. asleep' \subseteq Readers \cup {Main, Producer}
    BY <1>3, StagedNumbers DEF Sleeps
  <2>2. StagedTypeOK'
    BY <1>0, <1>3, <2>1 DEF StagedInv, StagedTypeOK
  <2>3. BlocksInOrder' /\ InLine' /\ EndOfBlocks'
    BY <1>0, <1>3 DEF StagedInv, BlocksInOrder, InLine, EndOfBlocks, Abandoned
  <2>4. QED BY <2>2, <2>3 DEF StagedInv
<1>4. QED BY <1>1, <1>2, <1>3 DEF PopChunk

\* Main gives up, or joins the producer.
LEMMA FeedEndStep ==
    ASSUME StagedInv, GiveUp \/ JoinProducer
    PROVE  StagedInv'
<1> USE ConstantTypes DEF readState, queue
<1>1. CASE GiveUp
  <2>1. asleep' \subseteq Readers \cup {Main, Producer}
    BY <1>1, StagedNumbers DEF GiveUp
  <2>2. StagedTypeOK'
    BY <1>1, <2>1 DEF GiveUp, StagedInv, StagedTypeOK
  <2>3. BlocksInOrder' /\ InLine' /\ EndOfBlocks'
    BY <1>1 DEF GiveUp, StagedInv, BlocksInOrder, InLine, EndOfBlocks, Abandoned
  <2>4. QED BY <2>2, <2>3 DEF StagedInv
<1>2. CASE JoinProducer
  <2>1. StagedTypeOK'
    BY <1>2 DEF JoinProducer, StagedInv, StagedTypeOK, StagedEnds
  <2>2. feeding' \in {"aborted", "bad source", "fed"}
        /\ (feeding' = "fed" => feeding = "join" /\ ~producer_error)
        /\ (feeding' = "aborted" <=> feeding = "given up")
    BY <1>2 DEF JoinProducer
  <2>3. InLine' /\ EndOfBlocks'
    BY <1>2, <2>2 DEF JoinProducer, StagedInv, InLine, EndOfBlocks, Abandoned
  <2>4. BlocksInOrder'
    <3>1. ASSUME feeding' = "fed" PROVE Len(popped) = Last
      <4>1. feeding = "join" /\ ~producer_error /\ producer.at = "end"
        BY <1>2, <2>2, <3>1 DEF JoinProducer
      <4>2. chunks_ = <<>> /\ next_emit_ > Last
        BY <4>1 DEF StagedInv, EndOfBlocks
      <4>3. next_emit_ = Len(popped) + Len(chunks_) + 1
        BY <4>1 DEF StagedInv, InLine, Abandoned
      <4>4. QED BY <4>2, <4>3, StagedNumbers
    <3>2. QED BY <1>2, <3>1 DEF JoinProducer, StagedInv, BlocksInOrder
  <2>5. QED BY <2>1, <2>3, <2>4 DEF StagedInv
<1>3. QED BY <1>1, <1>2

LEMMA StagedStep ==
    ASSUME StagedInv, [Next]_vars
    PROVE  StagedInv'
<1>1. CASE Staged(StagedNext)
  BY <1>1, StagedReaderStep, PopNextStep, PushChunkStep, JoinReadersStep, PopChunkStep,
     FeedEndStep DEF Staged, StagedNext, ProducerStep, FeedStep
<1>2. CASE UNCHANGED stagedVars
  BY <1>2 DEF stagedVars, readState, queue, main, StagedInv, StagedTypeOK, BlocksInOrder,
              InLine, EndOfBlocks, Abandoned
<1>3. QED BY <1>1, <1>2 DEF Next, Direct, vars

\* Main sees the blocks of the stream in order, each once, whichever reader
\* thread read them, for every block list, window and queue depth; and all of
\* them if the source ends without an error (StripedReadState, ChunkQueue).
THEOREM StagedSafe == Spec => []StagedInv
<1>1. Init => StagedInv
  BY StagedInvInit DEF Init
<1>2. StagedInv /\ [Next]_vars => StagedInv'
  BY StagedStep
<1>3. QED BY <1>1, <1>2, PTL DEF Spec

-----------------------------------------------------------------------------
(* The direct path: addresses and types.                                   *)

\* A stream position always names an address of the ring.
LEMMA AddressInRing ==
    ASSUME NEW n \in Nat
    PROVE  Address(n) \in Addresses
<1>1. n % Capacity \in 0..(Capacity - 1)
  BY DivMod, ConstantTypes
<1>2. CASE PingPong
  BY <1>1, <1>2, ConstantTypes DEF Address, Addresses, Banks, Capacity
<1>3. CASE ~PingPong
  BY <1>1, <1>3, ConstantTypes DEF Address, Addresses, Banks, Capacity
<1>4. QED BY <1>2, <1>3

\* Positions less than one capacity apart never share an address.
LEMMA AddressDistinct ==
    ASSUME NEW i \in Nat, NEW j \in Nat, i # j,
           i < j + Capacity, j < i + Capacity
    PROVE  Address(i) # Address(j)
<1>1. i % Capacity # j % Capacity
  <2>1. CASE i < j
    BY <2>1, WindowDistinct, ConstantTypes
  <2>2. CASE j < i
    BY <2>2, WindowDistinct, ConstantTypes
  <2>3. QED BY <2>1, <2>2
<1> DEFINE p == i % Capacity
           q == j % Capacity
<1>2. p \in Int /\ q \in Int /\ p # q
  BY <1>1, DivMod, ConstantTypes
<1>3. /\ Address(i) = IF p >= Ring THEN <<1, p - Ring>> ELSE <<0, p>>
      /\ Address(j) = IF q >= Ring THEN <<1, q - Ring>> ELSE <<0, q>>
  BY DEF Address
<1> HIDE DEF p, q
<1>4. QED BY <1>2, <1>3, ConstantTypes

\* A block has a positive number of beats.
LEMMA BeatsPositive ==
    ASSUME NEW b \in 1..Last
    PROVE  Beats(b) \in Nat \ {0}
<1>1. Blocks[b] \in Nat \ {0}
  BY ConstantTypes DEF Last
<1>2. \A x, y \in Nat \ {0} : x * y \in Nat \ {0}
  OBVIOUS
<1>3. QED BY <1>1, <1>2, ConstantTypes DEF Beats

Spots == [at : {"open", "pop", "copy", "exit"}, block : 0..Last, copied : Nat]

\* The numbers of the direct path.
LEMMA DirectNumbers ==
    ASSUME DirectTypeOK
    PROVE  /\ read_count \in Nat /\ ring_write \in Nat
           /\ reserved_count \in Nat /\ write_count \in Nat /\ packet_count \in Nat
           /\ next_assign \in Nat /\ 1 <= next_assign /\ next_assign <= Last + 1
           /\ next_commit \in Nat /\ 1 <= next_commit /\ next_commit <= Last + 1
           /\ \A b \in 1..Last : block_begin[b] \in Nat
           /\ block_done \subseteq 1..Last
           /\ jobs_ \in Seq(1..Last) /\ Len(jobs_) \in Nat
           /\ completions \in Seq(1..Last)
           /\ rd_lo \in Nat /\ rd \in Nat /\ write_shadow \in Nat
           /\ worker \in [Readers -> Spots]
           /\ dozing \subseteq Readers \cup {Main}
<1>1. /\ read_count \in Nat /\ ring_write \in Nat
      /\ reserved_count \in Nat /\ write_count \in Nat /\ packet_count \in Nat
      /\ next_assign \in 1..(Last + 1) /\ next_commit \in 1..(Last + 1)
      /\ block_begin \in [1..Last -> Nat] /\ block_done \subseteq 1..Last
      /\ jobs_ \in Seq(1..Last) /\ completions \in Seq(1..Last)
      /\ rd_lo \in 0..(Word - 1) /\ rd \in Nat /\ write_shadow \in 0..(Word - 1)
      /\ worker \in [Readers -> Spots] /\ dozing \subseteq Readers \cup {Main}
  BY Zenon DEF DirectTypeOK, ConsumerTypeOK, Spots
<1>2. Len(jobs_) \in Nat
  BY <1>1
<1>3. next_assign \in Nat /\ next_commit \in Nat /\ rd_lo \in Nat /\ write_shadow \in Nat
  BY <1>1, ConstantTypes
<1>4. /\ 1 <= next_assign /\ next_assign <= Last + 1
      /\ 1 <= next_commit /\ next_commit <= Last + 1
  BY <1>1, ConstantTypes
<1>5. QED BY <1>1, <1>2, <1>3, <1>4

DirectParts ==
    /\ BlocksTile /\ InOneHand /\ CommittedPrefix /\ RingWindow
    /\ CommittedHeld /\ CopiedInRing /\ DirectPollSound /\ DirectPosition

LEMMA DirectInvInit == DirectInit => DirectTypeOK /\ DirectParts
<1> SUFFICES ASSUME DirectInit PROVE DirectTypeOK /\ DirectParts
  OBVIOUS
<1> USE ConstantTypes
<1>1. DirectTypeOK
  <2>1. 1 \in 1..(Last + 1) /\ 0 \in 0..(Word - 1)
    OBVIOUS
  <2>2. jobs_ \in Seq(1..Last) /\ completions \in Seq(1..Last) /\ got \in Seq(Nat \cup {NoBeat})
    BY EmptySeq DEF DirectInit
  <2>3. worker \in [Readers -> [at : {"open", "pop", "copy", "exit"}, block : 0..Last,
                                copied : Nat]]
    BY DEF DirectInit
  <2>4. mem \in [Addresses -> Nat \cup {NoBeat}] /\ block_begin \in [1..Last -> Nat]
    BY DEF DirectInit
  <2>5. ConsumerTypeOK
    BY DEF DirectInit, ConsumerInit, ConsumerTypeOK
  <2>6. QED BY <2>1, <2>2, <2>3, <2>4, <2>5 DEF DirectInit, DirectTypeOK, DirectOutcomes
<1>2. /\ next_assign = 1 /\ next_commit = 1 /\ reserved_count = 0 /\ write_count = 0
      /\ jobs_ = <<>> /\ completions = <<>> /\ block_done = {}
      /\ \A r \in Readers : worker[r].at = "open"
      /\ pc = "assign" /\ read_count = 0 /\ ring_write = 0 /\ state = "idle" /\ ~started
  BY DEF DirectInit, ConsumerInit
<1>3. Len(jobs_) = 0 /\ DOMAIN jobs_ = {} /\ DOMAIN completions = {}
  BY <1>2
<1>4. BlocksTile
  BY <1>2 DEF BlocksTile
<1>5. InOneHand
  BY <1>2, <1>3 DEF InOneHand
<1>6. CommittedPrefix /\ RingWindow
  BY <1>2 DEF CommittedPrefix, RingWindow
<1>7. CommittedHeld /\ CopiedInRing
  BY <1>2, <1>3 DEF CommittedHeld, CopiedInRing, Held
<1>8. DirectPollSound /\ DirectPosition
  BY <1>2 DEF DirectPollSound, DirectPosition, BoardLive
<1>9. QED BY <1>1, <1>4, <1>5, <1>6, <1>7, <1>8 DEF DirectParts

Bookkeeping == <<consumerVars, board, source, committed, polled, threads, block_done,
                 started, dozing>>

\* A step that only moves main.
LEMMA MainMovesTyped ==
    ASSUME DirectTypeOK, UNCHANGED Bookkeeping,
           pc' \in {"assign", "rdlo", "rdhi", "decide", "collect", "commit", "wrlo", "wrhi",
                    "start", "start early", "start last", "finish", "join", "count", "eof",
                    "wait", "stop", "clear", "end"},
           outcome' \in DirectOutcomes, scheduled' \in BOOLEAN
    PROVE  DirectTypeOK'
  BY DEF Bookkeeping, DirectTypeOK, ConsumerTypeOK, consumerVars, board, ring, source,
         committed, polled, threads, jobQueue, completionQueue

LEMMA MainStepTyped ==
    ASSUME DirectTypeOK, DirectPosition, CommittedPrefix, MainStep \/ WaitTimesOut
    PROVE  DirectTypeOK'
<1> USE ConstantTypes DEF consumerVars, board, ring, source, committed, polled, threads,
        jobQueue, completionQueue, place
<1>1. CASE EnterAssign \/ PollAbort \/ NoRoom
  <2>1. UNCHANGED Bookkeeping
    BY <1>1 DEF EnterAssign, PollAbort, NoRoom, Bookkeeping
  <2>2. pc' \in {"collect", "rdlo", "finish"} /\ outcome' \in DirectOutcomes /\ scheduled' \in BOOLEAN
    BY <1>1 DEF EnterAssign, PollAbort, NoRoom, Fail, DirectTypeOK, DirectOutcomes
  <2>3. QED BY <2>1, <2>2, MainMovesTyped
<1>2. CASE CommitNoMore \/ JoinWorkers \/ WaitDone \/ WaitTimesOut
  <2>1. UNCHANGED Bookkeeping
    BY <1>2 DEF CommitNoMore, JoinWorkers, WaitDone, WaitTimesOut, Bookkeeping
  <2>2. pc' \in {"finish", "assign", "count", "stop", "end"} /\ outcome' \in DirectOutcomes
        /\ scheduled' \in BOOLEAN
    BY <1>2 DEF CommitNoMore, JoinWorkers, WaitDone, WaitTimesOut, Fail, DirectTypeOK,
                DirectOutcomes
  <2>3. QED BY <2>1, <2>2, MainMovesTyped
<1>3. CASE ReadLo
  <2>1. read_count % Word \in 0..(Word - 1)
    BY DivMod, DirectNumbers
  <2>2. QED BY <1>3, <2>1 DEF ReadLo, DirectTypeOK, ConsumerTypeOK
<1>4. CASE ReadHi
  <2>1. (read_count \div Word) * Word + rd_lo \in Nat
    <3>1. read_count \div Word \in Nat
      BY DivMod, DirectNumbers
    <3>2. QED BY <3>1, WordsJoin, DirectNumbers
  <2>2. QED BY <1>4, <2>1 DEF ReadHi, DirectTypeOK, ConsumerTypeOK
<1>5. CASE AssignBlock
  <2>1. next_assign <= Last /\ next_assign \in 1..Last
    BY <1>5, DirectNumbers DEF AssignBlock, PollOK, DirectPosition
  <2>2. Beats(next_assign) \in Nat
    BY <2>1, BeatsPositive
  <2>3. jobs_' \in Seq(1..Last) /\ next_assign' \in 1..(Last + 1)
    BY <1>5, <2>1, DirectNumbers DEF AssignBlock
  <2>4. block_begin' \in [1..Last -> Nat] /\ reserved_count' \in Nat
    <3>1. reserved_count \in Nat /\ block_begin \in [1..Last -> Nat]
      BY Zenon DEF DirectTypeOK
    <3>2. /\ reserved_count' = reserved_count + Beats(next_assign)
          /\ block_begin' = [block_begin EXCEPT ![next_assign] = reserved_count]
      BY <1>5, Zenon DEF AssignBlock
    <3>3. reserved_count' \in Nat
      BY <2>2, <3>1, <3>2
    <3>4. QED BY <2>1, <3>1, <3>2, <3>3, Zenon
  <2>5. dozing' \subseteq Readers \cup {Main}
    BY <1>5, DirectNumbers DEF AssignBlock, NotifyOne
  <2>6. QED BY <1>5, <2>3, <2>4, <2>5 DEF AssignBlock, DirectTypeOK, ConsumerTypeOK
<1>6. CASE Collect
  <2>1. pc' \in {"finish", "commit", "collect"} /\ outcome' \in DirectOutcomes /\ scheduled' \in BOOLEAN
    BY <1>6 DEF Collect, Fail, DirectTypeOK, DirectOutcomes
  <2>2. block_done' \subseteq 1..Last /\ completions' \in Seq(1..Last)
    <3>1. block_done \subseteq 1..Last /\ completions \in Seq(1..Last)
      BY Zenon, DirectNumbers
    <3>2. CASE completions = <<>>
      BY <1>6, <3>1, <3>2, Zenon DEF Collect
    <3>3. CASE completions # <<>>
      <4>1. Head(completions) \in 1..Last /\ Tail(completions) \in Seq(1..Last)
        BY <3>1, <3>3, HeadTailProperties
      <4>2. QED BY <1>6, <3>1, <3>3, <4>1, Zenon DEF Collect
    <3>4. QED BY <3>2, <3>3
  <2>3. dozing' \subseteq Readers \cup {Main}
    BY <1>6, DirectNumbers DEF Collect
  <2>4. QED BY <1>6, <2>1, <2>2, <2>3 DEF Collect, DirectTypeOK, ConsumerTypeOK
<1>7. CASE CollectTimesOut \/ FinishJobs
  <2>1. dozing' \subseteq Readers \cup {Main}
    BY <1>7, DirectNumbers DEF CollectTimesOut, FinishJobs
  <2>2. pc' \in {"start early", "assign", "join"} /\ scheduled' \in BOOLEAN /\ finished' \in BOOLEAN
    BY <1>7 DEF CollectTimesOut, FinishJobs, DirectTypeOK
  <2>3. UNCHANGED <<consumerVars, board, source, committed, polled, jobs_, completionQueue,
                    worker, block_done, outcome, started>>
    BY <1>7, Zenon DEF CollectTimesOut, FinishJobs
  <2>4. ConsumerTypeOK'
    BY <2>3, Zenon DEF DirectTypeOK, ConsumerTypeOK, consumerVars
  <2>5. QED BY <2>1, <2>2, <2>3, <2>4 DEF DirectTypeOK
<1>8. CASE CommitBlock
  <2>1. next_commit \in 1..Last /\ Blocks[next_commit] \in Nat
    BY <1>8, DirectNumbers DEF CommitBlock, Last
  <2>2. write_count' \in Nat /\ packet_count' \in Nat
    <3>1. /\ block_begin[next_commit] \in Nat /\ Beats(next_commit) \in Nat
          /\ packet_count \in Nat
      BY <2>1, BeatsPositive, DirectNumbers
    <3>2. /\ write_count' = block_begin[next_commit] + Beats(next_commit)
          /\ packet_count' = packet_count + Blocks[next_commit]
      BY <1>8, Zenon DEF CommitBlock
    <3>3. QED BY <2>1, <3>1, <3>2
  <2>3. QED BY <1>8, <2>2 DEF CommitBlock, DirectTypeOK, ConsumerTypeOK
<1>9. CASE WriteLo
  <2>1. write_count % Word \in 0..(Word - 1)
    BY DivMod, DirectNumbers
  <2>2. QED BY <1>9, <2>1 DEF WriteLo, DirectTypeOK, ConsumerTypeOK
<1>10. CASE WriteHi
  <2>1. (write_count \div Word) * Word + write_shadow \in Nat
    <3>1. write_count \div Word \in Nat
      BY DivMod, DirectNumbers
    <3>2. QED BY <3>1, WordsJoin, DirectNumbers
  <2>2. next_commit' \in 1..(Last + 1)
    <3>1. next_commit \in 1..Last
      BY <1>10, DirectNumbers DEF WriteHi, CommittedPrefix
    <3>2. QED BY <1>10, <3>1 DEF WriteHi
  <2>3. QED BY <1>10, <2>1, <2>2 DEF WriteHi, DirectTypeOK, ConsumerTypeOK
<1>11. CASE StartReplay
  BY <1>11 DEF StartReplay, StartReader, DirectTypeOK, ConsumerTypeOK
<1>12. CASE WritePktCount \/ WriteEof
  <2>1. CASE WritePktCount
    BY <1>12, <2>1 DEF WritePktCount, DirectTypeOK, ConsumerTypeOK
  <2>2. CASE WriteEof
    <3>1. ConsumerTypeOK'
      BY <2>2 DEF WriteEof, RaiseEof, DirectTypeOK, ConsumerTypeOK
    <3>2. pc' \in {"wait", "start last"}
      BY <2>2 DEF WriteEof
    <3>3. UNCHANGED <<board, source, committed, polled, threads, block_done, outcome,
                      scheduled, started, dozing>>
      BY <2>2, Zenon DEF WriteEof
    <3>4. QED BY <3>1, <3>2, <3>3 DEF DirectTypeOK
  <2>3. QED BY <1>12, <2>1, <2>2
<1>13. CASE WriteStop
  BY <1>13 DEF WriteStop, StopReader, DirectTypeOK, ConsumerTypeOK
<1>14. CASE WriteClear
  <2>1. 0 \in 0..(Word - 1)
    OBVIOUS
  <2>2. QED BY <1>14, <2>1 DEF WriteClear, ClearRegisters, DirectTypeOK, ConsumerTypeOK
<1>15. QED BY <1>1, <1>2, <1>3, <1>4, <1>5, <1>6, <1>7, <1>8, <1>9, <1>10, <1>11, <1>12,
              <1>13, <1>14 DEF MainStep

\* A worker that goes somewhere.
LEMMA WorkerGoesTyped ==
    ASSUME worker \in [Readers -> Spots], NEW r \in Readers,
           NEW at \in {"open", "pop", "copy", "exit"}, NEW b \in 0..Last, NEW n \in Nat,
           WorkerGoes(r, at, b, n)
    PROVE  worker' \in [Readers -> Spots]
<1>1. [at |-> at, block |-> b, copied |-> n] \in Spots
  BY DEF Spots
<1>2. QED BY <1>1, Zenon DEF WorkerGoes

LEMMA WorkerStepTyped ==
    ASSUME DirectTypeOK, InOneHand, NEW r \in Readers, WorkerStep(r)
    PROVE  DirectTypeOK'
<1> USE ConstantTypes
<1>1. /\ worker \in [Readers -> Spots] /\ jobs_ \in Seq(1..Last) /\ completions \in Seq(1..Last)
      /\ dozing \subseteq Readers \cup {Main}
      /\ mem \in [Addresses -> Nat \cup {NoBeat}] /\ failed_ \in BOOLEAN
  BY Zenon, DirectNumbers DEF DirectTypeOK
<1>2. SUFFICES /\ worker' \in [Readers -> Spots] /\ jobs_' \in Seq(1..Last)
               /\ completions' \in Seq(1..Last) /\ failed_' \in BOOLEAN
               /\ dozing' \subseteq Readers \cup {Main}
               /\ mem' \in [Addresses -> Nat \cup {NoBeat}]
  <2>1. UNCHANGED <<consumerVars, got, write_shadow, pkt_count, source, committed, polled,
                    finished, block_done, place, started>>
    BY Zenon DEF WorkerStep
  <2>2. ConsumerTypeOK'
    BY <2>1, Zenon DEF DirectTypeOK, ConsumerTypeOK, consumerVars
  <2>3. UNCHANGED <<next_assign, block_begin, reserved_count, next_commit, write_count,
                    packet_count, rd_lo, rd, pc, outcome, scheduled>>
    BY <2>1, Zenon DEF source, committed, polled, place
  <2>4. QED BY <2>1, <2>2, <2>3, ZenonT(60) DEF DirectTypeOK, Spots
<1>3. None \in 0..Last /\ 0 \in Nat
  OBVIOUS
<1>4. CASE OpenDevice(r)
  <2>1. WorkerGoes(r, "pop", None, 0)
    BY <1>4, Zenon DEF OpenDevice
  <2>2. QED BY <1>1, <1>3, <1>4, <2>1, WorkerGoesTyped DEF OpenDevice, completionQueue
<1>5. CASE PopJob(r)
  <2>1. UNCHANGED <<mem, completions, failed_>>
    BY <1>5 DEF PopJob, completionQueue
  <2>2. CASE jobs_ = <<>>
    <3>1. worker' \in [Readers -> Spots]
      BY <1>1, <1>3, <1>5, <2>2, WorkerGoesTyped, Zenon DEF PopJob
    <3>2. QED BY <1>1, <1>5, <2>1, <2>2, <3>1 DEF PopJob
  <2>3. CASE jobs_ # <<>>
    <3>1. Head(jobs_) \in 1..Last /\ Tail(jobs_) \in Seq(1..Last)
      BY <1>1, <2>3, HeadTailProperties
    <3>2. WorkerGoes(r, "copy", Head(jobs_), 0) /\ jobs_' = Tail(jobs_) /\ UNCHANGED dozing
      BY <1>5, <2>3, Zenon DEF PopJob
    <3>3. Head(jobs_) \in 0..Last
      BY <3>1
    <3>4. worker' \in [Readers -> Spots]
      BY <1>1, <1>3, <3>2, <3>3, WorkerGoesTyped
    <3>5. QED BY <1>1, <2>1, <3>1, <3>2, <3>4, Zenon
  <2>4. QED BY <2>2, <2>3
<1>6. CASE CopyBeat(r)
  <2> DEFINE b == worker[r].block
             n == block_begin[b] + worker[r].copied
  <2>1. worker[r].at = "copy" /\ WorkerGoes(r, "copy", b, worker[r].copied + 1)
        /\ mem' = [mem EXCEPT ![Address(n)] = n]
        /\ UNCHANGED <<jobs_, completionQueue, dozing>>
    BY <1>6, Zenon DEF CopyBeat
  <2>2. b \in 0..Last /\ worker[r].copied \in Nat
    BY <1>1, Zenon DEF Spots
  <2>3. b \in 1..Last
    <3>1. b \in 1..(next_assign - Len(jobs_) - 1)
      BY <2>1, Zenon DEF InOneHand
    <3>2. QED BY <2>2, <3>1
  <2>4. n \in Nat
    <3>1. block_begin[b] \in Nat
      BY <2>3, DirectNumbers, Zenon
    <3> HIDE DEF b
    <3>2. QED BY <2>2, <3>1
  <2>5. worker[r].copied + 1 \in Nat
    BY <2>2
  <2> HIDE DEF b, n
  <2>6. worker' \in [Readers -> Spots]
    BY <1>1, <2>1, <2>2, <2>5, WorkerGoesTyped
  <2>7. mem' \in [Addresses -> Nat \cup {NoBeat}]
    BY <1>1, <2>1, <2>4, AddressInRing, Zenon
  <2>8. QED BY <1>1, <2>1, <2>6, <2>7 DEF completionQueue
<1>7. CASE CompleteBlock(r)
  <2>1. worker[r].block \in 1..Last
    <3>1. worker[r].block \in 0..Last /\ worker[r].at = "copy"
      BY <1>1, <1>7, Zenon DEF Spots, CompleteBlock
    <3>2. worker[r].block \in 1..(next_assign - Len(jobs_) - 1)
      BY <3>1, Zenon DEF InOneHand
    <3>3. QED BY <3>1, <3>2
  <2>2. WorkerGoes(r, "pop", None, 0) /\ completions' = Append(completions, worker[r].block)
        /\ dozing' = dozing \ {Main} /\ UNCHANGED <<mem, jobs_, failed_>>
    BY <1>7, Zenon DEF CompleteBlock, NotifyMain
  <2>3. completions' \in Seq(1..Last)
    BY <1>1, <2>1, <2>2, AppendProperties
  <2>4. worker' \in [Readers -> Spots]
    BY <1>1, <1>3, <2>2, WorkerGoesTyped
  <2>5. QED BY <1>1, <2>2, <2>3, <2>4, Zenon
<1>8. CASE WorkerFails(r)
  <2>1. WorkerGoes(r, "exit", None, 0) /\ failed_' = TRUE /\ dozing' = dozing \ {Main}
        /\ UNCHANGED <<mem, jobs_, completions>>
    BY <1>8, Zenon DEF WorkerFails, NotifyMain
  <2>2. worker' \in [Readers -> Spots]
    BY <1>1, <1>3, <2>1, WorkerGoesTyped
  <2>3. QED BY <1>1, <2>1, <2>2, Zenon
<1>9. QED BY <1>4, <1>5, <1>6, <1>7, <1>8, Zenon DEF WorkerStep

LEMMA BoardStepTyped ==
    ASSUME DirectTypeOK, DeliverBeat \/ ReaderFinishes
    PROVE  DirectTypeOK'
<1> USE ConstantTypes DEF board, ring, source, committed, polled, threads, jobQueue,
        completionQueue, place
<1>1. CASE DeliverBeat
  <2>1. mem[Address(read_count)] \in Nat \cup {NoBeat}
    <3>1. read_count \in Nat /\ mem \in [Addresses -> Nat \cup {NoBeat}]
      BY Zenon DEF DirectTypeOK, ConsumerTypeOK
    <3>2. QED BY <3>1, AddressInRing, Zenon
  <2>2. got' \in Seq(Nat \cup {NoBeat})
    <3>1. got \in Seq(Nat \cup {NoBeat}) /\ got' = Append(got, mem[Address(read_count)])
      BY <1>1, Zenon DEF DirectTypeOK, DeliverBeat
    <3>2. QED BY <2>1, <3>1, AppendProperties
  <2>3. ConsumerTypeOK'
    <3>1. PICK bad \in BOOLEAN : ConsumeBeat(bad)
      BY <1>1, Zenon DEF DeliverBeat
    <3>2. error \in BOOLEAN /\ read_count \in Nat
      BY Zenon DEF DirectTypeOK, ConsumerTypeOK
    <3>3. error' \in BOOLEAN
      BY <3>1, <3>2 DEF ConsumeBeat
    <3>4. read_count' \in Nat
      BY <3>1, <3>2 DEF ConsumeBeat
    <3>5. QED BY <3>1, <3>3, <3>4, Zenon DEF ConsumeBeat, DirectTypeOK, ConsumerTypeOK
  <2>4. QED BY <1>1, <2>2, <2>3 DEF DeliverBeat, DirectTypeOK
<1>2. CASE ReaderFinishes
  <2>1. ConsumerTypeOK'
    BY <1>2 DEF ReaderFinishes, FinishReader, DirectTypeOK, ConsumerTypeOK
  <2>2. UNCHANGED <<board, source, committed, polled, threads, block_done, place, started, dozing>>
    BY <1>2, Zenon DEF ReaderFinishes
  <2>3. QED BY <2>1, <2>2 DEF DirectTypeOK
<1>3. QED BY <1>1, <1>2

-----------------------------------------------------------------------------
(* The direct path: every step keeps the parts of the invariant.           *)

\* Where a block lies, as numbers.
LEMMA BlockNumbers ==
    ASSUME DirectTypeOK, NEW b \in 1..Last
    PROVE  /\ block_begin[b] \in Nat /\ Beats(b) \in Nat \ {0} /\ BlockEnd(b) \in Nat
           /\ BlockEnd(b) = block_begin[b] + Beats(b)
<1>1. block_begin[b] \in Nat /\ Beats(b) \in Nat \ {0}
  BY DirectNumbers, BeatsPositive, Zenon
<1>2. QED BY <1>1 DEF BlockEnd

\* The blocks the workers have taken from the queue.
taken == 1..(next_assign - Len(jobs_) - 1)

LEMMA TakenBlocks ==
    ASSUME DirectTypeOK, InOneHand
    PROVE  /\ taken \subseteq 1..(next_assign - 1) /\ 1..(next_assign - 1) \subseteq 1..Last
           /\ taken \subseteq 1..Last
           /\ block_done \subseteq taken
           /\ \A i \in DOMAIN completions : completions[i] \in taken
           /\ \A r \in Readers : worker[r].at = "copy" =>
                 /\ worker[r].block \in taken /\ worker[r].copied \in Nat
                 /\ worker[r].copied <= Beats(worker[r].block)
<1>1. /\ next_assign \in Nat /\ next_assign <= Last + 1 /\ Len(jobs_) \in Nat /\ Last \in Nat
      /\ block_done \subseteq 1..Last /\ completions \in Seq(1..Last)
      /\ worker \in [Readers -> Spots]
  BY DirectNumbers, ConstantTypes, Zenon
<1>2. taken \subseteq 1..(next_assign - 1) /\ 1..(next_assign - 1) \subseteq 1..Last
  BY <1>1 DEF taken
<1>3. block_done \subseteq taken
  <2>1. \A b \in block_done : b < next_assign - Len(jobs_)
    BY Zenon DEF InOneHand
  <2>2. QED BY <1>1, <2>1 DEF taken
<1>4. ASSUME NEW i \in DOMAIN completions PROVE completions[i] \in taken
  <2>1. completions[i] < next_assign - Len(jobs_)
    BY Zenon DEF InOneHand
  <2>2. completions[i] \in 1..Last
    BY <1>1, ElementOfSeq, LenProperties
  <2>3. QED BY <1>1, <2>1, <2>2 DEF taken
<1>5. ASSUME NEW r \in Readers, worker[r].at = "copy"
      PROVE  /\ worker[r].block \in taken /\ worker[r].copied \in Nat
             /\ worker[r].copied <= Beats(worker[r].block)
  <2>1. worker[r].copied \in Nat
    BY <1>1, Zenon DEF Spots
  <2>2. QED BY <1>5, <2>1, Zenon DEF InOneHand, taken
<1>6. QED BY <1>2, <1>3, <1>4, <1>5, Zenon

\* The committed prefix ends before every block that is not complete, and
\* within the reservation.
LEMMA PrefixEnds ==
    ASSUME DirectTypeOK, BlocksTile, InOneHand, CommittedPrefix
    PROVE  /\ write_count <= reserved_count
           /\ \A b \in 1..(next_assign - 1) : b \notin block_done => write_count <= block_begin[b]
           /\ next_commit \in block_done =>
                 IF next_commit = 1 THEN block_begin[1] = 0
                 ELSE BlockEnd(next_commit - 1) = block_begin[next_commit]
<1>1. /\ next_assign \in Nat /\ next_commit \in Nat \ {0} /\ Last \in Nat
      /\ reserved_count \in Nat /\ block_done \subseteq 1..(next_assign - 1)
      /\ 1..(next_assign - 1) \subseteq 1..Last
  BY DirectNumbers, ConstantTypes, TakenBlocks
<1>2. \A b \in 1..(next_assign - 1) :
          /\ block_begin[b] \in Nat /\ BlockEnd(b) \in Nat /\ BlockEnd(b) <= reserved_count
  BY <1>1, BlockNumbers, Zenon DEF BlocksTile
<1>3. \A b, c \in 1..(next_assign - 1) : b < c => BlockEnd(b) <= block_begin[c]
  BY Zenon DEF BlocksTile
<1>4. \A b \in 1..(next_commit - 1) : b \in block_done
  BY Zenon DEF CommittedPrefix
<1>0. ASSUME next_commit \in block_done
      PROVE  IF next_commit = 1 THEN block_begin[1] = 0
             ELSE BlockEnd(next_commit - 1) = block_begin[next_commit]
  <2>1. next_assign > 1 /\ next_commit <= next_assign - 1
    BY <1>0, <1>1
  <2>2. CASE next_commit = 1
    BY <2>1, <2>2, Zenon DEF BlocksTile
  <2>3. CASE next_commit # 1
    <3>1. next_commit - 1 \in 1..(next_assign - 2) /\ next_commit - 1 + 1 = next_commit
      BY <1>1, <2>1, <2>3
    <3>2. BlockEnd(next_commit - 1) = block_begin[next_commit - 1 + 1]
      BY <3>1, Zenon DEF BlocksTile
    <3>3. QED BY <2>3, <3>1, <3>2
  <2>4. QED BY <2>2, <2>3
<1>5. CASE pc \in {"wrlo", "wrhi"}
  <2>1. next_commit \in block_done /\ write_count = BlockEnd(next_commit)
    BY <1>5, Zenon DEF CommittedPrefix
  <2>2. next_commit \in 1..(next_assign - 1)
    BY <1>1, <2>1
  <2>3. write_count <= reserved_count
    BY <1>2, <2>1, <2>2
  <2>4. ASSUME NEW b \in 1..(next_assign - 1), b \notin block_done
        PROVE  write_count <= block_begin[b]
    <3>1. next_commit < b
      BY <1>1, <1>4, <2>1, <2>4
    <3>2. QED BY <1>3, <2>1, <2>2, <3>1
  <2>5. QED BY <2>3, <2>4, <1>0
<1>6. CASE pc \notin {"wrlo", "wrhi"}
  <2>1. write_count = IF next_commit = 1 THEN 0 ELSE BlockEnd(next_commit - 1)
    BY <1>6, Zenon DEF CommittedPrefix
  <2>2. next_commit # 1 => next_commit - 1 \in 1..(next_assign - 1)
    <3>1. next_commit # 1 => next_commit - 1 \in 1..(next_commit - 1)
      BY <1>1
    <3>2. QED BY <1>1, <1>4, <3>1
  <2>3. write_count <= reserved_count
    BY <1>1, <1>2, <2>1, <2>2
  <2>4. ASSUME NEW b \in 1..(next_assign - 1), b \notin block_done
        PROVE  write_count <= block_begin[b]
    <3>1. next_commit # 1 => next_commit - 1 < b
      BY <1>1, <1>4, <2>4
    <3>2. CASE next_commit = 1
      BY <1>2, <2>1, <3>2
    <3>3. CASE next_commit # 1
      BY <1>3, <2>1, <2>2, <3>1, <3>3
    <3>4. QED BY <3>2, <3>3
  <2>5. QED BY <2>3, <2>4, <1>0
<1>7. QED BY <1>5, <1>6

\* Who holds which block, and what is in the ring.
ledger == <<source, committed, block_done, jobs_, completions, worker, mem, read_count,
            ring_write>>

\* A step that leaves the ledger alone disturbs nothing but main's position.
LEMMA LedgerKeeps ==
    ASSUME BlocksTile, InOneHand, RingWindow, CommittedHeld, CopiedInRing,
           UNCHANGED ledger, BoardLive' => BoardLive
    PROVE  (BlocksTile /\ InOneHand /\ RingWindow /\ CommittedHeld /\ CopiedInRing)'
<1> USE DEF ledger, source, committed
<1>1. BlocksTile'
  BY DEF BlocksTile, BlockEnd
<1>2. InOneHand'
  BY DEF InOneHand
<1>3. RingWindow'
  BY DEF RingWindow
<1>4. CommittedHeld'
  BY DEF CommittedHeld, Held
<1>5. CopiedInRing'
  BY DEF CopiedInRing, Held, BlockEnd
<1>6. QED BY <1>1, <1>2, <1>3, <1>4, <1>5

\* Steps of main that touch no block, and the end of the reader.
Moves ==
    \/ EnterAssign \/ ReadLo \/ ReadHi \/ PollAbort \/ NoRoom \/ CollectTimesOut
    \/ CommitNoMore \/ WriteLo \/ StartReplay \/ FinishJobs \/ JoinWorkers \/ WritePktCount
    \/ WriteEof \/ WaitDone \/ WaitTimesOut \/ ReaderFinishes

\* What the steps on the words of a pointer leave alone.
LEMMA WordSteps ==
    /\ ReadLo => /\ pc = "rdlo" /\ pc' = "rdhi" /\ rd_lo' = read_count % Word
                 /\ UNCHANGED <<consumerVars, ring, source, committed, threads, block_done,
                                write_shadow, started>>
    /\ ReadHi => /\ pc = "rdhi" /\ pc' = "decide"
                 /\ rd' = (read_count \div Word) * Word + rd_lo
                 /\ UNCHANGED <<consumerVars, ring, source, committed, threads, block_done,
                                write_shadow, started>>
    /\ WriteLo => /\ pc = "wrlo" /\ pc' = "wrhi" /\ write_shadow' = write_count % Word
                  /\ UNCHANGED <<consumerVars, ring, source, committed, threads, block_done,
                                 started>>
  BY Zenon DEF ReadLo, ReadHi, WriteLo, board

LEMMA MovesKeepLedger ==
    ASSUME DirectTypeOK, DirectPosition, Moves
    PROVE  UNCHANGED ledger /\ (BoardLive' => BoardLive)
<1> USE DEF ledger, source, committed, consumerVars, board, ring, threads, jobQueue,
        completionQueue, place, BoardLive
<1>0. CASE ReadLo \/ ReadHi \/ WriteLo
  BY <1>0, WordSteps
<1>1. CASE EnterAssign \/ PollAbort \/ NoRoom
  BY <1>1 DEF EnterAssign, PollAbort, NoRoom, Fail, PollOK
<1>2. CASE CollectTimesOut \/ CommitNoMore \/ FinishJobs \/ JoinWorkers
  BY <1>2 DEF CollectTimesOut, CommitNoMore, FinishJobs, JoinWorkers, Fail
<1>3. CASE WritePktCount \/ WaitDone \/ WaitTimesOut
  BY <1>3 DEF WritePktCount, WaitDone, WaitTimesOut
<1>4. CASE WriteEof \/ ReaderFinishes
  BY <1>4 DEF WriteEof, RaiseEof, ReaderFinishes, FinishReader
<1>5. CASE StartReplay
  <2>1. read_count = 0
    BY <1>5 DEF StartReplay, DirectPosition
  <2>2. QED BY <1>5, <2>1 DEF StartReplay, StartReader
<1>6. QED BY <1>0, <1>1, <1>2, <1>3, <1>4, <1>5 DEF Moves

LEMMA MovesKeepPrefix ==
    ASSUME DirectTypeOK, DirectPosition, CommittedPrefix, Moves
    PROVE  CommittedPrefix'
<1>1. UNCHANGED ledger
  BY MovesKeepLedger
<1>2. pc' \in {"wrlo", "wrhi"} <=> pc \in {"wrlo", "wrhi"}
  <2>0. CASE ReadLo \/ ReadHi \/ WriteLo
    BY <2>0, WordSteps
  <2>1. CASE EnterAssign \/ PollAbort \/ NoRoom
    BY <2>1 DEF EnterAssign, PollAbort, NoRoom, Fail, PollOK
  <2>2. CASE CollectTimesOut \/ CommitNoMore \/ FinishJobs \/ JoinWorkers
    BY <2>2 DEF CollectTimesOut, CommitNoMore, FinishJobs, JoinWorkers, Fail
  <2>3. CASE WritePktCount \/ WriteEof \/ WaitDone \/ WaitTimesOut \/ ReaderFinishes \/ StartReplay
    BY <2>3 DEF WritePktCount, WriteEof, WaitDone, WaitTimesOut, ReaderFinishes, StartReplay, place
  <2>4. QED BY <2>0, <2>1, <2>2, <2>3 DEF Moves
<1>3. QED BY <1>1, <1>2, Zenon DEF ledger, source, committed, CommittedPrefix, BlockEnd

\* A move of main between two places of the loop.
LEMMA PositionKept ==
    ASSUME DirectPosition, BoardLive,
           UNCHANGED <<next_assign, write_count, write_shadow, started, state, read_count>>,
           pc' \in {"assign", "rdlo", "rdhi", "decide", "collect", "commit", "start early",
                    "start last", "finish", "join", "count", "wait", "stop"},
           pc' \in {"rdlo", "rdhi", "decide"} => next_assign <= Last,
           pc' \in {"start early", "start last"} => ~started
    PROVE  DirectPosition'
  BY Zenon DEF DirectPosition, BoardLive

LEMMA MovesKeepPosition ==
    ASSUME DirectTypeOK, DirectPosition, Moves
    PROVE  DirectPosition'
<1> USE DEF source, committed, consumerVars, board, place, threads
<1>1. CASE EnterAssign
  <2>1. MayAssign => next_assign <= Last
    BY DEF MayAssign
  <2>2. BoardLive
    BY <1>1 DEF EnterAssign, BoardLive
  <2>3. pc' \in {"collect", "rdlo", "finish"} /\ (pc' = "rdlo" => MayAssign)
    BY <1>1 DEF EnterAssign, Fail
  <2>4. UNCHANGED <<next_assign, write_count, write_shadow, started, state, read_count>>
    BY <1>1 DEF EnterAssign
  <2>5. QED BY <2>1, <2>2, <2>3, <2>4, PositionKept
<1>2. CASE PollAbort \/ NoRoom
  <2>1. BoardLive /\ pc' \in {"finish", "collect"}
    BY <1>2 DEF PollAbort, NoRoom, PollOK, Fail, BoardLive
  <2>2. UNCHANGED <<next_assign, write_count, write_shadow, started, state, read_count>>
    BY <1>2 DEF PollAbort, NoRoom
  <2>3. QED BY <2>1, <2>2, PositionKept
<1>3. CASE CollectTimesOut \/ CommitNoMore
  <2>1. BoardLive /\ pc' \in {"finish", "assign", "start early"} /\ (pc' = "start early" => ~started)
    BY <1>3 DEF CollectTimesOut, CommitNoMore, BoardLive
  <2>2. UNCHANGED <<next_assign, write_count, write_shadow, started, state, read_count>>
    BY <1>3 DEF CollectTimesOut, CommitNoMore
  <2>3. QED BY <2>1, <2>2, PositionKept
<1>4. CASE FinishJobs \/ JoinWorkers
  <2>1. BoardLive /\ pc' \in {"join", "count", "finish", "stop"}
    BY <1>4 DEF FinishJobs, JoinWorkers, Fail, BoardLive
  <2>2. UNCHANGED <<next_assign, write_count, write_shadow, started, state, read_count>>
    BY <1>4 DEF FinishJobs, JoinWorkers
  <2>3. QED BY <2>1, <2>2, PositionKept
<1>5. CASE ReadLo \/ ReadHi
  <2>1. BoardLive /\ pc \in {"rdlo", "rdhi"} /\ pc' \in {"rdhi", "decide"}
    BY <1>5, WordSteps DEF BoardLive
  <2>2. UNCHANGED <<next_assign, write_count, write_shadow, started, state, read_count>>
    BY <1>5, WordSteps
  <2>3. next_assign <= Last
    BY <2>1, Zenon DEF DirectPosition
  <2>4. QED BY <2>1, <2>2, <2>3, PositionKept
<1>6. CASE WriteLo
  <2>1. pc = "wrlo" /\ pc' = "wrhi" /\ write_shadow' = write_count % Word
        /\ UNCHANGED <<write_count, state, read_count, started, next_assign>>
    BY <1>6, WordSteps
  <2>2. QED BY <2>1 DEF DirectPosition, BoardLive
<1>7. CASE WritePktCount
  <2>1. pc = "count" /\ pc' = "eof"
        /\ UNCHANGED <<write_shadow, write_count, state, read_count, started, next_assign>>
    BY <1>7 DEF WritePktCount
  <2>2. QED BY <2>1 DEF DirectPosition, BoardLive
<1>8. CASE WriteEof \/ WaitTimesOut
  <2>1. BoardLive /\ pc' \in {"wait", "start last", "stop"} /\ (pc' = "start last" => ~started)
    BY <1>8 DEF WriteEof, WaitTimesOut, BoardLive
  <2>2. UNCHANGED <<next_assign, write_count, write_shadow, started, state, read_count>>
    BY <1>8 DEF WriteEof, RaiseEof, WaitTimesOut
  <2>3. QED BY <2>1, <2>2, PositionKept
<1>9. CASE WaitDone
  BY <1>9 DEF WaitDone, DirectPosition, BoardLive
<1>10. CASE ReaderFinishes
  <2>1. state = "run" /\ state' = "done"
        /\ UNCHANGED <<pc, write_shadow, write_count, read_count, started, next_assign>>
    BY <1>10 DEF ReaderFinishes, FinishReader
  <2>2. QED BY <2>1 DEF DirectPosition, BoardLive
<1>11. CASE StartReplay
  BY <1>11 DEF StartReplay, StartReader, DirectPosition, BoardLive
<1>12. QED BY <1>1, <1>2, <1>3, <1>4, <1>5, <1>6, <1>7, <1>8, <1>9, <1>10, <1>11 DEF Moves

\* A torn read of STREAM_RD lies in the past, or beyond everything committed.
LEMMA MovesKeepPoll ==
    ASSUME DirectTypeOK, DirectParts, Moves, Capacity <= Word
    PROVE  DirectPollSound'
<1>1. UNCHANGED <<read_count, reserved_count, write_count>>
  BY MovesKeepLedger DEF DirectParts, ledger, source, committed
<1>2. CASE ReadLo
  <2>1. pc = "rdlo" /\ pc' = "rdhi" /\ rd_lo' = read_count % Word
    BY <1>2, WordSteps
  <2>2. reserved_count + Guard <= read_count + Capacity
    BY <2>1 DEF DirectParts, RingWindow, BoardLive
  <2>3. read_count \in 0..read_count
    BY DirectNumbers
  <2>4. QED BY <1>1, <2>1, <2>2, <2>3, Zenon DEF DirectPollSound
<1>3. CASE ReadHi
  <2>1. pc = "rdhi" /\ pc' = "decide" /\ rd' = (read_count \div Word) * Word + rd_lo
    BY <1>3, WordSteps
  <2>2. PICK n \in 0..read_count : rd_lo = n % Word /\ reserved_count + Guard <= n + Capacity
    BY <2>1, Zenon DEF DirectParts, DirectPollSound
  <2>3. n \in Nat /\ n <= read_count /\ read_count \in Nat
    BY DirectNumbers
  <2>4. rd' \in Nat /\ (rd' = n \/ rd' >= n + Word)
    BY <2>1, <2>2, <2>3, TornRead, ConstantTypes
  <2>5. write_count <= reserved_count
    BY PrefixEnds DEF DirectParts
  <2>6. rd' <= read_count \/ rd' > write_count
    <3>1. /\ reserved_count \in Nat /\ write_count \in Nat
          /\ Guard \in Nat /\ Capacity \in Nat /\ Word \in Nat
      BY DirectNumbers, ConstantTypes
    <3>2. CASE rd' = n
      BY <2>3, <3>2
    <3>3. CASE rd' >= n + Word
      <4>1. reserved_count + Guard <= n + Capacity /\ Guard > 0
        BY <2>2, ConstantTypes
      <4>2. rd' > write_count
        BY <2>3, <2>4, <2>5, <3>1, <3>3, <4>1
      <4>3. QED BY <4>2
    <3>4. QED BY <2>4, <3>2, <3>3
  <2>7. QED BY <1>1, <2>1, <2>6 DEF DirectPollSound
<1>4. CASE ~ReadLo /\ ~ReadHi
  <2>1. UNCHANGED <<pc, rd_lo, rd>> \/ pc' \notin {"rdhi", "decide"}
    <3>1. CASE EnterAssign \/ PollAbort \/ NoRoom \/ CollectTimesOut \/ CommitNoMore
      BY <3>1 DEF EnterAssign, PollAbort, NoRoom, CollectTimesOut, CommitNoMore, Fail
    <3>2. CASE WriteLo \/ FinishJobs \/ JoinWorkers \/ StartReplay
      BY <3>2, WordSteps DEF FinishJobs, JoinWorkers, StartReplay, Fail
    <3>3. CASE WritePktCount \/ WriteEof \/ WaitDone \/ WaitTimesOut \/ ReaderFinishes
      BY <3>3 DEF WritePktCount, WriteEof, WaitDone, WaitTimesOut, ReaderFinishes, place,
                  polled
    <3>4. QED BY <1>4, <3>1, <3>2, <3>3 DEF Moves
  <2>2. QED BY <1>1, <2>1, Zenon DEF DirectParts, DirectPollSound
<1>5. QED BY <1>2, <1>3, <1>4

LEMMA MovesStep ==
    ASSUME DirectTypeOK, DirectParts, Moves, Capacity <= Word
    PROVE  DirectParts'
<1>1. (BlocksTile /\ InOneHand /\ RingWindow /\ CommittedHeld /\ CopiedInRing)'
  BY MovesKeepLedger, LedgerKeeps DEF DirectParts
<1>2. CommittedPrefix' /\ DirectPosition'
  BY MovesKeepPrefix, MovesKeepPosition DEF DirectParts
<1>3. QED BY <1>1, <1>2, MovesKeepPoll DEF DirectParts

-----------------------------------------------------------------------------
(* Blocks handed out, collected and committed.                             *)

\* A bound that holds from an earlier read pointer holds from a later one.
LEMMA LaterPointer ==
    ASSUME NEW w \in Nat, NEW g \in Nat, NEW c \in Nat, NEW early \in Nat, NEW late \in Nat,
           early <= late, w + g <= early + c
    PROVE  w + g <= late + c
  OBVIOUS

LEMMA AssignStep ==
    ASSUME DirectTypeOK, DirectParts, AssignBlock
    PROVE  DirectParts'
<1>0. PICK N : N = next_assign
  OBVIOUS
<1>1. /\ pc = "decide" /\ pc' = "assign" /\ rd <= write_count /\ Free >= Beats(N)
      /\ block_begin' = [block_begin EXCEPT ![N] = reserved_count]
      /\ reserved_count' = reserved_count + Beats(N)
      /\ jobs_' = Append(jobs_, N) /\ next_assign' = N + 1
      /\ UNCHANGED <<consumerVars, mem, write_shadow, next_commit, write_count,
                     completions, worker, block_done, started>>
  BY <1>0, Zenon DEF AssignBlock, PollOK, board, ring, committed, completionQueue
<1>2. /\ N \in Nat \ {0} /\ N \in 1..Last /\ Last \in Nat /\ reserved_count \in Nat
      /\ Beats(N) \in Nat \ {0} /\ block_begin \in [1..Last -> Nat]
      /\ jobs_ \in Seq(1..Last) /\ Len(jobs_) \in Nat
      /\ completions \in Seq(1..Last)
      /\ next_commit \in Nat \ {0}
  <2>1. N <= Last
    BY <1>0, <1>1 DEF DirectParts, DirectPosition
  <2>2. N \in Nat \ {0} /\ N \in 1..Last /\ Last \in Nat /\ next_commit \in Nat \ {0}
    BY <1>0, <2>1, DirectNumbers, ConstantTypes
  <2>3. QED BY <2>2, DirectNumbers, BeatsPositive, Zenon DEF DirectTypeOK
<1>3. BlocksTile /\ InOneHand /\ CommittedPrefix /\ RingWindow /\ CommittedHeld /\ CopiedInRing
      /\ DirectPollSound /\ DirectPosition
  BY DEF DirectParts
<1>4. /\ \A b \in 1..(N - 1) : /\ b \in 1..Last /\ BlockEnd(b) \in Nat /\ block_begin[b] \in Nat
                               /\ block_begin'[b] = block_begin[b] /\ BlockEnd(b)' = BlockEnd(b)
      /\ block_begin'[N] = reserved_count /\ BlockEnd(N)' = reserved_count'
  <2>1. ASSUME NEW b \in 1..(N - 1)
        PROVE  /\ b \in 1..Last /\ BlockEnd(b) \in Nat /\ block_begin[b] \in Nat
               /\ block_begin'[b] = block_begin[b] /\ BlockEnd(b)' = BlockEnd(b)
    <3>1. b \in 1..Last /\ b # N
      BY <1>2
    <3>2. block_begin'[b] = block_begin[b]
      BY <1>1, <1>2, <3>1, Zenon
    <3>3. QED BY <3>1, <3>2, BlockNumbers, Zenon DEF BlockEnd, Beats
  <2>2. block_begin'[N] = reserved_count
    BY <1>1, <1>2, Zenon
  <2>3. QED BY <1>1, <2>1, <2>2, Zenon DEF BlockEnd, Beats
<1>5. BlocksTile'
  <2>1. next_assign' = 1 => reserved_count' = 0
    BY <1>1, <1>2
  <2>2. next_assign' > 1 =>
            block_begin'[1] = 0 /\ BlockEnd(next_assign - 1)' = reserved_count'
    <3>1. next_assign' - 1 = N
      BY <1>1, <1>2
    <3>2. block_begin'[1] = 0
      <4>1. CASE N = 1
        BY <1>3, <1>4, <4>1, <1>0 DEF BlocksTile
      <4>2. CASE N # 1
        <5>1. 1 \in 1..(N - 1) /\ N > 1
          BY <1>2, <4>2
        <5>2. QED BY <1>3, <1>4, <5>1, <1>0 DEF BlocksTile
      <4>3. QED BY <4>1, <4>2
    <3>3. QED BY <1>4, <3>1, <3>2
  <2>3. \A b \in 1..(next_assign' - 2) : BlockEnd(b)' = block_begin'[b + 1]
    <3>1. SUFFICES ASSUME NEW b \in 1..(N - 1) PROVE BlockEnd(b)' = block_begin'[b + 1]
      BY <1>1, <1>2
    <3>2. CASE b = N - 1
      <4>1. b + 1 = N /\ N > 1
        BY <1>2, <3>2
      <4>2. BlockEnd(b) = reserved_count
        BY <1>3, <3>2, <4>1, <1>0 DEF BlocksTile
      <4>3. QED BY <1>4, <4>1, <4>2
    <3>3. CASE b # N - 1
      <4>1. b \in 1..(N - 2) /\ b + 1 \in 1..(N - 1)
        BY <1>2, <3>3
      <4>2. BlockEnd(b) = block_begin[b + 1]
        BY <1>3, <4>1, <1>0 DEF BlocksTile
      <4>3. QED BY <1>4, <4>1, <4>2
    <3>4. QED BY <3>2, <3>3
  <2>4. \A b \in 1..(N - 1) : BlockEnd(b) <= reserved_count
    BY <1>3, <1>0 DEF BlocksTile
  <2>5. \A b \in 1..(next_assign' - 1) : BlockEnd(b)' <= reserved_count'
    <3>1. SUFFICES ASSUME NEW b \in 1..N PROVE BlockEnd(b)' <= reserved_count'
      BY <1>1, <1>2
    <3>2. CASE b = N
      BY <1>1, <1>2, <1>4, <3>2
    <3>3. CASE b # N
      <4>1. b \in 1..(N - 1)
        BY <1>2, <3>3
      <4>2. QED BY <1>1, <1>2, <1>4, <2>4, <4>1
    <3>4. QED BY <3>2, <3>3
  <2>6. \A b, c \in 1..(next_assign' - 1) : b < c => BlockEnd(b)' <= block_begin'[c]
    <3>1. SUFFICES ASSUME NEW b \in 1..N, NEW c \in 1..N, b < c
                   PROVE  BlockEnd(b)' <= block_begin'[c]
      BY <1>1, <1>2
    <3>2. b \in 1..(N - 1)
      BY <1>2, <3>1
    <3>3. CASE c = N
      BY <1>4, <2>4, <3>2, <3>3
    <3>4. CASE c # N
      <4>1. c \in 1..(N - 1)
        BY <1>2, <3>4
      <4>2. BlockEnd(b) <= block_begin[c]
        BY <1>3, <3>1, <3>2, <4>1, <1>0 DEF BlocksTile
      <4>3. QED BY <1>4, <3>2, <4>1, <4>2
    <3>5. QED BY <3>3, <3>4
  <2>7. QED BY <2>1, <2>2, <2>3, <2>5, <2>6 DEF BlocksTile
<1>6. taken' = taken
  BY <1>1, <1>2, <1>0 DEF taken
<1>7. /\ taken \subseteq 1..(N - 1) /\ block_done \subseteq taken
      /\ \A i \in DOMAIN completions : completions[i] \in taken
      /\ \A r \in Readers : worker[r].at = "copy" => worker[r].block \in taken
  BY <1>3, TakenBlocks, <1>0
<1>8. InOneHand'
  <2>1. Len(jobs_') = Len(jobs_) + 1
    BY <1>1, <1>2, AppendProperties
  <2>2. next_assign' - Len(jobs_') = next_assign - Len(jobs_) /\ Len(jobs_') < next_assign'
    <3>1. Len(jobs_) < next_assign
      BY <1>3, Zenon DEF InOneHand
    <3>2. QED BY <1>1, <1>2, <2>1, <3>1, <1>0
  <2>3. ASSUME NEW i \in DOMAIN jobs_' PROVE jobs_'[i] = next_assign' - 1 - Len(jobs_') + i
    <3>1. i \in 1..(Len(jobs_) + 1) /\ DOMAIN jobs_ = 1..Len(jobs_)
      BY <1>1, <1>2, <2>1, AppendProperties, LenProperties
    <3>2. CASE i = Len(jobs_) + 1
      <4>1. jobs_'[i] = N
        BY <1>1, <1>2, <3>2, AppendProperties
      <4>2. QED BY <1>1, <1>2, <2>1, <3>2, <4>1
    <3>3. CASE i # Len(jobs_) + 1
      <4>1. i \in 1..Len(jobs_)
        <5>1. Len(jobs_) \in Nat
          BY <1>1, LenProperties
        <5>2. QED BY <3>1, <3>3, <5>1
      <4>2. jobs_'[i] = jobs_[i]
        BY <1>1, <1>2, <4>1, AppendProperties
      <4>3. jobs_[i] = next_assign - 1 - Len(jobs_) + i
        BY <1>3, <3>1, <4>1, Zenon DEF InOneHand
      <4>4. QED BY <1>2, <2>1, <2>2, <4>1, <4>2, <4>3, <1>1, <1>0
    <3>4. QED BY <3>2, <3>3
  <2>4. QED BY <1>1, <1>3, <2>2, <2>3, Zenon DEF InOneHand
<1>9. CommittedPrefix'
  <2>1. pc \notin {"wrlo", "wrhi"} /\ pc' \notin {"wrlo", "wrhi"}
    BY <1>1
  <2>2. next_commit # 1 => next_commit - 1 \in 1..(N - 1)
    <3>1. next_commit # 1 => next_commit - 1 \in 1..(next_commit - 1)
      BY <1>2
    <3>2. next_commit # 1 => next_commit - 1 \in block_done
      BY <1>3, <3>1 DEF CommittedPrefix
    <3>3. QED BY <1>7, <3>2
  <2>3. next_commit # 1 => BlockEnd(next_commit - 1)' = BlockEnd(next_commit - 1)
    <3>1. SUFFICES ASSUME next_commit # 1
                   PROVE  BlockEnd(next_commit - 1)' = BlockEnd(next_commit - 1)
      OBVIOUS
    <3>2. block_begin'[next_commit - 1] = block_begin[next_commit - 1]
      BY <1>4, <2>2, <3>1
    <3>3. QED BY <1>1, <3>2, Zenon DEF BlockEnd, Beats
  <2>4. QED BY <1>1, <1>3, <2>1, <2>3, Zenon DEF CommittedPrefix
<1>10. RingWindow'
  <2>1. reserved_count + Guard <= read_count + Capacity /\ read_count <= ring_write
        /\ ring_write <= write_count
    BY <1>1, <1>3 DEF RingWindow, BoardLive
  <2>2. rd <= read_count
    BY <1>1, <1>3, DirectNumbers DEF DirectPollSound
  <2>3. reserved_count' + Guard <= rd + Capacity
    <3>1. /\ Beats(N) \in Nat \ {0} /\ reserved_count \in Nat /\ rd \in Nat
          /\ Capacity \in Nat /\ Guard \in Nat
      BY <1>2, DirectNumbers, ConstantTypes
    <3>2. Beats(N) <= IF (reserved_count - rd) + Guard >= Capacity THEN 0
                      ELSE Capacity - (reserved_count - rd) - Guard
      BY <1>1, <3>1 DEF Free, Level
    <3>3. reserved_count' = reserved_count + Beats(N)
      BY <1>1
    <3> HIDE DEF Free
    <3>4. QED BY <3>1, <3>2, <3>3
  <2>4. reserved_count' + Guard <= read_count + Capacity
    <3>1. reserved_count' \in Nat
      <4>1. reserved_count' = reserved_count + Beats(N)
        BY <1>1
      <4>2. QED BY <1>2, <4>1
    <3>2. rd \in Nat /\ read_count \in Nat /\ Capacity \in Nat /\ Guard \in Nat
      BY DirectNumbers, ConstantTypes
    <3>3. QED BY <2>2, <2>3, <3>1, <3>2, LaterPointer
  <2>5. QED BY <1>1, <2>1, <2>4 DEF RingWindow, consumerVars
<1>11. CommittedHeld'
  BY <1>1, <1>3 DEF CommittedHeld, Held, BoardLive, consumerVars
<1>12. CopiedInRing'
  <2>1. BoardLive
    BY <1>1 DEF BoardLive
  <2>2. \A from, to : Held(from, to)' <=> Held(from, to)
    BY <1>1, Zenon DEF Held, consumerVars
  <2>3. \A b \in block_done : Held(block_begin[b], BlockEnd(b))'
    BY <1>1, <1>3, <1>4, <1>7, <2>1, <2>2, Zenon DEF CopiedInRing
  <2>4. \A i \in DOMAIN completions :
            Held(block_begin[completions[i]], BlockEnd(completions[i]))'
    <3>1. SUFFICES ASSUME NEW i \in DOMAIN completions
                   PROVE  Held(block_begin[completions[i]], BlockEnd(completions[i]))'
      OBVIOUS
    <3>2. completions[i] \in 1..(N - 1)
      BY <1>7
    <3>3. Held(block_begin[completions[i]], BlockEnd(completions[i]))
      BY <1>3, <2>1 DEF CopiedInRing
    <3>4. block_begin'[completions[i]] = block_begin[completions[i]]
      BY <1>4, <3>2
    <3>5. QED BY <1>1, <2>2, <3>3, <3>4, Zenon DEF BlockEnd, Beats
  <2>5. ASSUME NEW r \in Readers, worker[r].at = "copy"
        PROVE  Held(block_begin[worker[r].block], block_begin[worker[r].block] + worker[r].copied)'
    <3>1. worker[r].block \in 1..(N - 1)
      BY <1>7, <2>5
    <3>2. Held(block_begin[worker[r].block], block_begin[worker[r].block] + worker[r].copied)
      BY <1>3, <2>1, <2>5 DEF CopiedInRing
    <3>3. block_begin'[worker[r].block] = block_begin[worker[r].block]
      BY <1>4, <3>1
    <3>4. QED BY <1>1, <2>2, <3>2, <3>3, Zenon
  <2>6. QED BY <1>1, <2>3, <2>4, <2>5, Zenon DEF CopiedInRing
<1>13. DirectPollSound' /\ DirectPosition'
  BY <1>1, <1>3 DEF DirectPollSound, DirectPosition, BoardLive, consumerVars
<1>14. QED BY <1>5, <1>8, <1>9, <1>10, <1>11, <1>12, <1>13 DEF DirectParts

LEMMA CollectStep ==
    ASSUME DirectTypeOK, DirectParts, Collect
    PROVE  DirectParts'
<1>1. /\ pc = "collect" /\ pc' \in {"finish", "commit", "collect"}
      /\ UNCHANGED <<consumerVars, mem, write_shadow, source, committed, jobs_, worker, started>>
  BY DEF Collect, Fail, board, ring, jobQueue
<1>2. BlocksTile /\ InOneHand /\ CommittedPrefix /\ RingWindow /\ CommittedHeld /\ CopiedInRing
      /\ DirectPosition
  BY DEF DirectParts
<1>3. BoardLive /\ BoardLive'
  BY <1>1 DEF BoardLive
<1>4. /\ completions \in Seq(1..Last)
      /\ \/ UNCHANGED <<block_done, completions>>
         \/ /\ completions # <<>>
            /\ block_done' = block_done \cup {completions[1]} /\ completions' = Tail(completions)
  <2>1. completions \in Seq(1..Last)
    BY DirectNumbers
  <2>2. \/ UNCHANGED <<block_done, completions>>
        \/ /\ completions # <<>>
           /\ block_done' = block_done \cup {Head(completions)}
           /\ completions' = Tail(completions)
    BY Zenon DEF Collect
  <2>3. completions # <<>> => Head(completions) = completions[1]
    BY <2>1
  <2>4. QED BY <2>1, <2>2, <2>3
<1>5. /\ \A b \in block_done' : b \in block_done \/ \E i \in DOMAIN completions : b = completions[i]
      /\ \A i \in DOMAIN completions' : \E j \in DOMAIN completions : completions'[i] = completions[j]
      /\ block_done \subseteq block_done'
  <2>1. CASE UNCHANGED <<block_done, completions>>
    BY <2>1
  <2>2. CASE /\ completions # <<>>
             /\ block_done' = block_done \cup {completions[1]} /\ completions' = Tail(completions)
    <3>1. 1 \in DOMAIN completions
      BY <1>4, <2>2, LenProperties, EmptySeq
    <3>2. ASSUME NEW i \in DOMAIN completions'
          PROVE  \E j \in DOMAIN completions : completions'[i] = completions[j]
      <4>1. /\ Len(completions) \in Nat /\ DOMAIN completions = 1..Len(completions)
            /\ i \in 1..(Len(completions) - 1) /\ completions'[i] = completions[i + 1]
        BY <1>4, <2>2, <3>2, HeadTailProperties, LenProperties
      <4>2. i + 1 \in DOMAIN completions
        BY <4>1
      <4>3. QED BY <4>1, <4>2
    <3>3. QED BY <2>2, <3>1, <3>2
  <2>3. QED BY <1>4, <2>1, <2>2
<1>6. BlocksTile'
  BY <1>1, <1>2 DEF BlocksTile, BlockEnd, source
<1>7. InOneHand'
  <2>1. \A b \in block_done' : b < next_assign - Len(jobs_)
    <3>1. /\ \A b \in block_done : b < next_assign - Len(jobs_)
          /\ \A i \in DOMAIN completions : completions[i] < next_assign - Len(jobs_)
      BY <1>2, Zenon DEF InOneHand
    <3>2. TAKE b \in block_done'
    <3>3. b \in block_done \/ \E i \in DOMAIN completions : b = completions[i]
      BY <1>5, Zenon
    <3>4. QED BY <3>1, <3>3, Zenon
  <2>2. \A i \in DOMAIN completions' : completions'[i] < next_assign - Len(jobs_)
    BY <1>2, <1>5, Zenon DEF InOneHand
  <2>3. ASSUME NEW r \in Readers, worker[r].at = "copy"
        PROVE  /\ worker[r].block \notin block_done'
               /\ \A i \in DOMAIN completions' : completions'[i] # worker[r].block
    <3>1. worker[r].block \notin block_done /\ \A i \in DOMAIN completions : completions[i] # worker[r].block
      BY <1>2, <2>3, Zenon DEF InOneHand
    <3>2. QED BY <1>5, <3>1
  <2>4. QED BY <1>1, <1>2, <2>1, <2>2, <2>3, Zenon DEF InOneHand, source
<1>8. CommittedPrefix'
  BY <1>1, <1>2, <1>5 DEF CommittedPrefix, BlockEnd, source, committed
<1>9. RingWindow' /\ CommittedHeld'
  BY <1>1, <1>2, <1>3 DEF RingWindow, CommittedHeld, Held, source, committed, consumerVars
<1>10. CopiedInRing'
  <2>1. \A b \in block_done' : Held(block_begin[b], BlockEnd(b))
    BY <1>2, <1>3, <1>5, Zenon DEF CopiedInRing
  <2>2. \A i \in DOMAIN completions' :
            Held(block_begin[completions'[i]], BlockEnd(completions'[i]))
    BY <1>2, <1>3, <1>5, Zenon DEF CopiedInRing
  <2>3. UNCHANGED <<block_begin, mem, read_count, worker>>
    BY <1>1 DEF source, consumerVars
  <2>4. QED BY <1>2, <1>3, <2>1, <2>2, <2>3, Zenon DEF CopiedInRing, Held, BlockEnd
<1>11. DirectPollSound'
  BY <1>1 DEF DirectPollSound
<1>12. DirectPosition'
  BY <1>1, <1>2, PositionKept DEF BoardLive, source, committed, consumerVars
<1>13. QED BY <1>6, <1>7, <1>8, <1>9, <1>10, <1>11, <1>12 DEF DirectParts

LEMMA CommitStep ==
    ASSUME DirectTypeOK, DirectParts, CommitBlock
    PROVE  DirectParts'
<1>1. /\ pc = "commit" /\ pc' = "wrlo" /\ next_commit \in block_done
      /\ write_count' = BlockEnd(next_commit)
      /\ UNCHANGED <<consumerVars, mem, write_shadow, source, next_commit, jobs_, completions,
                     block_done, worker, started>>
  BY Zenon DEF CommitBlock, BlockEnd, board, ring, threads, jobQueue, completionQueue
<1>2. BlocksTile /\ InOneHand /\ CommittedPrefix /\ RingWindow /\ CommittedHeld /\ CopiedInRing
      /\ DirectPosition
  BY DEF DirectParts
<1>3. BoardLive /\ BoardLive'
  BY <1>1 DEF BoardLive
<1>4. /\ next_commit \in 1..Last /\ block_begin[next_commit] \in Nat
      /\ BlockEnd(next_commit) \in Nat /\ block_begin[next_commit] <= BlockEnd(next_commit)
  <2>1. next_commit \in 1..Last
    BY <1>1, DirectNumbers
  <2>2. QED BY <2>1, BlockNumbers
<1>5. write_count = block_begin[next_commit]
  BY <1>1, <1>2, PrefixEnds DEF CommittedPrefix
<1>6. BlocksTile' /\ InOneHand'
  BY <1>1, <1>2 DEF BlocksTile, BlockEnd, InOneHand, source
<1>7. CommittedPrefix'
  BY <1>1, <1>2 DEF CommittedPrefix, BlockEnd, source
<1>8. RingWindow'
  <2>1. write_count <= write_count'
    BY <1>1, <1>4, <1>5
  <2>2. ring_write <= write_count'
    <3>1. ring_write \in Nat /\ write_count \in Nat /\ ring_write <= write_count
      BY <1>2, <1>3, DirectNumbers DEF RingWindow
    <3>2. QED BY <1>1, <1>4, <2>1, <3>1
  <2>3. QED BY <1>1, <1>2, <1>3, <2>2 DEF RingWindow, source, consumerVars
<1>9. CommittedHeld'
  <2>1. Held(0, write_count) /\ Held(block_begin[next_commit], BlockEnd(next_commit))
    BY <1>1, <1>2, <1>3 DEF CommittedHeld, CopiedInRing
  <2>2. Held(0, write_count')
    <3>1. \A k \in 0..(write_count' - 1) :
              k \in 0..(write_count - 1)
              \/ k \in block_begin[next_commit]..(BlockEnd(next_commit) - 1)
      BY <1>1, <1>4, <1>5
    <3>2. QED BY <2>1, <3>1, Zenon DEF Held
  <2>3. QED BY <1>1, <2>2 DEF CommittedHeld, Held, consumerVars
<1>10. CopiedInRing'
  BY <1>1, <1>2, <1>3 DEF CopiedInRing, Held, BlockEnd, source, consumerVars
<1>11. DirectPollSound'
  BY <1>1 DEF DirectPollSound
<1>12. DirectPosition'
  BY <1>1, <1>2 DEF DirectPosition, BoardLive, source, consumerVars
<1>13. QED BY <1>6, <1>7, <1>8, <1>9, <1>10, <1>11, <1>12 DEF DirectParts

LEMMA PublishStep ==
    ASSUME DirectTypeOK, DirectParts, WriteHi
    PROVE  DirectParts'
<1>1. /\ pc = "wrhi" /\ pc' = (IF ~started /\ write_count >= Prefill THEN "start" ELSE "commit")
      /\ ring_write' = (write_count \div Word) * Word + write_shadow
      /\ next_commit' = next_commit + 1
      /\ UNCHANGED <<state, read_count, mem, write_shadow, source, write_count, jobs_,
                     completions, block_done, worker, started>>
  BY Zenon DEF WriteHi, board, ring, threads, jobQueue, completionQueue
<1>2. BlocksTile /\ InOneHand /\ CommittedPrefix /\ RingWindow /\ CommittedHeld /\ CopiedInRing
      /\ DirectPosition
  BY DEF DirectParts
<1>3. BoardLive /\ BoardLive' /\ pc' \in {"start", "commit"}
  BY <1>1 DEF BoardLive
<1>4. ring_write' = write_count
  <2>1. write_shadow = write_count % Word
    BY <1>1, <1>2 DEF DirectPosition
  <2>2. write_count \in Nat /\ Word \in Nat \ {0}
    BY DirectNumbers, ConstantTypes
  <2>3. QED BY <1>1, <2>1, <2>2, DivMod
<1>5. next_commit \in block_done /\ write_count = BlockEnd(next_commit)
  BY <1>1, <1>2 DEF CommittedPrefix
<1>6. BlocksTile' /\ InOneHand'
  BY <1>1, <1>2, Zenon DEF BlocksTile, BlockEnd, InOneHand, source
<1>7. CommittedPrefix'
  <2>1. next_commit \in Nat \ {0}
    BY DirectNumbers
  <2>2. \A b \in 1..(next_commit' - 1) : b \in block_done
    <3>1. \A b \in 1..(next_commit' - 1) : b \in 1..(next_commit - 1) \/ b = next_commit
      BY <1>1, <2>1
    <3>2. QED BY <1>2, <1>5, <3>1, Zenon DEF CommittedPrefix
  <2>3. next_commit' # 1 /\ next_commit' - 1 = next_commit
    BY <1>1, <2>1
  <2>4. write_count' = BlockEnd(next_commit - 1)'
    BY <1>1, <1>5, <2>3, Zenon DEF BlockEnd, Beats, source
  <2>5. QED BY <1>1, <1>3, <2>2, <2>3, <2>4 DEF CommittedPrefix
<1>8. RingWindow'
  <2>1. /\ read_count \in Nat /\ ring_write \in Nat /\ write_count \in Nat
        /\ read_count <= ring_write /\ ring_write <= write_count
    BY <1>2, <1>3, DirectNumbers DEF RingWindow
  <2>2. read_count <= write_count
    BY <2>1
  <2>3. QED BY <1>1, <1>2, <1>3, <1>4, <2>1, <2>2 DEF RingWindow, source
<1>9. CommittedHeld' /\ CopiedInRing'
  BY <1>1, <1>2, <1>3, Zenon DEF CommittedHeld, CopiedInRing, Held, BlockEnd, source
<1>10. DirectPollSound'
  BY <1>3, Zenon DEF DirectPollSound
<1>11. DirectPosition'
  BY <1>1, <1>2, <1>3, Zenon DEF DirectPosition, source
<1>12. QED BY <1>6, <1>7, <1>8, <1>9, <1>10, <1>11 DEF DirectParts

\* Once the board is stopped or cleared nothing is promised of the ring.
LEMMA StopStep ==
    ASSUME DirectTypeOK, DirectParts, WriteStop \/ WriteClear
    PROVE  DirectParts'
<1>1. /\ pc' \in {"clear", "end"} /\ state' = "idle"
      /\ pc \notin {"wrlo", "wrhi"}
      /\ UNCHANGED <<source, committed, jobs_, completions, block_done, worker>>
  BY DEF WriteStop, StopReader, WriteClear, ClearRegisters, threads, jobQueue, completionQueue,
         DirectParts, DirectPosition
<1>2. BlocksTile' /\ InOneHand'
  BY <1>1 DEF BlocksTile, BlockEnd, InOneHand, source, DirectParts
<1>3. CommittedPrefix'
  BY <1>1 DEF CommittedPrefix, BlockEnd, source, committed, DirectParts
<1>4. RingWindow' /\ CommittedHeld' /\ CopiedInRing' /\ DirectPollSound' /\ DirectPosition'
  BY <1>1 DEF RingWindow, CommittedHeld, CopiedInRing, DirectPollSound, DirectPosition, BoardLive
<1>5. QED BY <1>2, <1>3, <1>4 DEF DirectParts

-----------------------------------------------------------------------------
(* The workers, and the reader on the board.                               *)

\* What no worker touches.
LEMMA WorkersKeep ==
    ASSUME DirectParts, NEW r \in Readers, WorkerStep(r)
    PROVE  /\ UNCHANGED <<pc, read_count, source, committed, block_done>>
           /\ (BlocksTile /\ CommittedPrefix /\ RingWindow /\ DirectPollSound /\ DirectPosition)'
<1>1. UNCHANGED <<consumerVars, pc, started, write_shadow, source, committed, polled, block_done>>
  BY Zenon DEF WorkerStep, place
<1>2. UNCHANGED <<pc, read_count, source, committed, block_done>>
  BY <1>1 DEF consumerVars
<1>3. BlocksTile' /\ CommittedPrefix'
  BY <1>1, Zenon DEF DirectParts, BlocksTile, CommittedPrefix, BlockEnd, source, committed
<1>4. RingWindow'
  BY <1>1, Zenon DEF DirectParts, RingWindow, BoardLive, source, committed, consumerVars
<1>5. DirectPollSound'
  BY <1>1, Zenon DEF DirectParts, DirectPollSound, source, committed, polled, consumerVars
<1>6. DirectPosition'
  BY <1>1, Zenon DEF DirectParts, DirectPosition, BoardLive, source, committed, consumerVars
<1>7. QED BY <1>2, <1>3, <1>4, <1>5, <1>6

\* A worker without a block takes nothing from anybody.
LEMMA RestStep ==
    ASSUME DirectTypeOK, DirectParts, NEW r \in Readers, WorkerStep(r),
           UNCHANGED <<mem, jobs_, completions>>, NEW at, at # "copy",
           WorkerGoes(r, at, None, 0) \/ UNCHANGED worker
    PROVE  DirectParts'
<1>1. UNCHANGED <<pc, read_count, source, committed, block_done>>
  BY WorkersKeep
<1>2. \A q \in Readers : worker'[q].at = "copy" =>
          worker'[q] = worker[q] /\ worker[q].at = "copy"
  <2>1. worker \in [Readers -> Spots]
    BY DirectNumbers
  <2>2. QED BY <2>1 DEF WorkerGoes
<1>3. InOneHand'
  BY <1>1, <1>2, Zenon DEF DirectParts, InOneHand, source
<1>4. CommittedHeld'
  BY <1>1, Zenon DEF DirectParts, CommittedHeld, Held, BoardLive, committed
<1>5. CopiedInRing'
  BY <1>1, <1>2, Zenon DEF DirectParts, CopiedInRing, Held, BlockEnd, BoardLive, source
<1>6. QED BY <1>3, <1>4, <1>5, WorkersKeep DEF DirectParts

\* One job fewer in the queue is one block more in the workers' hands.
LEMMA OneMoreTaken ==
    ASSUME NEW n \in Nat, NEW l \in Nat \ {0}, NEW h \in Nat \ {0}, NEW m, m = l - 1, h = n - l
    PROVE  n - m = h + 1 /\ n - m - 1 = h /\ m < n
  OBVIOUS

LEMMA PopStep ==
    ASSUME DirectTypeOK, DirectParts, NEW r \in Readers, PopJob(r), WorkerStep(r), jobs_ # <<>>
    PROVE  DirectParts'
<1>0. /\ jobs_' = Tail(jobs_) /\ WorkerGoes(r, "copy", Head(jobs_), 0)
      /\ UNCHANGED <<mem, completions>>
  BY DEF PopJob, completionQueue
<1>1. UNCHANGED <<pc, read_count, source, committed, block_done, mem, completions>>
  BY <1>0, WorkersKeep
<1>2. InOneHand /\ CopiedInRing
  BY DEF DirectParts
<1>3. /\ jobs_ \in Seq(1..Last) /\ Len(jobs_) \in Nat \ {0} /\ DOMAIN jobs_ = 1..Len(jobs_)
      /\ Len(jobs_') = Len(jobs_) - 1 /\ DOMAIN jobs_' = 1..(Len(jobs_) - 1)
      /\ \A i \in 1..(Len(jobs_) - 1) : jobs_'[i] = jobs_[i + 1]
      /\ Head(jobs_) = jobs_[1] /\ 1 \in DOMAIN jobs_
      /\ next_assign \in Nat
  <2>1. jobs_ \in Seq(1..Last) /\ next_assign \in Nat
    BY DirectNumbers
  <2>2. Len(jobs_) \in Nat \ {0} /\ DOMAIN jobs_ = 1..Len(jobs_)
    BY <2>1, EmptySeq, LenProperties
  <2>3. /\ Len(jobs_') = Len(jobs_) - 1 /\ DOMAIN jobs_' = 1..(Len(jobs_) - 1)
        /\ \A i \in 1..(Len(jobs_) - 1) : jobs_'[i] = jobs_[i + 1]
    BY <1>0, <2>1, <2>2, HeadTailProperties, LenProperties
  <2>4. Head(jobs_) = jobs_[1]
    BY <2>1
  <2>5. QED BY <2>1, <2>2, <2>3, <2>4
<1>4. PICK H : H = Head(jobs_)
  OBVIOUS
<1>5. H = next_assign - Len(jobs_)
  <2>1. jobs_[1] = next_assign - 1 - Len(jobs_) + 1
    BY <1>2, <1>3, Zenon DEF InOneHand
  <2>2. QED BY <1>3, <1>4, <2>1
<1>6. H \in Nat \ {0} /\ H \in 1..Last /\ taken = 1..(H - 1)
  <2>1. H \in 1..Last
    BY <1>3, <1>4, HeadTailProperties
  <2>2. H \in Nat \ {0}
    BY <2>1, ConstantTypes
  <2>3. taken = 1..(H - 1)
    BY <1>5, Zenon DEF taken
  <2>4. QED BY <2>1, <2>2, <2>3
<1>7. /\ worker'[r].at = "copy" /\ worker'[r].block = H /\ worker'[r].copied = 0
      /\ \A q \in Readers \ {r} : worker'[q] = worker[q]
  <2>1. worker \in [Readers -> Spots]
    BY DirectNumbers
  <2>2. QED BY <1>0, <1>4, <2>1 DEF WorkerGoes
<1>8. /\ H \notin block_done /\ \A i \in DOMAIN completions : completions[i] # H
      /\ \A q \in Readers \ {r} : worker[q].at = "copy" => worker[q].block # H
  BY <1>2, <1>6, TakenBlocks
<1>9. InOneHand'
  <2>1. /\ next_assign - Len(jobs_') = H + 1 /\ next_assign - Len(jobs_') - 1 = H
        /\ Len(jobs_') < next_assign
    <3>1. /\ next_assign \in Nat /\ Len(jobs_) \in Nat \ {0} /\ H \in Nat \ {0}
          /\ Len(jobs_') = Len(jobs_) - 1 /\ H = next_assign - Len(jobs_)
      BY <1>3, <1>5, <1>6, Zenon
    <3>2. QED BY <3>1, OneMoreTaken
  <2>2. \A i \in DOMAIN jobs_' : jobs_'[i] = next_assign - 1 - Len(jobs_') + i
    <3>1. SUFFICES ASSUME NEW i \in 1..(Len(jobs_) - 1)
                   PROVE  jobs_'[i] = next_assign - 1 - Len(jobs_') + i
      BY <1>3
    <3>2. i + 1 \in DOMAIN jobs_
      BY <1>3
    <3>3. jobs_[i + 1] = next_assign - 1 - Len(jobs_) + (i + 1)
      BY <1>2, <3>2, Zenon DEF InOneHand
    <3>4. QED BY <1>3, <3>3
  <2>3. \A b \in block_done : b < H + 1
    BY <1>2, <1>6, TakenBlocks
  <2>4. \A i \in DOMAIN completions : completions[i] < H + 1
    BY <1>2, <1>6, TakenBlocks
  <2>5. ASSUME NEW q \in Readers, worker'[q].at = "copy"
        PROVE  /\ worker'[q].block \in 1..H
               /\ worker'[q].block \notin block_done
               /\ \A i \in DOMAIN completions : completions[i] # worker'[q].block
               /\ \A p \in Readers \ {q} :
                     worker'[p].at = "copy" => worker'[p].block # worker'[q].block
               /\ worker'[q].copied <= Beats(worker'[q].block)
    <3>1. CASE q = r
      <4>1. H \in 1..H /\ 0 <= Beats(H)
        BY <1>6, BeatsPositive
      <4>2. QED BY <1>7, <1>8, <3>1, <4>1
    <3>2. CASE q # r
      <4>1. worker'[q] = worker[q] /\ worker[q].at = "copy"
        BY <1>7, <2>5, <3>2
      <4>2. worker[q].block \in 1..H
        BY <1>2, <1>6, <4>1, TakenBlocks
      <4>3. \A p \in Readers \ {q} :
                worker'[p].at = "copy" => worker'[p].block # worker[q].block
        BY <1>2, <1>7, <1>8, <3>2, <4>1, Zenon DEF InOneHand
      <4>4. QED BY <1>2, <4>1, <4>2, <4>3, Zenon DEF InOneHand
    <3>3. QED BY <3>1, <3>2
  <2>6. /\ next_assign' = next_assign
        /\ next_assign' - Len(jobs_') = H + 1 /\ next_assign' - Len(jobs_') - 1 = H
    <3>1. next_assign' = next_assign
      BY <1>1 DEF source
    <3>2. QED BY <2>1, <3>1, Zenon
  <2>7. /\ \A b \in block_done' : b < next_assign' - Len(jobs_')
        /\ \A i \in DOMAIN completions' : completions'[i] < next_assign' - Len(jobs_')
    BY <1>1, <2>3, <2>4, <2>6, Zenon
  <2>8. \A i \in DOMAIN jobs_' : jobs_'[i] = next_assign' - 1 - Len(jobs_') + i
    BY <2>2, <2>6, Zenon
  <2>9. Len(jobs_') < next_assign'
    BY <2>1, <2>6, Zenon
  <2>10. \A q \in Readers : worker'[q].at = "copy" =>
            /\ worker'[q].block \in 1..(next_assign' - Len(jobs_') - 1)
            /\ worker'[q].block \notin block_done'
            /\ \A i \in DOMAIN completions' : completions'[i] # worker'[q].block
            /\ \A p \in Readers \ {q} :
                  worker'[p].at = "copy" => worker'[p].block # worker'[q].block
            /\ worker'[q].copied <= Beats(worker'[q].block)
    BY <1>1, <2>5, <2>6, Zenon
  <2>11. QED BY <2>7, <2>8, <2>9, <2>10, Zenon DEF InOneHand, Beats
<1>10. CommittedHeld'
  BY <1>1, Zenon DEF DirectParts, CommittedHeld, Held, BoardLive, committed
<1>11. CopiedInRing'
  <2>1. UNCHANGED <<pc, mem, read_count, block_begin, block_done, completions>>
    BY <1>1 DEF source
  <2>2. block_begin[H] \in Nat
    BY <1>6, DirectNumbers
  <2>3. Held(block_begin[H], block_begin[H] + 0)
    BY <2>2 DEF Held
  <2>4. ASSUME BoardLive, NEW q \in Readers, worker'[q].at = "copy"
        PROVE  Held(block_begin[worker'[q].block],
                    block_begin[worker'[q].block] + worker'[q].copied)
    <3>1. CASE q = r
      BY <1>7, <2>3, <3>1
    <3>2. CASE q # r
      BY <1>2, <1>7, <2>4, <3>2, Zenon DEF CopiedInRing
    <3>3. QED BY <3>1, <3>2
  <2>5. QED BY <1>2, <2>1, <2>4, Zenon DEF CopiedInRing, Held, BlockEnd, BoardLive
<1>12. QED BY <1>9, <1>10, <1>11, WorkersKeep DEF DirectParts

\* A beat written at n, in the window between what is published and what is
\* reserved, overwrites no beat that is still to be read.
LEMMA CopyKeepsHeld ==
    ASSUME DirectTypeOK, RingWindow, BoardLive,
           NEW n \in Nat, ring_write <= n, n < reserved_count,
           mem' = [mem EXCEPT ![Address(n)] = n],
           NEW from \in Nat, NEW to \in Nat, to <= reserved_count, Held(from, to)
    PROVE  \A k \in from..(to - 1) : k >= read_count => mem'[Address(k)] = k
<1>1. /\ read_count <= ring_write /\ reserved_count + Guard <= read_count + Capacity
      /\ read_count \in Nat /\ ring_write \in Nat /\ reserved_count \in Nat
      /\ Guard \in Nat \ {0} /\ Capacity \in Nat \ {0}
  BY DirectNumbers, ConstantTypes DEF RingWindow
<1>2. mem \in [Addresses -> Nat \cup {NoBeat}]
  BY Zenon DEF DirectTypeOK
<1>3. SUFFICES ASSUME NEW k \in from..(to - 1), k >= read_count PROVE mem'[Address(k)] = k
  OBVIOUS
<1>4. k \in Nat /\ k < reserved_count
  BY <1>1
<1>5. mem[Address(k)] = k
  BY <1>3, Zenon DEF Held
<1>6. Address(k) \in Addresses /\ Address(n) \in Addresses
  BY <1>4, AddressInRing
<1>7. CASE k = n
  BY <1>2, <1>6, <1>7, Zenon
<1>8. CASE k # n
  <2>1. k < n + Capacity /\ n < k + Capacity
    <3>1. read_count <= n /\ reserved_count <= read_count + Capacity
      BY <1>1
    <3>2. k < read_count + Capacity /\ n < read_count + Capacity
      BY <1>1, <1>4, <3>1
    <3>3. read_count + Capacity <= n + Capacity /\ read_count + Capacity <= k + Capacity
      BY <1>1, <1>3, <1>4, <3>1
    <3>4. QED BY <1>1, <1>4, <3>2, <3>3
  <2>2. Address(k) # Address(n)
    BY <1>4, <1>8, <2>1, AddressDistinct
  <2>3. QED BY <1>2, <1>5, <1>6, <2>2, Zenon
<1>9. QED BY <1>7, <1>8

LEMMA CopyStep ==
    ASSUME DirectTypeOK, DirectParts, NEW r \in Readers, CopyBeat(r), WorkerStep(r)
    PROVE  DirectParts'
<1>1. PICK b, c : b = worker[r].block /\ c = worker[r].copied
  OBVIOUS
<1>2. PICK n : n = block_begin[b] + c
  OBVIOUS
<1>3. /\ worker[r].at = "copy" /\ c < Beats(b)
      /\ mem' = [mem EXCEPT ![Address(n)] = n]
      /\ WorkerGoes(r, "copy", b, c + 1)
      /\ UNCHANGED <<jobs_, completions>>
  BY <1>1, <1>2 DEF CopyBeat, completionQueue
<1>4. UNCHANGED <<pc, read_count, source, committed, block_done, jobs_, completions>>
  BY <1>3, WorkersKeep
<1>5. BlocksTile /\ InOneHand /\ CommittedPrefix /\ RingWindow /\ CommittedHeld /\ CopiedInRing
  BY DEF DirectParts
<1>6. /\ b \in taken /\ b \in 1..(next_assign - 1) /\ b \in 1..Last /\ c \in Nat
      /\ b \notin block_done
  <2>1. b \in taken /\ c \in Nat
    BY <1>1, <1>3, <1>5, TakenBlocks
  <2>2. b \notin block_done
    BY <1>1, <1>3, <1>5, Zenon DEF InOneHand
  <2>3. QED BY <1>5, <2>1, <2>2, TakenBlocks
<1>7. /\ block_begin[b] \in Nat /\ Beats(b) \in Nat /\ BlockEnd(b) \in Nat
      /\ BlockEnd(b) = block_begin[b] + Beats(b) /\ BlockEnd(b) <= reserved_count
      /\ reserved_count \in Nat
  BY <1>5, <1>6, BlockNumbers, DirectNumbers DEF BlocksTile
<1>8. n \in Nat /\ n < BlockEnd(b) /\ n < reserved_count /\ block_begin[b] <= n
      /\ n + 1 = block_begin[b] + (c + 1)
  BY <1>2, <1>3, <1>6, <1>7
<1>9. /\ \A q \in Readers \ {r} : worker'[q] = worker[q]
      /\ worker'[r].at = "copy" /\ worker'[r].block = b /\ worker'[r].copied = c + 1
  <2>1. worker \in [Readers -> Spots]
    BY DirectNumbers
  <2>2. QED BY <1>3, <2>1 DEF WorkerGoes
<1>10. InOneHand'
  <2>1. c + 1 <= Beats(b)
    BY <1>3, <1>6, <1>7
  <2>2. ASSUME NEW q \in Readers, worker'[q].at = "copy"
        PROVE  /\ worker[q].at = "copy" /\ worker'[q].block = worker[q].block
               /\ worker'[q].copied <= Beats(worker[q].block)
    <3>1. CASE q = r
      BY <1>1, <1>3, <1>9, <2>1, <3>1
    <3>2. CASE q # r
      BY <1>5, <1>9, <2>2, <3>2, Zenon DEF InOneHand
    <3>3. QED BY <3>1, <3>2
  <2>3. QED BY <1>4, <1>5, <2>2, Zenon DEF InOneHand, source, Beats
<1>11. ASSUME BoardLive, NEW from \in Nat, NEW to \in Nat, to <= reserved_count, Held(from, to)
       PROVE  \A k \in from..(to - 1) : k >= read_count => mem'[Address(k)] = k
  <2>1. ring_write <= n
    <3>1. write_count <= block_begin[b]
      BY <1>5, <1>6, PrefixEnds
    <3>2. ring_write <= write_count
      BY <1>5, <1>11 DEF RingWindow
    <3>3. ring_write \in Nat /\ write_count \in Nat
      BY DirectNumbers
    <3>4. QED BY <1>7, <1>8, <3>1, <3>2, <3>3
  <2>2. QED BY <1>3, <1>5, <1>8, <1>11, <2>1, CopyKeepsHeld
<1>12. CommittedHeld'
  <2>1. SUFFICES ASSUME BoardLive
                 PROVE  \A k \in 0..(write_count - 1) : k >= read_count => mem'[Address(k)] = k
    BY <1>4, Zenon DEF CommittedHeld, Held, BoardLive, committed
  <2>2. Held(0, write_count) /\ write_count \in Nat /\ write_count <= reserved_count
    BY <1>5, <2>1, PrefixEnds, DirectNumbers DEF CommittedHeld
  <2>3. QED BY <1>11, <2>1, <2>2
<1>13. CopiedInRing'
  <2>1. SUFFICES ASSUME BoardLive
                 PROVE  /\ \A d \in block_done : Held(block_begin[d], BlockEnd(d))'
                        /\ \A i \in DOMAIN completions :
                              Held(block_begin[completions[i]], BlockEnd(completions[i]))'
                        /\ \A q \in Readers : worker'[q].at = "copy" =>
                              Held(block_begin[worker[q].block],
                                   block_begin[worker[q].block] + worker[q].copied)'
    BY <1>4, Zenon DEF CopiedInRing, BoardLive
  <2>2. ASSUME NEW d \in taken, NEW to \in Nat, to <= BlockEnd(d), Held(block_begin[d], to)
        PROVE  \A k \in block_begin[d]..(to - 1) : k >= read_count => mem'[Address(k)] = k
    <3>1. d \in 1..Last /\ d \in 1..(next_assign - 1)
      BY <1>5, <2>2, TakenBlocks
    <3>2. block_begin[d] \in Nat /\ BlockEnd(d) \in Nat /\ BlockEnd(d) <= reserved_count
      BY <1>5, <3>1, BlockNumbers DEF BlocksTile
    <3>3. to <= reserved_count
      BY <1>7, <2>2, <3>2
    <3>4. QED BY <1>11, <2>1, <2>2, <3>2, <3>3
  <2>3. \A d \in taken : BlockEnd(d) \in Nat /\ BlockEnd(d) <= BlockEnd(d)
    BY <1>5, TakenBlocks, BlockNumbers
  <2>4. ASSUME NEW d \in block_done PROVE Held(block_begin[d], BlockEnd(d))'
    <3>1. d \in taken /\ Held(block_begin[d], BlockEnd(d))
      BY <1>5, <2>1, <2>4, TakenBlocks, Zenon DEF CopiedInRing
    <3>2. QED BY <1>4, <2>2, <2>3, <3>1, Zenon DEF Held, BlockEnd, source
  <2>5. ASSUME NEW i \in DOMAIN completions
        PROVE  Held(block_begin[completions[i]], BlockEnd(completions[i]))'
    <3>1. completions[i] \in taken /\ Held(block_begin[completions[i]], BlockEnd(completions[i]))
      BY <1>5, <2>1, <2>5, TakenBlocks, Zenon DEF CopiedInRing
    <3>2. QED BY <1>4, <2>2, <2>3, <3>1, Zenon DEF Held, BlockEnd, source
  <2>6. ASSUME NEW q \in Readers, worker'[q].at = "copy"
        PROVE  Held(block_begin[worker[q].block], block_begin[worker[q].block] + worker[q].copied)'
    <3>1. CASE q # r
      <4>1. worker'[q] = worker[q] /\ worker[q].at = "copy"
        BY <1>9, <2>6, <3>1
      <4>2. PICK d, e : d = worker[q].block /\ e = worker[q].copied
        OBVIOUS
      <4>3. d \in taken /\ e \in Nat /\ e <= Beats(d) /\ Held(block_begin[d], block_begin[d] + e)
        BY <1>5, <2>1, <4>1, <4>2, TakenBlocks, Zenon DEF CopiedInRing
      <4>4. block_begin[d] + e \in Nat /\ block_begin[d] + e <= BlockEnd(d)
        <5>1. d \in 1..Last
          BY <1>5, <4>3, TakenBlocks
        <5>2. /\ block_begin[d] \in Nat /\ Beats(d) \in Nat
              /\ BlockEnd(d) = block_begin[d] + Beats(d)
          BY <5>1, BlockNumbers
        <5>3. QED BY <4>3, <5>2
      <4>5. QED BY <1>4, <2>2, <4>1, <4>2, <4>3, <4>4, Zenon DEF Held, source
    <3>2. CASE q = r
      <4>1. Held(block_begin[b], n)
        BY <1>1, <1>2, <1>3, <1>5, <2>1, Zenon DEF CopiedInRing
      <4>2. n <= BlockEnd(b)
        BY <1>7, <1>8
      <4>3. \A k \in block_begin[b]..(n - 1) : k >= read_count => mem'[Address(k)] = k
        BY <1>6, <1>8, <2>2, <4>1, <4>2
      <4>4. mem'[Address(n)] = n
        BY <1>3, <1>8, AddressInRing, Zenon DEF DirectTypeOK
      <4>5. \A k \in block_begin[b]..((n + 1) - 1) : k \in block_begin[b]..(n - 1) \/ k = n
        BY <1>7, <1>8
      <4>6. \A k \in block_begin[b]..((n + 1) - 1) : k >= read_count => mem'[Address(k)] = k
        BY <4>3, <4>4, <4>5, Zenon
      <4>7. block_begin[b] + worker'[r].copied = n + 1 /\ worker'[r].block = b
        BY <1>8, <1>9
      <4>8. QED BY <1>4, <3>2, <4>6, <4>7, Zenon DEF Held, source
    <3>3. QED BY <3>1, <3>2
  <2>7. QED BY <2>4, <2>5, <2>6
<1>14. QED BY <1>10, <1>12, <1>13, WorkersKeep DEF DirectParts

LEMMA CompleteStep ==
    ASSUME DirectTypeOK, DirectParts, NEW r \in Readers, CompleteBlock(r), WorkerStep(r)
    PROVE  DirectParts'
<1>1. PICK b : b = worker[r].block
  OBVIOUS
<1>2. /\ worker[r].at = "copy" /\ worker[r].copied = Beats(b)
      /\ completions' = Append(completions, b)
      /\ WorkerGoes(r, "pop", None, 0)
      /\ UNCHANGED <<mem, jobs_>>
  BY <1>1 DEF CompleteBlock
<1>3. UNCHANGED <<pc, read_count, source, committed, block_done, mem, jobs_>>
  BY <1>2, WorkersKeep
<1>4. InOneHand /\ CopiedInRing
  BY DEF DirectParts
<1>5. b \in taken
  BY <1>1, <1>2, <1>4, TakenBlocks
<1>6. \A q \in Readers : worker'[q].at = "copy" =>
          worker'[q] = worker[q] /\ worker[q].at = "copy" /\ q # r
  <2>1. worker \in [Readers -> Spots]
    BY DirectNumbers
  <2>2. QED BY <1>2, <2>1 DEF WorkerGoes
<1>7. \A i \in DOMAIN completions' :
          (i \in DOMAIN completions /\ completions'[i] = completions[i]) \/ completions'[i] = b
  <2>1. completions \in Seq(1..Last) /\ b \in 1..Last
    BY <1>4, <1>5, DirectNumbers, TakenBlocks
  <2>2. /\ Len(completions) \in Nat /\ DOMAIN completions = 1..Len(completions)
        /\ DOMAIN completions' = 1..(Len(completions) + 1)
    BY <1>2, <2>1, AppendProperties, LenProperties
  <2>3. /\ \A i \in 1..Len(completions) : completions'[i] = completions[i]
        /\ completions'[Len(completions) + 1] = b
    BY <1>2, <2>1, AppendProperties
  <2>4. QED BY <2>2, <2>3
<1>8. InOneHand'
  <2>1. \A i \in DOMAIN completions' : completions'[i] < next_assign - Len(jobs_)
    <3>1. b < next_assign - Len(jobs_)
      <4>1. next_assign \in Nat /\ Len(jobs_) \in Nat
        BY DirectNumbers
      <4>2. QED BY <1>5, <4>1 DEF taken
    <3>2. QED BY <1>4, <1>7, <3>1, Zenon DEF InOneHand
  <2>2. ASSUME NEW q \in Readers, worker'[q].at = "copy", NEW i \in DOMAIN completions'
        PROVE  completions'[i] # worker[q].block
    <3>1. worker[q].at = "copy" /\ q # r
      BY <1>6, <2>2
    <3>2. worker[q].block # b
      BY <1>1, <1>2, <1>4, <3>1, Zenon DEF InOneHand
    <3>3. QED BY <1>4, <1>7, <3>1, <3>2, Zenon DEF InOneHand
  <2>3. QED BY <1>3, <1>4, <1>6, <2>1, <2>2, Zenon DEF InOneHand, source
<1>9. CommittedHeld'
  BY <1>3, Zenon DEF DirectParts, CommittedHeld, Held, BoardLive, committed
<1>10. CopiedInRing'
  <2>1. SUFFICES ASSUME BoardLive
                 PROVE  /\ \A d \in block_done : Held(block_begin[d], BlockEnd(d))
                        /\ \A i \in DOMAIN completions' :
                              Held(block_begin[completions'[i]], BlockEnd(completions'[i]))
                        /\ \A q \in Readers : worker'[q].at = "copy" =>
                              Held(block_begin[worker'[q].block],
                                   block_begin[worker'[q].block] + worker'[q].copied)
    BY <1>3, Zenon DEF CopiedInRing, BoardLive, Held, BlockEnd, source
  <2>2. Held(block_begin[b], BlockEnd(b))
    BY <1>1, <1>2, <1>4, <2>1, Zenon DEF CopiedInRing, BlockEnd
  <2>3. QED BY <1>4, <1>6, <1>7, <2>1, <2>2, Zenon DEF CopiedInRing
<1>11. QED BY <1>8, <1>9, <1>10, WorkersKeep DEF DirectParts

LEMMA WorkerStepKeeps ==
    ASSUME DirectTypeOK, DirectParts, NEW r \in Readers, WorkerStep(r)
    PROVE  DirectParts'
<1>1. CASE OpenDevice(r) \/ WorkerFails(r)
  <2>1. /\ UNCHANGED <<mem, jobs_, completions>>
        /\ WorkerGoes(r, "pop", None, 0) \/ WorkerGoes(r, "exit", None, 0)
    BY <1>1 DEF OpenDevice, WorkerFails, completionQueue
  <2>2. "pop" # "copy" /\ "exit" # "copy"
    OBVIOUS
  <2>3. QED BY <2>1, <2>2, RestStep, Zenon
<1>2. CASE PopJob(r) /\ jobs_ = <<>>
  <2>1. /\ UNCHANGED <<mem, jobs_, completions>>
        /\ WorkerGoes(r, "exit", None, 0) \/ UNCHANGED worker
    BY <1>2 DEF PopJob, completionQueue
  <2>2. \E at : at = "exit" /\ at # "copy"
    OBVIOUS
  <2>3. PICK at : at = "exit" /\ at # "copy"
    BY <2>2
  <2>4. WorkerGoes(r, at, None, 0) \/ UNCHANGED worker
    BY <2>1, <2>3
  <2>5. QED BY <2>1, <2>3, <2>4, RestStep
<1>3. CASE PopJob(r) /\ jobs_ # <<>>
  BY <1>3, PopStep
<1>4. CASE CopyBeat(r)
  BY <1>4, CopyStep
<1>5. CASE CompleteBlock(r)
  BY <1>5, CompleteStep
<1>6. QED BY <1>1, <1>2, <1>3, <1>4, <1>5, Zenon DEF WorkerStep

LEMMA DeliverStep ==
    ASSUME DirectTypeOK, DirectParts, DeliverBeat
    PROVE  DirectParts'
<1>1. /\ state = "run" /\ read_count < ring_write /\ read_count' = read_count + 1
      /\ UNCHANGED <<ring_write, state, pc, mem, write_shadow, source, committed, polled,
                     jobs_, completions, worker, block_done, started>>
  BY DEF DeliverBeat, ConsumeBeat, place, threads, jobQueue, completionQueue
<1>2. BlocksTile /\ InOneHand /\ CommittedPrefix /\ RingWindow /\ CommittedHeld /\ CopiedInRing
      /\ DirectPollSound /\ DirectPosition
  BY DEF DirectParts
<1>3. BoardLive /\ started
  BY <1>1, <1>2 DEF DirectPosition
<1>4. read_count \in Nat /\ ring_write \in Nat /\ read_count' \in Nat
      /\ read_count <= read_count' /\ read_count' <= ring_write
  BY <1>1, DirectNumbers
<1>5. BlocksTile' /\ InOneHand'
  BY <1>1, <1>2, Zenon DEF BlocksTile, InOneHand, BlockEnd, source
<1>6. CommittedPrefix'
  BY <1>1, <1>2, Zenon DEF CommittedPrefix, BlockEnd, source, committed
<1>7. RingWindow'
  <2>1. reserved_count + Guard <= read_count' + Capacity
    <3>1. reserved_count + Guard <= read_count + Capacity
      BY <1>2, <1>3 DEF RingWindow
    <3>2. reserved_count \in Nat /\ Guard \in Nat /\ Capacity \in Nat
      BY DirectNumbers, ConstantTypes
    <3>3. QED BY <1>4, <3>1, <3>2, LaterPointer
  <2>2. QED BY <1>1, <1>2, <1>3, <1>4, <2>1, Zenon DEF RingWindow, source, committed
<1>8. ASSUME NEW from \in Nat, NEW to \in Nat, Held(from, to)
      PROVE  \A k \in from..(to - 1) : k >= read_count' => mem[Address(k)] = k
  <2>1. \A k \in from..(to - 1) : k >= read_count' => k >= read_count
    BY <1>4
  <2>2. QED BY <1>8, <2>1, Zenon DEF Held
<1>9. CommittedHeld'
  <2>1. Held(0, write_count) /\ write_count \in Nat
    BY <1>2, <1>3, DirectNumbers DEF CommittedHeld
  <2>2. \A k \in 0..(write_count - 1) : k >= read_count' => mem[Address(k)] = k
    BY <1>8, <2>1
  <2>3. QED BY <1>1, <2>2, Zenon DEF CommittedHeld, Held, committed
<1>10. CopiedInRing'
  <2>1. \A d \in taken : block_begin[d] \in Nat /\ Beats(d) \in Nat /\ BlockEnd(d) \in Nat
    BY <1>2, TakenBlocks, BlockNumbers
  <2>2. \A d \in taken, to \in Nat : Held(block_begin[d], to) =>
            \A k \in block_begin[d]..(to - 1) : k >= read_count' => mem[Address(k)] = k
    BY <1>8, <2>1
  <2>3. ASSUME NEW d \in block_done PROVE Held(block_begin[d], BlockEnd(d))'
    <3>1. d \in taken /\ Held(block_begin[d], BlockEnd(d))
      BY <1>2, <1>3, <2>3, TakenBlocks, Zenon DEF CopiedInRing
    <3>2. QED BY <1>1, <2>1, <2>2, <3>1, Zenon DEF Held, BlockEnd, source
  <2>4. ASSUME NEW i \in DOMAIN completions
        PROVE  Held(block_begin[completions[i]], BlockEnd(completions[i]))'
    <3>1. completions[i] \in taken /\ Held(block_begin[completions[i]], BlockEnd(completions[i]))
      BY <1>2, <1>3, <2>4, TakenBlocks, Zenon DEF CopiedInRing
    <3>2. QED BY <1>1, <2>1, <2>2, <3>1, Zenon DEF Held, BlockEnd, source
  <2>5. ASSUME NEW q \in Readers, worker[q].at = "copy"
        PROVE  Held(block_begin[worker[q].block], block_begin[worker[q].block] + worker[q].copied)'
    <3>1. PICK d, e : d = worker[q].block /\ e = worker[q].copied
      OBVIOUS
    <3>2. d \in taken /\ e \in Nat /\ Held(block_begin[d], block_begin[d] + e)
      BY <1>2, <1>3, <2>5, <3>1, TakenBlocks, Zenon DEF CopiedInRing
    <3>3. block_begin[d] + e \in Nat
      BY <2>1, <3>2
    <3>4. QED BY <1>1, <2>2, <3>1, <3>2, <3>3, Zenon DEF Held, source
  <2>6. QED BY <1>1, <2>3, <2>4, <2>5, Zenon DEF CopiedInRing
<1>11. DirectPollSound'
  <2>1. pc = "rdhi" => \E n \in 0..read_count' :
                          rd_lo = n % Word /\ reserved_count + Guard <= n + Capacity
    <3>1. \A n \in 0..read_count : n \in 0..read_count'
      BY <1>4
    <3>2. QED BY <1>2, <3>1, Zenon DEF DirectPollSound
  <2>2. pc = "decide" => rd <= read_count' \/ rd > write_count
    BY <1>2, <1>4, DirectNumbers DEF DirectPollSound
  <2>3. QED BY <1>1, <2>1, <2>2, Zenon DEF DirectPollSound, source, committed, polled
<1>12. DirectPosition'
  BY <1>1, <1>2, <1>3, Zenon DEF DirectPosition, BoardLive, source, committed
<1>13. QED BY <1>5, <1>6, <1>7, <1>9, <1>10, <1>11, <1>12 DEF DirectParts

LEMMA DirectStepKeeps ==
    ASSUME DirectTypeOK, DirectParts, DirectNext, Capacity <= Word
    PROVE  DirectTypeOK' /\ DirectParts'
<1>1. CASE MainStep \/ WaitTimesOut
  <2>1. DirectTypeOK'
    BY <1>1, MainStepTyped DEF DirectParts
  <2>2. DirectParts'
    BY <1>1, MovesStep, AssignStep, CollectStep, CommitStep, PublishStep, StopStep, Zenon
       DEF MainStep, Moves
  <2>3. QED BY <2>1, <2>2
<1>2. ASSUME NEW r \in Readers, WorkerStep(r) PROVE DirectTypeOK' /\ DirectParts'
  <2>1. DirectTypeOK'
    BY <1>2, WorkerStepTyped DEF DirectParts
  <2>2. DirectParts'
    BY <1>2, WorkerStepKeeps
  <2>3. QED BY <2>1, <2>2
<1>3. CASE DeliverBeat \/ ReaderFinishes
  <2>1. DirectTypeOK'
    BY <1>3, BoardStepTyped
  <2>2. DirectParts'
    BY <1>3, DeliverStep, MovesStep DEF Moves
  <2>3. QED BY <2>1, <2>2
<1>4. QED BY <1>1, <1>2, <1>3, Zenon DEF DirectNext

\* The promise to the reader follows: what it may take is committed, and what
\* is committed and not yet taken is in the ring.
LEMMA PartsPublishWhole ==
    ASSUME DirectTypeOK, DirectParts
    PROVE  PublishedWhole
<1>1. SUFFICES ASSUME state = "run", NEW k \in read_count..(ring_write - 1)
               PROVE  mem[Address(k)] = k
  BY DEF PublishedWhole
<1>2. BoardLive
  BY <1>1 DEF DirectParts, DirectPosition
<1>3. Held(0, write_count) /\ ring_write <= write_count
  BY <1>2 DEF DirectParts, CommittedHeld, RingWindow
<1>4. k \in 0..(write_count - 1) /\ k >= read_count
  BY <1>1, <1>3, DirectNumbers
<1>5. QED BY <1>3, <1>4, Zenon DEF Held

\* The direct path at work, or untouched.
LEMMA LoaderStepDirect ==
    ASSUME [Next]_vars
    PROVE  DirectNext \/ UNCHANGED directVars
  BY DEF Next, Staged, Direct, vars

LEMMA DirectUntouched ==
    ASSUME DirectTypeOK, DirectParts, UNCHANGED directVars
    PROVE  DirectTypeOK' /\ DirectParts'
<1> USE DEF directVars, consumerVars, board, ring, source, committed, polled, threads, jobQueue,
        completionQueue, place
<1>1. DirectTypeOK'
  <2>1. UNCHANGED Bookkeeping /\ UNCHANGED place
    BY DEF Bookkeeping
  <2>2. QED BY <2>1, MainMovesTyped, Zenon DEF DirectTypeOK
<1>2. (BlocksTile /\ InOneHand /\ CommittedPrefix /\ RingWindow)'
  BY Zenon DEF DirectParts, BlocksTile, InOneHand, CommittedPrefix, RingWindow, BlockEnd,
               BoardLive
<1>3. (CommittedHeld /\ CopiedInRing)'
  BY Zenon DEF DirectParts, CommittedHeld, CopiedInRing, Held, BlockEnd, BoardLive
<1>4. (DirectPollSound /\ DirectPosition)'
  BY Zenon DEF DirectParts, DirectPollSound, DirectPosition, BoardLive
<1>5. QED BY <1>1, <1>2, <1>3, <1>4 DEF DirectParts

\* Blocks that workers complete in any order reach the reader whole: with
\* pointers read and written word by word, no beat it may take is missing or
\* overwritten, as long as one register word can count the whole ring.
THEOREM DirectSafe ==
    ASSUME Capacity <= Word
    PROVE  Spec => []DirectInv
<1>1. Init => DirectTypeOK /\ DirectParts
  BY DirectInvInit DEF Init
<1>2. ASSUME DirectTypeOK /\ DirectParts, [Next]_vars
      PROVE  (DirectTypeOK /\ DirectParts)'
  BY <1>2, LoaderStepDirect, DirectStepKeeps, DirectUntouched
<1>3. DirectTypeOK /\ DirectParts => DirectInv
  BY PartsPublishWhole DEF DirectInv, DirectParts
<1>4. QED BY <1>1, <1>2, <1>3, PTL DEF Spec

\* What a step does to the registers of the reader.
LEMMA DirectStepContract ==
    ASSUME DirectTypeOK, DirectParts, DirectNext
    PROVE  [ConsumerNext]_consumerVars
<1>1. CASE WriteHi
  <2>1. BoardLive /\ write_shadow = write_count % Word
        /\ ring_write' = (write_count \div Word) * Word + write_shadow
        /\ UNCHANGED <<eof, state, read_count, error>>
    BY <1>1, Zenon DEF WriteHi, BoardLive, DirectParts, DirectPosition
  <2>2. ring_write' = write_count
    <3>1. write_count \in Nat /\ Word \in Nat \ {0}
      BY DirectNumbers, ConstantTypes
    <3>2. QED BY <2>1, <3>1, DivMod
  <2>3. /\ ring_write <= write_count /\ write_count <= reserved_count
        /\ reserved_count + Guard <= read_count + Capacity
    BY <2>1, PrefixEnds DEF DirectParts, RingWindow
  <2>4. /\ ring_write \in Nat /\ write_count \in Nat /\ reserved_count \in Nat
        /\ read_count \in Nat /\ Guard \in Nat /\ Capacity \in Nat
    BY DirectNumbers, ConstantTypes
  <2>5. write_count - read_count <= Capacity
    BY <2>3, <2>4
  <2>6. CommitWindow
    BY <2>1, <2>2, <2>3, <2>4, <2>5 DEF CommitWindow
  <2>7. QED BY <2>6 DEF ConsumerNext
<1>2. CASE WriteClear
  BY <1>2 DEF WriteClear, DirectParts, DirectPosition, ConsumerNext, ClearWindow
<1>3. CASE StartReplay \/ WriteEof \/ WriteStop \/ ReaderFinishes \/ DeliverBeat
  BY <1>3, Zenon DEF StartReplay, WriteEof, WriteStop, ReaderFinishes, DeliverBeat, ConsumerNext
<1>4. CASE EnterAssign \/ PollAbort \/ NoRoom \/ CollectTimesOut \/ CommitNoMore
           \/ WaitDone \/ WaitTimesOut \/ AssignBlock \/ Collect \/ CommitBlock
  BY <1>4, Zenon DEF EnterAssign, PollAbort, NoRoom, CollectTimesOut, CommitNoMore, WaitDone,
                     WaitTimesOut, AssignBlock, Collect, CommitBlock
<1>5. CASE ReadLo \/ ReadHi \/ WriteLo \/ FinishJobs \/ JoinWorkers \/ WritePktCount
  BY <1>5, WordSteps, Zenon DEF FinishJobs, JoinWorkers, WritePktCount
<1>6. CASE \E r \in Readers : WorkerStep(r)
  BY <1>6, Zenon DEF WorkerStep
<1>7. QED BY <1>1, <1>2, <1>3, <1>4, <1>5, <1>6, Zenon DEF DirectNext, MainStep

\* Whatever the order of completions, main is a host as ddr_stream_reader
\* expects it: pointers only move forward, within one capacity of what has been
\* delivered, and only a stopped reader is cleared.
THEOREM DirectMeetsContract ==
    ASSUME Capacity <= Word
    PROVE  Spec => DirectContract
<1>1. Init => ConsumerInit
  BY DEF Init, DirectInit
<1>2. ASSUME DirectTypeOK /\ DirectParts, [Next]_vars
      PROVE  [ConsumerNext]_consumerVars
  <2>1. UNCHANGED directVars => UNCHANGED consumerVars
    BY DEF directVars
  <2>2. QED BY <1>2, <2>1, LoaderStepDirect, DirectStepContract
<1>3. Init => DirectTypeOK /\ DirectParts
  BY DirectInvInit DEF Init
<1>4. ASSUME DirectTypeOK /\ DirectParts, [Next]_vars
      PROVE  (DirectTypeOK /\ DirectParts)'
  BY <1>4, LoaderStepDirect, DirectStepKeeps, DirectUntouched
<1>5. QED BY <1>1, <1>2, <1>3, <1>4, PTL DEF Spec, DirectContract, ConsumerSpec
=============================================================================
