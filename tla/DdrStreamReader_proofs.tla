----------------------- MODULE DdrStreamReader_proofs ------------------------
(***************************************************************************)
(* The ring reader fetches every beat from its place, never outside the    *)
(* window, never reports a false error and implements RingConsumer, for    *)
(* every ring size, burst length and command queue.                        *)
(***************************************************************************)
EXTENDS DdrStreamReader, ModLemmas, SequenceTheorems

\* What the constants are, without the power-of-two condition.
LEMMA ConstantTypes ==
    /\ Capacity \in Nat \ {0} /\ Ring \in Nat \ {0} /\ PingPong \in BOOLEAN
    /\ MAX_BURST_BEATS \in Nat \ {0} /\ CMD_DEPTH \in Nat \ {0} /\ MaxWrite \in Nat
    /\ Ring <= Capacity
  BY RingAssumption, ReaderAssumption DEF Capacity

\* The address of a position that is k beats on, without leaving the segment.
LEMMA AddressStep ==
    ASSUME NEW n \in Nat, NEW k \in Nat, NEW b \in {0, 1}, NEW o \in Nat,
           <<b, o>> = Address(n), o + k <= Ring
    PROVE  /\ o < Ring
           /\ ~PingPong => b = 0
           /\ Address(n + k) = IF o + k < Ring THEN <<b, o + k>>
                               ELSE <<IF PingPong THEN 1 - b ELSE b, 0>>
<1> USE ConstantTypes
<1> DEFINE p == n % Capacity
           q == (n + k) % Capacity
<1>1. p \in 0..(Capacity - 1)
  BY DivMod
<1>2. /\ <<b, o>> = IF p >= Ring THEN <<1, p - Ring>> ELSE <<0, p>>
      /\ Address(n + k) = IF q >= Ring THEN <<1, q - Ring>> ELSE <<0, q>>
  BY DEF Address
<1>3. Capacity = IF PingPong THEN 2 * Ring ELSE Ring
  BY DEF Capacity
<1>4. p + k <= Capacity => q = IF p + k = Capacity THEN 0 ELSE p + k
  <2>1. Capacity \in Nat \ {0}
    OBVIOUS
  <2>2. SUFFICES ASSUME (n % Capacity) + k <= Capacity
                 PROVE  (n + k) % Capacity = IF (n % Capacity) + k = Capacity THEN 0
                                             ELSE (n % Capacity) + k
    OBVIOUS
  <2> HIDE ConstantTypes
  <2>3. QED BY <2>1, <2>2, ModAdd, Zenon
<1> HIDE DEF p, q
<1>5. IF p >= Ring THEN b = 1 /\ o = p - Ring ELSE b = 0 /\ o = p
  BY <1>2
<1>6. CASE PingPong
  BY <1>1, <1>2, <1>3, <1>4, <1>5, <1>6
<1>7. CASE ~PingPong
  BY <1>1, <1>2, <1>3, <1>4, <1>5, <1>7
<1>8. QED BY <1>6, <1>7
\* The same, for one beat and for the end of a segment.
LEMMA AddressStepAll ==
    \A n, k, o \in Nat, b \in {0, 1} :
        <<b, o>> = Address(n) =>
            /\ o + k < Ring => Address(n + k) = <<b, o + k>>
            /\ o + k = Ring => Address(n + k) = <<IF PingPong THEN 1 - b ELSE 0, 0>>
<1>1. SUFFICES ASSUME NEW n \in Nat, NEW k \in Nat, NEW o \in Nat, NEW b \in {0, 1},
                      <<b, o>> = Address(n)
               PROVE  /\ o + k < Ring => Address(n + k) = <<b, o + k>>
                      /\ o + k = Ring => Address(n + k) = <<IF PingPong THEN 1 - b ELSE 0, 0>>
  OBVIOUS
<1>3. CASE o + k <= Ring
  <2>1. /\ ~PingPong => b = 0
        /\ Address(n + k) = IF o + k < Ring THEN <<b, o + k>>
                            ELSE <<IF PingPong THEN 1 - b ELSE b, 0>>
    BY <1>1, <1>3, AddressStep
  <2>2. QED BY <2>1, ConstantTypes
<1>4. CASE ~(o + k <= Ring)
  BY <1>4, ConstantTypes
<1>5. QED BY <1>3, <1>4
-----------------------------------------------------------------------------
\* The sizes of what the invariant counts.
LEMMA AnswerFields ==
    ASSUME NEW b \in Answer
    PROVE  b.pos \in Nat /\ b.bank \in {0, 1} /\ b.offset \in Nat /\ b.left \in Nat \ {0}
  BY DEF Answer

\* One beat of a burst is answered, and another one is left.
LEMMA BeatMovesOn ==
    ASSUME NEW b \in Answer, InPlace(b), b.left # 1,
           NEW c, c = [b EXCEPT !.pos = @ + 1, !.offset = @ + 1, !.left = @ - 1]
    PROVE  /\ c \in Answer /\ InPlace(c)
           /\ c.pos = b.pos + 1 /\ c.left = b.left - 1
<1>0. b.pos \in Nat /\ b.bank \in {0, 1} /\ b.offset \in Nat /\ b.left \in Nat \ {0}
  BY AnswerFields
<1>1. c \in Answer
  <2>1. b.pos + 1 \in Nat /\ b.offset + 1 \in Nat /\ b.left - 1 \in Nat \ {0}
    BY <1>0
  <2>2. QED BY <1>0, <2>1 DEF Answer
<1>2. /\ c.pos = b.pos + 1 /\ c.left = b.left - 1
      /\ c.offset = b.offset + 1 /\ c.bank = b.bank
  BY DEF Answer
<1>3. b.offset + 1 < Ring /\ b.offset + 1 <= Ring
  BY <1>0, ConstantTypes DEF InPlace
<1>4. Address(b.pos + 1) = <<b.bank, b.offset + 1>>
  <2>1. 1 \in Nat /\ <<b.bank, b.offset>> = Address(b.pos)
    BY DEF InPlace
  <2>2. QED BY <1>0, <1>3, <2>1, AddressStepAll
<1>5. c.offset + c.left = b.offset + b.left
  BY <1>0, <1>2
<1>6. InPlace(c)
  BY <1>2, <1>4, <1>5 DEF InPlace
<1>7. QED BY <1>1, <1>2, <1>6

\* What a beat leaves of the bursts to answer.
LEMMA ServedBursts ==
    ASSUME slave \in Seq(Answer), slave # <<>>, AnswersInPlace
    PROVE  /\ Served(TRUE) \in Seq(Answer)
           /\ \A i \in DOMAIN Served(TRUE) : InPlace(Served(TRUE)[i])
           /\ \/ /\ slave[1].left = 1
                 /\ Len(Served(TRUE)) = Len(slave) - 1
                 /\ \A i \in DOMAIN Served(TRUE) : Served(TRUE)[i] = slave[i + 1]
              \/ /\ slave[1].left # 1
                 /\ Len(Served(TRUE)) = Len(slave)
                 /\ Served(TRUE)[1].pos = slave[1].pos + 1
                 /\ Served(TRUE)[1].left = slave[1].left - 1
                 /\ \A i \in DOMAIN slave : i # 1 => Served(TRUE)[i] = slave[i]
<1>1. /\ Len(slave) \in Nat \ {0} /\ DOMAIN slave = 1..Len(slave) /\ 1 \in DOMAIN slave
      /\ slave[1] \in Answer /\ Head(slave) = slave[1]
  OBVIOUS
<1>2. CASE slave[1].left = 1
  <2>1. Served(TRUE) = Tail(slave)
    BY <1>1, <1>2 DEF Served
  <2>2. /\ Tail(slave) \in Seq(Answer) /\ Len(Tail(slave)) = Len(slave) - 1
        /\ \A i \in DOMAIN Tail(slave) : i + 1 \in DOMAIN slave /\ Tail(slave)[i] = slave[i + 1]
    BY <1>1
  <2>3. \A i \in DOMAIN Tail(slave) : InPlace(Tail(slave)[i])
    BY <2>2, Zenon DEF AnswersInPlace
  <2>4. QED BY <1>2, <2>1, <2>2, <2>3
<1>3. CASE slave[1].left # 1
  <2> DEFINE c == [slave[1] EXCEPT !.pos = @ + 1, !.offset = @ + 1, !.left = @ - 1]
             t == [slave EXCEPT ![1] = c]
  <2>1. Served(TRUE) = t
    BY <1>1, <1>3 DEF Served
  <2>2. InPlace(slave[1])
    BY <1>1 DEF AnswersInPlace
  <2>3. c \in Answer /\ InPlace(c) /\ c.pos = slave[1].pos + 1 /\ c.left = slave[1].left - 1
    BY <1>1, <1>3, <2>2, BeatMovesOn, Zenon
  <2> HIDE DEF c
  <2>4. /\ t \in Seq(Answer) /\ Len(t) = Len(slave) /\ DOMAIN t = DOMAIN slave
        /\ t[1] = c /\ \A i \in DOMAIN slave : i # 1 => t[i] = slave[i]
    BY <1>1, <2>3
  <2> HIDE DEF t
  <2>5. \A i \in DOMAIN t : InPlace(t[i])
    <3>1. TAKE i \in DOMAIN t
    <3>2. CASE i = 1
      BY <3>2, <2>3, <2>4, Zenon
    <3>3. CASE i # 1
      BY <3>3, <2>4, Zenon DEF AnswersInPlace
    <3>4. QED BY <3>2, <3>3
  <2>6. QED BY <1>3, <2>1, <2>3, <2>4, <2>5
<1>4. QED BY <1>2, <1>3

\* A beat moves the start of the tiling on by one.
LEMMA ServedTile ==
    ASSUME slave \in Seq(Answer), slave # <<>>, AnswersInPlace,
           NEW lo \in Nat, NEW hi \in Nat, Tile(slave, lo, hi)
    PROVE  Tile(Served(TRUE), lo + 1, hi)
<1> DEFINE t == Served(TRUE)
<1>1. /\ Len(slave) \in Nat \ {0} /\ DOMAIN slave = 1..Len(slave)
      /\ \A i \in DOMAIN slave : slave[i].pos \in Nat /\ slave[i].left \in Nat \ {0}
  BY AnswerFields
<1>2. /\ slave[1].pos = lo
      /\ slave[Len(slave)].pos + slave[Len(slave)].left = hi
      /\ \A i \in DOMAIN slave :
            /\ slave[i].pos + slave[i].left <= hi
            /\ i + 1 \in DOMAIN slave => slave[i + 1].pos = slave[i].pos + slave[i].left
  BY DEF Tile
<1>3. t \in Seq(Answer) /\ DOMAIN t = 1..Len(t) /\ Len(t) \in Nat
  <2>1. t \in Seq(Answer)
    BY ServedBursts
  <2> HIDE DEF t
  <2>2. QED BY <2>1
<1>4. CASE slave[1].left = 1
  <2>1. Len(t) = Len(slave) - 1 /\ \A i \in DOMAIN t : t[i] = slave[i + 1]
    BY <1>4, ServedBursts
  <2> HIDE DEF t
  <2>2. t = <<>> => lo + 1 = hi
    <3>1. SUFFICES ASSUME t = <<>> PROVE lo + 1 = hi
      OBVIOUS
    <3>2. Len(t) = 0
      BY <3>1
    <3>3. Len(slave) = 1
      <4>1. Len(t) = Len(slave) - 1 /\ Len(slave) \in Nat
        BY <1>1, <2>1
      <4>2. QED BY <4>1, <3>2
    <3>4. QED BY <1>2, <1>4, <3>3
  <2>3. t # <<>> => t[1].pos = lo + 1 /\ t[Len(t)].pos + t[Len(t)].left = hi
    <3>1. SUFFICES ASSUME t # <<>> PROVE t[1].pos = lo + 1 /\ t[Len(t)].pos + t[Len(t)].left = hi
      OBVIOUS
    <3>2. 1 \in DOMAIN t /\ Len(t) \in DOMAIN t
      BY <1>3, <3>1
    <3>3. t[1] = slave[2] /\ t[Len(t)] = slave[Len(slave)] /\ 1 \in DOMAIN slave /\ 2 \in DOMAIN slave
      BY <1>1, <1>3, <2>1, <3>2
    <3>4. slave[2].pos = slave[1].pos + slave[1].left
      BY <1>2, <3>3
    <3>5. QED BY <1>2, <1>4, <3>3, <3>4
  <2>4. \A i \in DOMAIN t : i + 1 \in DOMAIN t => t[i + 1].pos = t[i].pos + t[i].left
    <3>1. TAKE i \in DOMAIN t
    <3>2. HAVE i + 1 \in DOMAIN t
    <3>3. /\ i + 1 \in DOMAIN slave /\ (i + 1) + 1 \in DOMAIN slave
          /\ t[i] = slave[i + 1] /\ t[i + 1] = slave[(i + 1) + 1]
      BY <1>1, <1>3, <2>1, <3>2
    <3>4. QED BY <1>2, <3>3
  <2>5. \A i \in DOMAIN t : t[i].pos + t[i].left <= hi
    <3>1. TAKE i \in DOMAIN t
    <3>2. i + 1 \in DOMAIN slave /\ t[i] = slave[i + 1]
      BY <1>1, <1>3, <2>1
    <3>3. QED BY <1>2, <3>2
  <2>6. QED BY <2>2, <2>3, <2>4, <2>5 DEF Tile, t
<1>5. CASE slave[1].left # 1
  <2>1. /\ Len(t) = Len(slave) /\ DOMAIN t = DOMAIN slave
        /\ t[1].pos = slave[1].pos + 1 /\ t[1].left = slave[1].left - 1
        /\ \A i \in DOMAIN slave : i # 1 => t[i] = slave[i]
    BY <1>1, <1>3, <1>5, ServedBursts
  <2> HIDE DEF t
  <2>2. 1 \in DOMAIN slave /\ Len(slave) \in DOMAIN slave
    BY <1>1
  <2>3. \A i \in DOMAIN slave :
            /\ t[i].pos + t[i].left = slave[i].pos + slave[i].left
            /\ i # 1 => t[i].pos = slave[i].pos
    <3>1. TAKE i \in DOMAIN slave
    <3>2. CASE i = 1
      <4>1. slave[1].pos \in Nat /\ slave[1].left \in Nat
        BY <1>1, <2>2
      <4>2. t[1].pos = slave[1].pos + 1 /\ t[1].left = slave[1].left - 1
        BY <2>1, Zenon
      <4>3. (slave[1].pos + 1) + (slave[1].left - 1) = slave[1].pos + slave[1].left
        BY <4>1
      <4>4. t[1].pos + t[1].left = slave[1].pos + slave[1].left
        BY <4>2, <4>3, Zenon
      <4>5. QED BY <3>2, <4>4
    <3>3. CASE i # 1
      BY <2>1, <3>3
    <3>4. QED BY <3>2, <3>3
  <2>4. t # <<>> /\ t[1].pos = lo + 1 /\ t[Len(t)].pos + t[Len(t)].left = hi
    BY <1>1, <1>2, <2>1, <2>2, <2>3
  <2>5. \A i \in DOMAIN t : i + 1 \in DOMAIN t => t[i + 1].pos = t[i].pos + t[i].left
    <3>1. TAKE i \in DOMAIN t
    <3>2. HAVE i + 1 \in DOMAIN t
    <3>3. i \in DOMAIN slave /\ i + 1 \in DOMAIN slave /\ i + 1 # 1
      BY <1>1, <2>1, <3>2
    <3>4. QED BY <1>2, <2>3, <3>3
  <2>6. \A i \in DOMAIN t : t[i].pos + t[i].left <= hi
    BY <1>2, <2>1, <2>3
  <2>7. QED BY <2>4, <2>5, <2>6 DEF Tile, t
<1>6. QED BY <1>4, <1>5

\* A burst the slave takes lengthens the tiling.
LEMMA AppendTile ==
    ASSUME NEW s \in Seq(Answer), NEW b \in Answer, NEW lo \in Nat, Tile(s, lo, b.pos)
    PROVE  Tile(Append(s, b), lo, b.pos + b.left)
<1> DEFINE t == Append(s, b)
<1>1. /\ t \in Seq(Answer) /\ Len(t) = Len(s) + 1 /\ Len(s) \in Nat /\ t[Len(t)] = b
      /\ \A i \in 1..Len(s) : t[i] = s[i]
      /\ DOMAIN t = 1..Len(t) /\ DOMAIN s = 1..Len(s)
  OBVIOUS
<1>2. b.pos \in Nat /\ b.left \in Nat
  BY AnswerFields
<1> HIDE DEF t
<1>3. t # <<>> /\ t[1].pos = lo
  <2>1. CASE s = <<>>
    <3>1. lo = b.pos
      BY <2>1 DEF Tile
    <3>2. Len(s) = 0 /\ Len(t) = 1 /\ t[1] = b
      BY <1>1, <2>1
    <3>3. QED BY <3>1, <3>2
  <2>2. CASE s # <<>>
    <3>1. s[1].pos = lo
      BY <2>2 DEF Tile
    <3>2. 1 \in 1..Len(s)
      BY <1>1, <2>2
    <3>3. QED BY <1>1, <3>1, <3>2
  <2>3. QED BY <2>1, <2>2
<1>4. t[Len(t)].pos + t[Len(t)].left = b.pos + b.left
  BY <1>1
<1>5. \A i \in DOMAIN t : i + 1 \in DOMAIN t => t[i + 1].pos = t[i].pos + t[i].left
  <2>1. TAKE i \in DOMAIN t
  <2>2. HAVE i + 1 \in DOMAIN t
  <2>3. i \in 1..Len(s) /\ t[i] = s[i]
    BY <1>1, <2>2
  <2>4. CASE i = Len(s)
    <3>1. s # <<>> /\ s[i].pos + s[i].left = b.pos
      BY <2>3, <2>4 DEF Tile
    <3>2. t[i + 1] = b
      BY <1>1, <2>4
    <3>3. QED BY <2>3, <3>1, <3>2
  <2>5. CASE i # Len(s)
    <3>1. i + 1 \in 1..Len(s) /\ t[i + 1] = s[i + 1]
      BY <1>1, <2>3, <2>5
    <3>2. QED BY <1>1, <2>3, <3>1 DEF Tile
  <2>6. QED BY <2>4, <2>5
<1>6. \A i \in DOMAIN t : t[i].pos + t[i].left <= b.pos + b.left
  <2>1. TAKE i \in DOMAIN t
  <2>2. CASE i = Len(t)
    BY <1>1, <1>2, <2>2
  <2>3. CASE i # Len(t)
    <3>1. i \in 1..Len(s) /\ t[i] = s[i] /\ s[i] \in Answer
      BY <1>1, <2>3
    <3>2. s[i].pos + s[i].left <= b.pos
      BY <1>1, <3>1 DEF Tile
    <3>3. s[i].pos \in Nat /\ s[i].left \in Nat
      BY <3>1, AnswerFields
    <3>4. QED BY <1>2, <3>1, <3>2, <3>3
  <2>4. QED BY <2>2, <2>3
<1>7. QED BY <1>3, <1>4, <1>5, <1>6 DEF Tile, t
-----------------------------------------------------------------------------
(* A clock of a run.                                                       *)

\* The reader's count of the oldest burst is the slave's.
LEMMA CountsAgree ==
    ASSUME TypeOK, AnswersExpected, state = "run"
    PROVE  /\ slave # <<>> <=> cmds # <<>>
           /\ slave # <<>> =>
                /\ 1 \in DOMAIN slave /\ Head(slave) = slave[1] /\ slave[1] \in Answer
                /\ rsp_beats_left_eff = slave[1].left
                /\ rsp_last_beat <=> slave[1].left = 1
<1>1. /\ slave \in Seq(Answer) /\ cmds \in Seq(Nat \ {0}) /\ Len(slave) = Len(cmds)
  BY DEF TypeOK, AnswersExpected
<1>2. slave # <<>> <=> cmds # <<>>
  BY <1>1
<1>3. SUFFICES ASSUME slave # <<>>
               PROVE  /\ 1 \in DOMAIN slave /\ Head(slave) = slave[1] /\ slave[1] \in Answer
                      /\ rsp_beats_left_eff = slave[1].left
                      /\ rsp_last_beat <=> slave[1].left = 1
  BY <1>2
<1>4. /\ 1 \in DOMAIN slave /\ Head(slave) = slave[1] /\ slave[1] \in Answer
      /\ Head(cmds) = cmds[1]
  BY <1>1, <1>2, <1>3
<1>5. slave[1].left = Expected(1)
  BY <1>4 DEF AnswersExpected
<1>6. rsp_beats_left_eff = slave[1].left
  BY <1>4, <1>5 DEF Expected, rsp_beats_left_eff
<1>7. slave[1].left \in Nat \ {0}
  BY <1>4, AnswerFields
<1>8. rsp_last_beat <=> slave[1].left = 1
  BY <1>6, <1>7 DEF rsp_last_beat
<1>9. QED BY <1>4, <1>6, <1>8

\* The command queue without the burst that ends with this beat.
Rest(beat) == IF beat /\ slave[1].left = 1 THEN Tail(cmds) ELSE cmds

\* The response side of a clock.
LEMMA ResponseClock ==
    ASSUME ReaderInv, NEW ar_fire \in BOOLEAN, NEW beat \in BOOLEAN, NEW bad \in BOOLEAN,
           RunClock(ar_fire, beat, bad)
    PROVE  /\ Served(beat) \in Seq(Answer)
           /\ \A i \in DOMAIN Served(beat) : InPlace(Served(beat)[i])
           /\ Tile(Served(beat), read_count', issue_count)
           /\ Rest(beat) \in Seq(Nat \ {0})
           /\ Len(Served(beat)) = Len(Rest(beat)) /\ Len(Rest(beat)) <= Len(cmds)
           /\ \A i \in DOMAIN Served(beat) : Served(beat)[i].left =
                  (IF i = 1 /\ rsp_active' THEN rsp_beats_left' ELSE Rest(beat)[i])
           /\ rsp_active' => Rest(beat) # <<>>
           /\ rsp_active' \in BOOLEAN /\ rsp_beats_left' \in Nat
           /\ cmds' = IF ar_fire THEN Append(Rest(beat), burst.beats) ELSE Rest(beat)
           /\ read_count' = IF beat THEN read_count + 1 ELSE read_count
           /\ rsp_active' => rsp_active \/ beat
<1>1. /\ state = "run" /\ (beat => slave # <<>>)
      /\ slave \in Seq(Answer) /\ cmds \in Seq(Nat \ {0})
      /\ read_count \in Nat /\ issue_count \in Nat
      /\ rsp_active \in BOOLEAN /\ rsp_beats_left \in Nat
  BY DEF ReaderInv, TypeOK, ConsumerTypeOK, RunClock, SlaveClock
<1>2. /\ TypeOK /\ AnswersExpected /\ AnswersInPlace
      /\ Tile(slave, read_count, issue_count)
      /\ Len(slave) = Len(cmds) /\ (rsp_active => cmds # <<>>)
      /\ \A i \in DOMAIN slave : slave[i].left = Expected(i)
  BY <1>1 DEF ReaderInv, BurstsTile, AnswersExpected
<1>3. CASE ~beat
  <2>1. Served(beat) = slave /\ Rest(beat) = cmds
    BY <1>3 DEF Served, Rest
  <2>2. /\ UNCHANGED <<read_count, rsp_active, rsp_beats_left>>
        /\ cmds' = IF ar_fire THEN Append(cmds, burst.beats) ELSE cmds
    BY <1>3 DEF RunClock, Queue
  <2>3. \A i \in DOMAIN slave : slave[i].left =
            (IF i = 1 /\ rsp_active' THEN rsp_beats_left' ELSE cmds[i])
    <3>1. TAKE i \in DOMAIN slave
    <3>2. slave[i].left = Expected(i)
      BY <1>2
    <3>3. CASE i = 1 /\ rsp_active
      BY <2>2, <3>2, <3>3 DEF Expected
    <3>4. CASE ~(i = 1 /\ rsp_active)
      BY <2>2, <3>2, <3>4 DEF Expected
    <3>5. QED BY <3>3, <3>4
  <2>4. \A i \in DOMAIN slave : InPlace(slave[i])
    BY <1>2 DEF AnswersInPlace
  <2>5. Len(cmds) \in Nat
    BY <1>1
  <2>6. QED BY <1>1, <1>2, <1>3, <2>1, <2>2, <2>3, <2>4, <2>5
<1>4. CASE beat
  <2>1. slave # <<>> /\ cmds # <<>> /\ Served(beat) = Served(TRUE)
    BY <1>1, <1>2, <1>4, CountsAgree
  <2>2. /\ 1 \in DOMAIN slave /\ slave[1] \in Answer
        /\ rsp_beats_left_eff = slave[1].left
        /\ rsp_last_beat <=> slave[1].left = 1
    BY <1>1, <1>2, <2>1, CountsAgree
  <2>3. TakeBeat(ar_fire) /\ read_count' = read_count + 1
    BY <1>4, <2>1 DEF RunClock, TakeBeat
  <2> DEFINE t == Served(TRUE)
             c == Rest(beat)
  <2>4. Tile(t, read_count', issue_count)
    BY <1>1, <1>2, <2>1, <2>3, ServedTile
  <2>5. t \in Seq(Answer) /\ \A i \in DOMAIN t : InPlace(t[i])
    BY <1>1, <1>2, <2>1, ServedBursts
  <2>6. Len(cmds) \in Nat \ {0} /\ Len(slave) = Len(cmds) /\ DOMAIN slave = 1..Len(slave)
    BY <1>1, <1>2, <2>1
  <2>7. SUFFICES /\ c \in Seq(Nat \ {0})
                 /\ Len(t) = Len(c) /\ Len(c) <= Len(cmds)
                 /\ \A i \in DOMAIN t : t[i].left =
                        (IF i = 1 /\ rsp_active' THEN rsp_beats_left' ELSE c[i])
                 /\ rsp_active' => c # <<>>
                 /\ rsp_active' \in BOOLEAN /\ rsp_beats_left' \in Nat
                 /\ cmds' = IF ar_fire THEN Append(c, burst.beats) ELSE c
    BY <1>4, <2>1, <2>3, <2>4, <2>5
  <2>8. CASE slave[1].left = 1
    <3>1. c = Tail(cmds)
      BY <1>4, <2>8 DEF Rest
    <3>2. /\ rsp_active' = FALSE /\ rsp_beats_left' = 0
          /\ cmds' = IF ar_fire THEN Append(c, burst.beats) ELSE c
      BY <2>2, <2>3, <2>8, <3>1 DEF TakeBeat, Queue
    <3>3. /\ c \in Seq(Nat \ {0}) /\ Len(c) = Len(cmds) - 1
          /\ \A i \in 1..Len(c) : c[i] = cmds[i + 1]
      BY <1>1, <2>1, <3>1
    <3>4. /\ Len(t) = Len(slave) - 1
          /\ \A i \in DOMAIN t : t[i] = slave[i + 1]
      BY <1>1, <1>2, <2>1, <2>8, ServedBursts
    <3> HIDE DEF t, c
    <3>5. Len(t) \in Nat /\ DOMAIN t = 1..Len(t) /\ Len(t) = Len(c) /\ Len(c) <= Len(cmds)
      BY <2>5, <2>6, <3>3, <3>4
    <3>6. \A i \in DOMAIN t : t[i].left = c[i]
      <4>1. TAKE i \in DOMAIN t
      <4>2. i \in Nat \ {0} /\ i + 1 \in DOMAIN slave /\ i + 1 # 1 /\ i \in 1..Len(c)
        <5>1. Len(t) = Len(slave) - 1 /\ Len(slave) \in Nat
          BY <2>6, <3>4
        <5>2. QED BY <2>6, <3>5, <5>1
      <4>3. slave[i + 1].left = cmds[i + 1]
        BY <1>2, <4>2 DEF Expected
      <4>4. QED BY <3>3, <3>4, <4>2, <4>3
    <3>7. QED BY <3>2, <3>3, <3>5, <3>6
  <2>9. CASE slave[1].left # 1
    <3>1. c = cmds
      BY <1>4, <2>9 DEF Rest
    <3>2. /\ rsp_active' = TRUE /\ rsp_beats_left' = slave[1].left - 1
          /\ cmds' = IF ar_fire THEN Append(c, burst.beats) ELSE c
      BY <2>2, <2>3, <2>9, <3>1 DEF TakeBeat, Queue
    <3>3. /\ Len(t) = Len(slave)
          /\ t[1].left = slave[1].left - 1
          /\ \A i \in DOMAIN slave : i # 1 => t[i] = slave[i]
      BY <1>1, <1>2, <2>1, <2>9, ServedBursts
    <3> HIDE DEF t, c
    <3>4. DOMAIN t = DOMAIN slave
      BY <2>5, <2>6, <3>3
    <3>5. \A i \in DOMAIN t : t[i].left =
            (IF i = 1 /\ rsp_active' THEN rsp_beats_left' ELSE c[i])
      <4>1. TAKE i \in DOMAIN t
      <4>2. CASE i = 1
        BY <3>2, <3>3, <4>2
      <4>3. CASE i # 1
        BY <1>2, <3>1, <3>3, <3>4, <4>3 DEF Expected
      <4>4. QED BY <4>2, <4>3
    <3>6. slave[1].left - 1 \in Nat
      <4>1. slave[1].left \in Nat \ {0}
        BY <2>2, AnswerFields
      <4>2. QED BY <4>1
    <3>7. QED BY <1>1, <2>1, <2>6, <3>1, <3>2, <3>3, <3>5, <3>6
  <2>10. QED BY <2>8, <2>9
<1>5. QED BY <1>3, <1>4
-----------------------------------------------------------------------------
\* What the invariant says of the burst in the pipeline.
LEMMA BurstFields ==
    ASSUME ReaderInv
    PROVE  /\ burst.ok \in BOOLEAN /\ burst.bank \in {0, 1} /\ burst.offset \in 0..(Ring - 1)
           /\ burst.avail \in Nat /\ burst.wrap \in Nat /\ burst.beats \in Nat
           /\ issue_count \in Nat /\ issue_offset \in 0..(Ring - 1) /\ issue_bank_select \in {0, 1}
           /\ read_count \in Nat /\ ring_write \in Nat /\ ring_write_aligned_q \in Nat
           /\ burst \in Burst /\ NextPlace /\ BurstSound
  BY DEF ReaderInv, TypeOK, ConsumerTypeOK, Burst, Offsets

\* The slave takes a burst: the next one begins at the address behind it.
LEMMA PlaceAdvances ==
    ASSUME ReaderInv, stage = "ar", AdvanceIssue
    PROVE  /\ NextPlace' /\ issue_count' \in Nat
           /\ issue_offset' \in Offsets /\ issue_bank_select' \in {0, 1}
<1>1. /\ burst.beats \in Nat \ {0} /\ issue_offset + burst.beats <= Ring
      /\ issue_count \in Nat /\ issue_offset \in 0..(Ring - 1) /\ issue_bank_select \in {0, 1}
      /\ <<issue_bank_select, issue_offset>> = Address(issue_count)
  <2>1. /\ burst.beats \in 1..burst.avail /\ burst.beats <= burst.wrap
        /\ burst.wrap \in 1..(Ring - issue_offset)
    BY BurstFields DEF BurstSound
  <2>2. QED BY <2>1, BurstFields, ConstantTypes DEF NextPlace
<1> DEFINE next == issue_offset + burst.beats
<1>2. /\ issue_count' = issue_count + burst.beats
      /\ issue_offset' = IF next >= Ring THEN next - Ring ELSE next
      /\ issue_bank_select' = IF PingPong /\ next >= Ring
                              THEN 1 - issue_bank_select ELSE issue_bank_select
  BY DEF AdvanceIssue
<1>3. issue_offset \in Nat /\ burst.beats \in Nat
  BY <1>1, ConstantTypes
<1>4. /\ next < Ring => Address(issue_count + burst.beats) = <<issue_bank_select, next>>
      /\ next = Ring => Address(issue_count + burst.beats) =
                            <<IF PingPong THEN 1 - issue_bank_select ELSE 0, 0>>
  <2>1. /\ issue_count \in Nat /\ issue_bank_select \in {0, 1}
        /\ <<issue_bank_select, issue_offset>> = Address(issue_count)
    BY <1>1
  <2>2. QED BY <1>3, <2>1, AddressStepAll, ZenonT(60)
<1>5. ~PingPong => issue_bank_select = 0
  <2>1. 0 \in Nat /\ issue_offset + 0 <= Ring
    BY <1>1, ConstantTypes
  <2>2. QED BY <1>1, <1>3, <2>1, AddressStep
<1>6. next \in Nat /\ next <= Ring
  BY <1>1, <1>3
<1> HIDE DEF next
<1>7. CASE next < Ring
  <2>1. issue_offset' = next /\ issue_bank_select' = issue_bank_select
    BY <1>2, <1>6, <1>7, ConstantTypes
  <2>2. issue_offset' \in Offsets
    BY <1>6, <1>7, <2>1, ConstantTypes DEF Offsets
  <2>3. NextPlace'
    BY <1>2, <1>4, <1>7, <2>1 DEF NextPlace, Address, Capacity
  <2>4. QED BY <1>1, <1>2, <1>3, <2>1, <2>2, <2>3
<1>8. CASE next = Ring
  <2>1. /\ issue_offset' = 0
        /\ issue_bank_select' = IF PingPong THEN 1 - issue_bank_select ELSE 0
    BY <1>2, <1>5, <1>8, ConstantTypes
  <2>2. issue_offset' \in Offsets /\ issue_bank_select' \in {0, 1}
    BY <1>1, <2>1, ConstantTypes DEF Offsets
  <2>3. NextPlace'
    BY <1>2, <1>4, <1>8, <2>1 DEF NextPlace, Address, Capacity
  <2>4. QED BY <1>1, <1>2, <1>3, <2>2, <2>3
<1>9. QED BY <1>6, <1>7, <1>8, ConstantTypes

\* What the pipeline does to the burst, stage by stage.
BurstCore ==
    /\ stage # "none" =>
          /\ burst.bank = issue_bank_select /\ burst.offset = issue_offset
          /\ burst.ok => issue_count + burst.avail <= read_count + Capacity
          /\ burst.wrap \in 1..(Ring - issue_offset)
    /\ stage \in {"metrics", "ar"} =>
          burst.ok /\ burst.beats \in 1..burst.avail /\ burst.beats <= burst.wrap

LEMMA PipelineClock ==
    ASSUME ReaderInv, state = "run", BuildBurst, stage # "ar",
           read_count' \in Nat, read_count <= read_count'
    PROVE  /\ BurstCore' /\ burst' \in Burst
           /\ stage' \in {"none", "raw", "window", "metrics", "ar"}
           /\ NextPlace'
           /\ stage' = "ar" => issue_req /\ stage = "metrics"
           /\ ~Rogue /\ stage' # "none" => issue_count + burst'.avail <= ring_write_aligned_q
           /\ burst'.avail <= burst.avail \/ stage = "none"
<1> USE BurstFields
<1>0. UNCHANGED <<issue_count, issue_offset, issue_bank_select>> /\ NextPlace'
  BY DEF BuildBurst, NextPlace, Address, Capacity
<1>1. CASE stage = "none"
  <2>1. /\ stage' = "raw"
        /\ burst' = [ok |-> ~fatal_ring_error,
                     bank |-> issue_bank_select, offset |-> issue_offset,
                     avail |-> issue_available_beats, wrap |-> ring_beats_to_wrap,
                     beats |-> 0]
    BY <1>1 DEF BuildBurst
  <2>2. issue_available_beats \in Nat /\ ring_beats_to_wrap \in 1..(Ring - issue_offset)
    BY ConstantTypes DEF issue_available_beats, issue_write_behind, ring_beats_to_wrap
  <2>3. ~fatal_ring_error => issue_count + issue_available_beats <= read_count + Capacity
    BY ConstantTypes DEF fatal_ring_error, ring_write_behind, issue_write_behind, ring_overrun,
           issue_available_beats
  <2>4. ~Rogue => issue_count + issue_available_beats <= ring_write_aligned_q
    BY DEF ReaderInv, WindowLag, issue_available_beats, issue_write_behind
  <2>5. burst' \in Burst
    <3>1. (~fatal_ring_error) \in BOOLEAN
      BY DEF fatal_ring_error
    <3>2. ring_beats_to_wrap \in Nat
      BY <2>2, ConstantTypes
    <3>3. QED BY <2>1, <2>2, <3>1, <3>2 DEF Burst, Offsets
  <2>6. /\ burst'.ok = ~fatal_ring_error /\ burst'.bank = issue_bank_select
        /\ burst'.offset = issue_offset /\ burst'.avail = issue_available_beats
        /\ burst'.wrap = ring_beats_to_wrap
    BY <2>1
  <2>7. issue_count + issue_available_beats <= read_count + Capacity =>
            issue_count + issue_available_beats <= read_count' + Capacity
    BY <2>2, ConstantTypes
  <2>8. BurstCore'
    BY <1>0, <2>1, <2>2, <2>3, <2>6, <2>7 DEF BurstCore, Capacity
  <2>9. QED BY <1>0, <1>1, <2>1, <2>4, <2>5, <2>6, <2>8
<1>2. CASE stage = "raw"
  <2>1. /\ stage' = "window"
        /\ burst' = [burst EXCEPT !.avail = Least(@, MAX_BURST_BEATS),
                                  !.wrap = Least(@, MAX_BURST_BEATS)]
    BY <1>2 DEF BuildBurst
  <2>2. /\ burst'.ok = burst.ok /\ burst'.bank = burst.bank /\ burst'.offset = burst.offset
        /\ burst'.avail = Least(burst.avail, MAX_BURST_BEATS)
        /\ burst'.wrap = Least(burst.wrap, MAX_BURST_BEATS)
    BY <2>1 DEF Burst
  <2>3. /\ burst.wrap \in 1..(Ring - issue_offset)
        /\ burst.bank = issue_bank_select /\ burst.offset = issue_offset
        /\ burst.ok => issue_count + burst.avail <= read_count + Capacity
    BY <1>2 DEF BurstSound
  <2>4. burst'.avail \in Nat /\ burst'.avail <= burst.avail
    BY <2>2, ConstantTypes DEF Least
  <2>5. burst'.wrap \in 1..(Ring - issue_offset)
    <3>1. /\ Least(burst.wrap, MAX_BURST_BEATS) \in Nat
          /\ Least(burst.wrap, MAX_BURST_BEATS) <= burst.wrap
          /\ Least(burst.wrap, MAX_BURST_BEATS) >= 1
      BY <2>3, ConstantTypes DEF Least
    <3>2. QED BY <2>2, <2>3, <3>1, ConstantTypes
  <2>6. burst' \in Burst
    <3>1. Least(burst.avail, MAX_BURST_BEATS) \in Nat /\ Least(burst.wrap, MAX_BURST_BEATS) \in Nat
      BY ConstantTypes DEF Least
    <3>2. QED BY <2>1, <3>1 DEF Burst
  <2>7. burst.ok => issue_count + burst'.avail <= read_count' + Capacity
    BY <2>3, <2>4, ConstantTypes
  <2>8. ~Rogue => issue_count + burst'.avail <= ring_write_aligned_q
    BY <1>2, <2>4 DEF ReaderInv, WindowLag
  <2>9. BurstCore'
    BY <1>0, <2>1, <2>2, <2>3, <2>5, <2>7 DEF BurstCore, Capacity
  <2>10. QED BY <1>0, <1>2, <2>1, <2>4, <2>6, <2>8, <2>9
<1>3. CASE stage = "window"
  <2>1. /\ burst.wrap \in 1..(Ring - issue_offset)
        /\ burst.bank = issue_bank_select /\ burst.offset = issue_offset
        /\ burst.ok => issue_count + burst.avail <= read_count + Capacity
    BY <1>3 DEF BurstSound
  <2>2. /\ BurstBeats(burst) \in Nat /\ BurstBeats(burst) <= burst.avail
        /\ BurstBeats(burst) <= burst.wrap
    BY <2>1, ConstantTypes DEF BurstBeats
  <2>3. CASE burst.ok /\ BurstBeats(burst) # 0
    <3>1. stage' = "metrics" /\ burst' = [burst EXCEPT !.beats = BurstBeats(burst)]
      BY <1>3, <2>3 DEF BuildBurst
    <3>2. /\ burst'.ok = burst.ok /\ burst'.bank = burst.bank /\ burst'.offset = burst.offset
          /\ burst'.avail = burst.avail /\ burst'.wrap = burst.wrap
          /\ burst'.beats = BurstBeats(burst)
      BY <3>1 DEF Burst
    <3>3. burst' \in Burst
      BY <2>2, <3>1 DEF Burst
    <3>4. burst.ok => issue_count + burst.avail <= read_count' + Capacity
      BY <2>1, ConstantTypes
    <3>5. burst'.beats \in 1..burst'.avail /\ burst'.beats <= burst'.wrap
      BY <2>2, <2>3, <3>2
    <3>6. BurstCore'
      BY <1>0, <2>1, <2>3, <3>1, <3>2, <3>4, <3>5 DEF BurstCore, Capacity
    <3>7. ~Rogue => issue_count + burst'.avail <= ring_write_aligned_q
      BY <1>3, <3>2 DEF ReaderInv, WindowLag
    <3>8. QED BY <1>0, <1>3, <3>1, <3>2, <3>3, <3>6, <3>7
  <2>4. CASE ~(burst.ok /\ BurstBeats(burst) # 0)
    <3>1. stage' = "none" /\ burst' = NoBurst
      BY <1>3, <2>4 DEF BuildBurst
    <3>2. burst' \in Burst /\ burst'.avail = 0
      BY <3>1, ConstantTypes DEF NoBurst, Burst, Offsets
    <3>3. BurstCore'
      BY <3>1 DEF BurstCore
    <3>4. QED BY <1>0, <3>1, <3>2, <3>3
  <2>5. QED BY <2>3, <2>4
<1>4. CASE stage = "metrics"
  <2>1. stage' = IF issue_req THEN "ar" ELSE stage
    BY <1>4 DEF BuildBurst
  <2>2. burst' = burst
    BY <1>4 DEF BuildBurst
  <2>3. /\ burst.bank = issue_bank_select /\ burst.offset = issue_offset
        /\ burst.ok => issue_count + burst.avail <= read_count + Capacity
        /\ burst.wrap \in 1..(Ring - issue_offset)
        /\ burst.ok /\ burst.beats \in 1..burst.avail /\ burst.beats <= burst.wrap
    BY <1>4 DEF BurstSound
  <2>4. burst.ok => issue_count + burst.avail <= read_count' + Capacity
    BY <2>3, ConstantTypes
  <2>5. BurstCore'
    BY <1>0, <2>2, <2>3, <2>4 DEF BurstCore, Capacity
  <2>6. ~Rogue => issue_count + burst'.avail <= ring_write_aligned_q
    BY <1>4, <2>2 DEF ReaderInv, WindowLag
  <2>7. QED BY <1>0, <1>4, <2>1, <2>2, <2>5, <2>6
<1>5. QED BY <1>1, <1>2, <1>3, <1>4 DEF ReaderInv, TypeOK
\* The issue side of a clock.
LEMMA IssueRun ==
    ASSUME ReaderInv, NEW ar_fire \in BOOLEAN, NEW beat \in BOOLEAN, NEW bad \in BOOLEAN,
           RunClock(ar_fire, beat, bad)
    PROVE  /\ burst' \in Burst /\ stage' \in {"none", "raw", "window", "metrics", "ar"}
           /\ issue_count' \in Nat /\ issue_offset' \in Offsets /\ issue_bank_select' \in {0, 1}
           /\ cmds' \in Seq(Nat \ {0}) /\ Len(cmds') <= CMD_DEPTH
           /\ NextPlace' /\ BurstSound'
           /\ ar_fire => /\ stage = "ar" /\ stage' = "none" /\ burst.beats \in Nat \ {0}
                         /\ issue_count' = issue_count + burst.beats
           /\ ~ar_fire => issue_count' = issue_count
<1>4. read_count' \in Nat /\ read_count <= read_count'
  <2>1. read_count' = IF beat THEN read_count + 1 ELSE read_count
    BY ResponseClock, Zenon
  <2>2. read_count \in Nat
    BY BurstFields, Zenon
  <2>3. QED BY <2>1, <2>2
<1> USE BurstFields
<1>1. /\ state = "run" /\ (ar_fire => stage = "ar")
      /\ IF ar_fire THEN AdvanceIssue ELSE IF stage = "ar" THEN UNCHANGED issue ELSE BuildBurst
  BY DEF RunClock
<1>2. /\ cmds' = IF ar_fire THEN Append(Rest(beat), burst.beats) ELSE Rest(beat)
      /\ Rest(beat) \in Seq(Nat \ {0}) /\ Len(Rest(beat)) <= Len(cmds)
      /\ read_count' = IF beat THEN read_count + 1 ELSE read_count
  BY ResponseClock
<1>3. Len(Rest(beat)) \in Nat /\ Len(cmds) \in Nat /\ Len(cmds) <= CMD_DEPTH
  BY <1>2 DEF ReaderInv, TypeOK
<1>5. stage = "ar" => /\ Len(cmds) < CMD_DEPTH /\ burst.beats \in Nat \ {0}
  BY <1>1 DEF BurstSound
<1>6. CASE ar_fire
  <2>1. stage = "ar" /\ AdvanceIssue
    BY <1>1, <1>6
  <2>2. /\ NextPlace' /\ issue_count' \in Nat
        /\ issue_offset' \in Offsets /\ issue_bank_select' \in {0, 1}
    BY <2>1, PlaceAdvances
  <2>3. stage' = "none" /\ burst' = NoBurst /\ issue_count' = issue_count + burst.beats
    BY <2>1 DEF AdvanceIssue
  <2>4. burst' \in Burst
    BY <2>3, ConstantTypes DEF NoBurst, Burst, Offsets
  <2>5. /\ cmds' \in Seq(Nat \ {0}) /\ Len(cmds') = Len(Rest(beat)) + 1
    BY <1>2, <1>5, <1>6, <2>1
  <2>6. Len(cmds') <= CMD_DEPTH
    BY <1>2, <1>3, <1>5, <2>1, <2>5, ConstantTypes
  <2>7. BurstSound'
    BY <2>3 DEF BurstSound
  <2>8. QED BY <1>5, <1>6, <2>1, <2>2, <2>3, <2>4, <2>5, <2>6, <2>7
<1>7. CASE ~ar_fire /\ stage = "ar"
  <2>1. UNCHANGED <<issue_count, issue_offset, issue_bank_select, stage, burst>>
    BY <1>1, <1>7 DEF issue
  <2>2. cmds' = Rest(beat) /\ cmds' \in Seq(Nat \ {0}) /\ Len(cmds') < CMD_DEPTH
    BY <1>2, <1>3, <1>5, <1>7, ConstantTypes
  <2>3. /\ burst.bank = issue_bank_select /\ burst.offset = issue_offset
        /\ burst.ok => issue_count + burst.avail <= read_count + Capacity
        /\ burst.wrap \in 1..(Ring - issue_offset)
        /\ burst.ok /\ burst.beats \in 1..burst.avail /\ burst.beats <= burst.wrap
    BY <1>7 DEF BurstSound
  <2>4. burst.ok => issue_count + burst.avail <= read_count' + Capacity
    BY <1>4, <2>3, ConstantTypes
  <2>5. BurstSound'
    BY <1>7, <2>1, <2>2, <2>3, <2>4 DEF BurstSound, Capacity
  <2>6. NextPlace'
    BY <2>1 DEF NextPlace, Address, Capacity
  <2>7. Len(cmds') <= CMD_DEPTH
    <3>1. Len(cmds') = Len(Rest(beat)) /\ Len(cmds') < CMD_DEPTH
      BY <2>2
    <3>2. QED BY <1>3, <3>1, ConstantTypes
  <2>8. QED BY <1>7, <2>1, <2>2, <2>5, <2>6, <2>7 DEF Offsets
<1>8. CASE ~ar_fire /\ stage # "ar"
  <2>1. BuildBurst
    BY <1>1, <1>8
  <2>2. UNCHANGED <<issue_count, issue_offset, issue_bank_select>>
    BY <2>1 DEF BuildBurst
  <2>3. /\ BurstCore' /\ burst' \in Burst
        /\ stage' \in {"none", "raw", "window", "metrics", "ar"}
        /\ NextPlace'
        /\ stage' = "ar" => issue_req
    BY <1>1, <1>4, <1>8, <2>1, PipelineClock
  <2>4. cmds' = Rest(beat)
    BY <1>2, <1>8
  <2>5. stage' = "ar" => Len(cmds') < CMD_DEPTH
    BY <1>2, <1>3, <2>3, <2>4, ConstantTypes DEF issue_req
  <2>6. BurstSound'
    BY <2>3, <2>5 DEF BurstSound, BurstCore
  <2>7. Len(cmds') <= CMD_DEPTH
    BY <1>2, <1>3, <2>4, ConstantTypes
  <2>8. QED BY <1>2, <1>8, <2>2, <2>3, <2>4, <2>6, <2>7 DEF Offsets
<1>9. QED BY <1>6, <1>7, <1>8

\* The bursts to answer after a clock.
LEMMA AnswersRun ==
    ASSUME ReaderInv, NEW ar_fire \in BOOLEAN, NEW beat \in BOOLEAN, NEW bad \in BOOLEAN,
           RunClock(ar_fire, beat, bad)
    PROVE  /\ slave' \in Seq(Answer) /\ AnswersInPlace'
           /\ BurstsTile' /\ AnswersExpected'
<1> DEFINE t == Served(beat)
           c == Rest(beat)
           new == [pos |-> issue_count, bank |-> burst.bank,
                   offset |-> burst.offset, left |-> burst.beats]
<1>1. /\ t \in Seq(Answer) /\ \A i \in DOMAIN t : InPlace(t[i])
      /\ Tile(t, read_count', issue_count)
      /\ c \in Seq(Nat \ {0}) /\ Len(t) = Len(c)
      /\ \A i \in DOMAIN t : t[i].left =
             (IF i = 1 /\ rsp_active' THEN rsp_beats_left' ELSE c[i])
      /\ rsp_active' => c # <<>>
      /\ cmds' = IF ar_fire THEN Append(c, burst.beats) ELSE c
  BY ResponseClock
<1>2. slave' = IF ar_fire THEN Append(t, new) ELSE t
  BY DEF RunClock, SlaveClock
<1>3. read_count' \in Nat /\ issue_count \in Nat
  <2>1. read_count' = IF beat THEN read_count + 1 ELSE read_count
    BY ResponseClock
  <2>2. QED BY <2>1, BurstFields
<1> HIDE DEF t, c
<1>4. CASE ~ar_fire
  <2>1. slave' = t /\ cmds' = c /\ issue_count' = issue_count
    BY <1>1, <1>2, <1>4, IssueRun
  <2>2. slave' \in Seq(Answer)
    BY <1>1, <2>1
  <2>3. BurstsTile'
    BY <1>1, <2>1 DEF BurstsTile, Tile
  <2>4. AnswersExpected'
    BY <1>1, <2>1 DEF AnswersExpected, Expected
  <2>5. AnswersInPlace'
    BY <1>1, <2>1 DEF AnswersInPlace, InPlace, Address, Capacity
  <2>6. QED BY <2>2, <2>3, <2>4, <2>5
<1>5. CASE ar_fire
  <2>1. /\ stage = "ar" /\ burst.beats \in Nat \ {0} /\ issue_count' = issue_count + burst.beats
        /\ slave' = Append(t, new) /\ cmds' = Append(c, burst.beats)
    BY <1>1, <1>2, <1>5, IssueRun
  <2>2. /\ burst.bank = issue_bank_select /\ burst.offset = issue_offset
        /\ burst.wrap \in 1..(Ring - issue_offset) /\ burst.beats <= burst.wrap
        /\ <<issue_bank_select, issue_offset>> = Address(issue_count)
    BY <2>1, BurstFields DEF BurstSound, NextPlace
  <2>3. new \in Answer
    BY <2>1, <2>2, BurstFields, ConstantTypes DEF Answer
  <2>4. new.pos = issue_count /\ new.left = burst.beats /\ new.bank = burst.bank
        /\ new.offset = burst.offset
    OBVIOUS
  <2>5. InPlace(new)
    <3>1. <<new.bank, new.offset>> = Address(new.pos)
      BY <2>2, <2>4
    <3>2. new.offset + new.left <= Ring
      <4>1. /\ burst.offset = issue_offset /\ burst.wrap \in 1..(Ring - issue_offset)
            /\ burst.beats <= burst.wrap
        BY <2>2, Zenon
      <4>2. burst.beats \in Nat \ {0}
        BY <2>1, Zenon
      <4>3. issue_offset \in Nat /\ Ring \in Nat
        BY ConstantTypes DEF ReaderInv, TypeOK, Offsets
      <4>4. burst.offset + burst.beats <= Ring
        BY <4>1, <4>2, <4>3, SMTT(60)
      <4>5. QED BY <2>4, <4>4, Zenon
    <3>3. QED BY <3>1, <3>2 DEF InPlace
  <2> HIDE DEF new
  <2>6. slave' \in Seq(Answer)
    BY <1>1, <2>1, <2>3
  <2>7. Tile(Append(t, new), read_count', new.pos + new.left)
    BY <1>1, <1>3, <2>3, <2>4, AppendTile
  <2>8. BurstsTile'
    BY <2>1, <2>4, <2>7 DEF BurstsTile, Tile
  <2>9. /\ Len(t) \in Nat /\ DOMAIN t = 1..Len(t) /\ DOMAIN slave' = 1..(Len(t) + 1)
        /\ Len(slave') = Len(t) + 1 /\ Len(cmds') = Len(c) + 1
        /\ \A i \in 1..Len(t) : slave'[i] = t[i] /\ cmds'[i] = c[i]
        /\ slave'[Len(t) + 1] = new /\ cmds'[Len(t) + 1] = burst.beats
    BY <1>1, <2>1, <2>3
  <2>10. \A i \in 1..(Len(t) + 1) : i \in 1..Len(t) \/ i = Len(t) + 1
    BY <2>9
  <2>11. AnswersInPlace'
    <3>1. \A i \in DOMAIN slave' : InPlace(slave'[i])
      <4>1. TAKE i \in DOMAIN slave'
      <4>2. CASE i = Len(t) + 1
        BY <2>5, <2>9, <4>2
      <4>3. CASE i \in 1..Len(t)
        BY <1>1, <2>9, <4>3
      <4>4. QED BY <2>9, <2>10, <4>2, <4>3
    <3>2. QED BY <3>1 DEF AnswersInPlace, InPlace, Address, Capacity
  <2>12. AnswersExpected'
    <3>1. \A i \in DOMAIN slave' : slave'[i].left =
              (IF i = 1 /\ rsp_active' THEN rsp_beats_left' ELSE cmds'[i])
      <4>1. TAKE i \in DOMAIN slave'
      <4>2. CASE i = Len(t) + 1
        <5>1. i = 1 => c = <<>>
          BY <1>1, <2>9, <4>2
        <5>2. ~(i = 1 /\ rsp_active')
          BY <1>1, <5>1
        <5>3. QED BY <2>4, <2>9, <4>2, <5>2
      <4>3. CASE i \in 1..Len(t)
        BY <1>1, <2>9, <4>3
      <4>4. QED BY <2>9, <2>10, <4>2, <4>3
    <3>2. Len(slave') = Len(cmds') /\ cmds' # <<>>
      BY <1>1, <2>1, <2>9
    <3>3. QED BY <3>1, <3>2 DEF AnswersExpected, Expected
  <2>13. QED BY <2>6, <2>8, <2>11, <2>12
<1>6. QED BY <1>4, <1>5
\* What has been fetched and what has been delivered.
LEMMA ReadBehindIssue ==
    ASSUME ReaderInv, state = "run"
    PROVE  /\ read_count <= issue_count
           /\ slave # <<>> => read_count < issue_count
           /\ cmds = <<>> => read_count = issue_count
<1>1. /\ Tile(slave, read_count, issue_count) /\ slave \in Seq(Answer)
      /\ read_count \in Nat /\ issue_count \in Nat /\ (slave # <<>> <=> cmds # <<>>)
  BY CountsAgree, BurstFields DEF ReaderInv, BurstsTile, TypeOK
<1>2. CASE slave = <<>>
  BY <1>1, <1>2 DEF Tile
<1>3. CASE slave # <<>>
  <2>1. 1 \in DOMAIN slave /\ slave[1] \in Answer
    BY <1>1, <1>3
  <2>2. slave[1].pos = read_count /\ slave[1].pos + slave[1].left <= issue_count
    BY <1>1, <1>3, <2>1 DEF Tile
  <2>3. slave[1].left \in Nat \ {0}
    BY <2>1, AnswerFields
  <2>4. QED BY <1>1, <1>3, <2>2, <2>3
<1>4. QED BY <1>2, <1>3

LEMMA AppendNotEmpty ==
    ASSUME NEW S, NEW s \in Seq(S), NEW e \in S
    PROVE  Append(s, e) # <<>>
<1>1. Len(Append(s, e)) = Len(s) + 1 /\ Len(s) \in Nat
  OBVIOUS
<1>2. Len(<<>>) = 0
  OBVIOUS
<1>3. QED BY <1>1, <1>2

\* What the reader decides with in the next clock.
LEMMA PointersRun ==
    ASSUME ReaderInv, NEW ar_fire \in BOOLEAN, NEW beat \in BOOLEAN, NEW bad \in BOOLEAN,
           RunClock(ar_fire, beat, bad)
    PROVE  /\ ConsumedSound' /\ WindowLag' /\ RunsValid' /\ FetchWithinRing'
<1> USE BurstFields
<1>1. /\ state = "run" /\ SamplePointers /\ UNCHANGED <<ring_write, eof>>
      /\ IF ar_fire THEN AdvanceIssue ELSE IF stage = "ar" THEN UNCHANGED issue ELSE BuildBurst
  BY DEF RunClock
<1>2. /\ ring_write_aligned_q' = ring_write /\ fatal_ring_error_q' = fatal_ring_error
      /\ input_consumed_q' = (eof /\ issue_count >= ring_write_aligned_q)
      /\ input_consumed_write_count_q' = ring_write_aligned_q
  BY <1>1 DEF SamplePointers
<1>3. /\ read_count' \in Nat /\ read_count <= read_count'
      /\ cmds' = IF ar_fire THEN Append(Rest(beat), burst.beats) ELSE Rest(beat)
      /\ Rest(beat) \in Seq(Nat \ {0})
  <2>1. read_count' = IF beat THEN read_count + 1 ELSE read_count
    BY ResponseClock
  <2>2. read_count' \in Nat /\ read_count <= read_count'
    BY <2>1
  <2>3. QED BY <2>2, ResponseClock
<1>4. /\ ar_fire => /\ stage = "ar" /\ stage' = "none" /\ burst.beats \in Nat \ {0}
                    /\ issue_count' = issue_count + burst.beats
      /\ ~ar_fire => issue_count' = issue_count
  BY IssueRun
<1>5. stage = "ar" => /\ burst.ok /\ burst.beats \in 1..burst.avail
                      /\ issue_count + burst.avail <= read_count + Capacity
  BY DEF BurstSound
<1>6. RunsValid'
  BY <1>1 DEF ReaderInv, RunsValid, RingSizeValid
<1>7. FetchWithinRing'
  <2>1. issue_count - read_count <= Capacity
    BY <1>1 DEF ReaderInv, FetchWithinRing
  <2>2. CASE ar_fire
    <3>1. issue_count + burst.beats <= read_count + Capacity
      BY <1>4, <1>5, <2>2, ConstantTypes
    <3>2. issue_count' - read_count' <= Capacity
      BY <1>3, <1>4, <2>2, <3>1, ConstantTypes
    <3>3. QED BY <3>2 DEF FetchWithinRing, Capacity
  <2>3. CASE ~ar_fire
    <3>1. issue_count' - read_count' <= Capacity
      BY <1>3, <1>4, <2>1, <2>3, ConstantTypes
    <3>2. QED BY <3>1 DEF FetchWithinRing, Capacity
  <2>4. QED BY <2>2, <2>3
<1>8. ConsumedSound'
  <2>1. SUFFICES ASSUME input_consumed_q', cmds' = <<>>
                 PROVE  eof' /\ (fatal_ring_error_q' \/ issue_count' = input_consumed_write_count_q')
    BY DEF ConsumedSound
  <2>2. ~ar_fire
    <3>1. cmds' = IF ar_fire THEN Append(Rest(beat), burst.beats) ELSE Rest(beat)
      BY <1>3, Zenon
    <3>2. ar_fire => Append(Rest(beat), burst.beats) # <<>>
      BY <1>3, <1>4, AppendNotEmpty
    <3>3. QED BY <2>1, <3>1, <3>2, Zenon
  <2>3. eof /\ issue_count >= ring_write_aligned_q
    BY <1>2, <2>1
  <2>4. issue_count = ring_write_aligned_q \/ fatal_ring_error
    BY <2>3 DEF fatal_ring_error, issue_write_behind
  <2>5. QED BY <1>1, <1>2, <1>4, <2>2, <2>3, <2>4
<1>9. WindowLag'
  <2>1. SUFFICES ASSUME ~Rogue
                 PROVE  /\ issue_count' <= ring_write_aligned_q' /\ ring_write_aligned_q' <= ring_write'
                        /\ stage' # "none" => issue_count' + burst'.avail <= ring_write_aligned_q'
                        /\ ring_write' <= read_count' + Capacity'
                        /\ ~fatal_ring_error_q'
    BY DEF WindowLag
  <2>2. /\ issue_count <= ring_write_aligned_q /\ ring_write_aligned_q <= ring_write
        /\ stage # "none" => issue_count + burst.avail <= ring_write_aligned_q
        /\ ring_write <= read_count + Capacity
    BY <1>1, <2>1 DEF ReaderInv, WindowLag
  <2>3. ring_write_aligned_q' = ring_write /\ ring_write' = ring_write
    BY <1>1, <1>2
  <2>4. issue_count' <= ring_write_aligned_q'
    <3>1. CASE ar_fire
      BY <1>4, <1>5, <2>2, <2>3, <3>1
    <3>2. CASE ~ar_fire
      BY <1>4, <2>2, <2>3, <3>2
    <3>3. QED BY <3>1, <3>2
  <2>5. stage' # "none" => issue_count' + burst'.avail <= ring_write_aligned_q'
    <3>1. CASE ar_fire
      BY <1>4, <3>1
    <3>2. CASE ~ar_fire /\ stage = "ar"
      <4>1. issue_count' = issue_count /\ burst' = burst
        BY <1>1, <3>2 DEF issue
      <4>2. QED BY <2>2, <2>3, <3>2, <4>1
    <3>3. CASE ~ar_fire /\ stage # "ar"
      <4>1. BuildBurst
        BY <1>1, <3>3
      <4>2. /\ burst' \in Burst
            /\ stage' # "none" => issue_count + burst'.avail <= ring_write_aligned_q
        BY <1>1, <1>3, <2>1, <3>3, <4>1, PipelineClock
      <4>3. burst'.avail \in Nat
        BY <4>2 DEF Burst
      <4>4. QED BY <1>4, <2>2, <2>3, <3>3, <4>2, <4>3
    <3>4. QED BY <3>1, <3>2, <3>3
  <2>6. ring_write' <= read_count' + Capacity'
    <3>1. ring_write <= read_count' + Capacity
      BY <1>3, <2>2, ConstantTypes
    <3>2. QED BY <2>3, <3>1 DEF Capacity
  <2>7. ~fatal_ring_error_q'
    <3>1. read_count <= issue_count
      BY <1>1, ReadBehindIssue
    <3>2. ~ring_write_behind /\ ~issue_write_behind
      BY <2>2, <3>1 DEF ring_write_behind, issue_write_behind
    <3>3. ~ring_overrun
      BY <2>2, ConstantTypes DEF ring_overrun
    <3>4. QED BY <1>2, <3>2, <3>3 DEF fatal_ring_error
  <2>8. QED BY <2>3, <2>4, <2>5, <2>6, <2>7
<1>10. QED BY <1>6, <1>7, <1>8, <1>9

\* What a clock delivers, and the error flag.
LEMMA DeliveryRun ==
    ASSUME ReaderInv, NEW ar_fire \in BOOLEAN, NEW beat \in BOOLEAN, NEW bad \in BOOLEAN,
           RunClock(ar_fire, beat, bad)
    PROVE  /\ FromItsPlace' /\ NoFalseError' /\ error' \in BOOLEAN
           /\ from' \in {<<>>} \cup ({0, 1} \X Nat)
<1>1. state = "run" /\ TypeOK /\ AnswersExpected /\ (beat => slave # <<>>)
  BY DEF RunClock, SlaveClock, ReaderInv
<1>2. CASE ~beat
  <2>1. UNCHANGED <<read_count, from>> /\ Errors(FALSE)
    BY <1>2 DEF RunClock
  <2>2. FromItsPlace'
    BY <2>1 DEF ReaderInv, FromItsPlace, Address, Capacity
  <2>3. error' = (error \/ fatal_ring_error_q \/ FALSE)
    BY <2>1 DEF Errors
  <2>4. error' \in BOOLEAN
    BY <2>3
  <2>5. ~Rogue => ~fatal_ring_error_q
    BY <1>1 DEF ReaderInv, WindowLag
  <2>6. NoFalseError'
    BY <2>3, <2>5 DEF ReaderInv, NoFalseError, RingSizeValid
  <2>7. QED BY <1>1, <2>1, <2>2, <2>4, <2>6 DEF TypeOK
<1>3. CASE beat
  <2>1. /\ slave # <<>> /\ cmds # <<>>
        /\ 1 \in DOMAIN slave /\ Head(slave) = slave[1] /\ slave[1] \in Answer
        /\ rsp_last_beat <=> slave[1].left = 1
    BY <1>1, <1>3, CountsAgree
  <2>2. /\ read_count' = read_count + 1
        /\ from' = <<Head(slave).bank, Head(slave).offset>>
    BY <1>3, <2>1 DEF RunClock, TakeBeat
  <2>3. Errors(bad \/ (Head(slave).left = 1) # rsp_last_beat) /\ (bad => Faults)
    BY <1>3, <2>1 DEF RunClock
  <2>4. error' = (error \/ fatal_ring_error_q \/ bad)
    <3>1. ((Head(slave).left = 1) # rsp_last_beat) = FALSE
      <4>1. rsp_last_beat \in BOOLEAN
        BY DEF rsp_last_beat
      <4>2. QED BY <2>1, <4>1
    <3>2. QED BY <2>3, <3>1 DEF Errors
  <2>5. error' \in BOOLEAN
    BY <2>4
  <2>6. ~Rogue => ~fatal_ring_error_q
    BY <1>1 DEF ReaderInv, WindowLag
  <2>7. NoFalseError'
    BY <2>3, <2>4, <2>6 DEF ReaderInv, NoFalseError, RingSizeValid
  <2>8. /\ slave[1].pos = read_count /\ <<slave[1].bank, slave[1].offset>> = Address(slave[1].pos)
    BY <1>1, <2>1 DEF ReaderInv, BurstsTile, Tile, AnswersInPlace, InPlace
  <2>9. read_count' - 1 = read_count
    BY <2>2, BurstFields
  <2>10. from' = Address(read_count' - 1)
    BY <2>1, <2>2, <2>8, <2>9
  <2>11. FromItsPlace'
    BY <2>10 DEF FromItsPlace, Address, Capacity
  <2>12. from' \in {0, 1} \X Nat
    BY <2>1, <2>2, AnswerFields
  <2>13. QED BY <2>5, <2>7, <2>11, <2>12
<1>4. QED BY <1>2, <1>3

LEMMA RunStep ==
    ASSUME ReaderInv, NEW ar_fire \in BOOLEAN, NEW beat \in BOOLEAN, NEW bad \in BOOLEAN,
           RunClock(ar_fire, beat, bad)
    PROVE  ReaderInv'
<1>1. TypeOK'
  <2>1. /\ ring_write' = ring_write /\ eof' = eof /\ state' \in {"run", "done"}
        /\ ring_write_aligned_q' = ring_write
        /\ fatal_ring_error_q' = fatal_ring_error
        /\ input_consumed_q' = (eof /\ issue_count >= ring_write_aligned_q)
        /\ input_consumed_write_count_q' = ring_write_aligned_q
    BY DEF RunClock, SamplePointers
  <2>2. /\ fatal_ring_error_q' \in BOOLEAN /\ input_consumed_q' \in BOOLEAN
    BY <2>1 DEF fatal_ring_error
  <2>3. read_count' \in Nat
    <3>1. read_count' = IF beat THEN read_count + 1 ELSE read_count
      BY ResponseClock
    <3>2. QED BY <3>1, BurstFields
  <2>4. rsp_active' \in BOOLEAN /\ rsp_beats_left' \in Nat
    BY ResponseClock
  <2>5. ring_write \in Nat /\ eof \in BOOLEAN /\ ring_write_aligned_q \in Nat
    BY DEF ReaderInv, TypeOK, ConsumerTypeOK
  <2>6. /\ burst' \in Burst /\ stage' \in {"none", "raw", "window", "metrics", "ar"}
        /\ issue_count' \in Nat /\ issue_offset' \in Offsets /\ issue_bank_select' \in {0, 1}
        /\ cmds' \in Seq(Nat \ {0}) /\ Len(cmds') <= CMD_DEPTH
    BY IssueRun
  <2>7. slave' \in Seq(Answer)
    BY AnswersRun
  <2>8. error' \in BOOLEAN /\ from' \in {<<>>} \cup ({0, 1} \X Nat)
    BY DeliveryRun
  <2>9. ConsumerTypeOK'
    BY <2>1, <2>3, <2>5, <2>8 DEF ConsumerTypeOK
  <2>10. QED BY <2>1, <2>2, <2>4, <2>5, <2>6, <2>7, <2>8, <2>9 DEF TypeOK, Burst, Offsets, Answer
<1>2. QED BY <1>1, AnswersRun, IssueRun, PointersRun, DeliveryRun DEF ReaderInv

-----------------------------------------------------------------------------
(* Outside a run.                                                          *)

LEMMA ZeroPlace == Address(0) = <<0, 0>>
<1>1. 0 % Capacity = 0
  BY ConstantTypes, ModStep
<1>2. QED BY <1>1, ConstantTypes DEF Address

\* Whatever happens to the run, what the slave has accepted stays in place.
LEMMA SlaveKeeps ==
    ASSUME ReaderInv, NEW ar_fire \in BOOLEAN, NEW beat \in BOOLEAN,
           ar_fire => stage = "ar", SlaveClock(ar_fire, beat)
    PROVE  slave' \in Seq(Answer) /\ AnswersInPlace'
<1> DEFINE t == Served(beat)
           new == [pos |-> issue_count, bank |-> burst.bank,
                   offset |-> burst.offset, left |-> burst.beats]
<1>1. t \in Seq(Answer) /\ \A i \in DOMAIN t : InPlace(t[i])
  <2>1. slave \in Seq(Answer) /\ AnswersInPlace /\ (beat => slave # <<>>)
    BY DEF ReaderInv, TypeOK, SlaveClock
  <2>2. CASE beat
    <3>1. beat = TRUE
      BY <2>2
    <3>2. QED BY <2>1, <3>1, ServedBursts
  <2>3. CASE ~beat
    <3>1. t = slave
      BY <2>3 DEF Served
    <3>2. QED BY <2>1, <3>1 DEF AnswersInPlace
  <2>4. QED BY <2>2, <2>3
<1>2. slave' = IF ar_fire THEN Append(t, new) ELSE t
  BY DEF SlaveClock
<1> HIDE DEF t
<1>3. CASE ~ar_fire
  BY <1>1, <1>2, <1>3 DEF AnswersInPlace, InPlace, Address, Capacity
<1>4. CASE ar_fire
  <2>1. /\ burst.bank = issue_bank_select /\ burst.offset = issue_offset
        /\ burst.wrap \in 1..(Ring - issue_offset) /\ burst.beats <= burst.wrap
        /\ burst.beats \in Nat \ {0}
        /\ <<issue_bank_select, issue_offset>> = Address(issue_count)
    BY <1>4, BurstFields DEF BurstSound, NextPlace
  <2>2. new \in Answer
    BY <2>1, BurstFields, ConstantTypes DEF Answer
  <2>3. new.pos = issue_count /\ new.left = burst.beats /\ new.bank = burst.bank
        /\ new.offset = burst.offset
    OBVIOUS
  <2>4. InPlace(new)
    <3>1. <<new.bank, new.offset>> = Address(new.pos)
      BY <2>1, <2>3
    <3>2. new.offset + new.left <= Ring
      BY <2>1, <2>3, BurstFields, ConstantTypes
    <3>3. QED BY <3>1, <3>2 DEF InPlace
  <2>5. slave' = Append(t, new)
    BY <1>2, <1>4
  <2> HIDE DEF new
  <2>6. /\ slave' \in Seq(Answer)
        /\ \A i \in DOMAIN slave' : (i \in DOMAIN t /\ slave'[i] = t[i]) \/ slave'[i] = new
    BY <1>1, <2>2, <2>5
  <2>7. \A i \in DOMAIN slave' : InPlace(slave'[i])
    <3>1. TAKE i \in DOMAIN slave'
    <3>2. CASE slave'[i] = new
      BY <2>4, <3>2, Zenon
    <3>3. CASE i \in DOMAIN t /\ slave'[i] = t[i]
      BY <1>1, <3>3, Zenon
    <3>4. QED BY <2>6, <3>2, <3>3
  <2>8. QED BY <2>6, <2>7 DEF AnswersInPlace, InPlace, Address, Capacity
<1>5. QED BY <1>3, <1>4

\* The registers after a start, a stop or the reset.
LEMMA ClearedKeeps ==
    ASSUME ClearedRegisters, read_count' = 0
    PROVE  /\ issue_count' \in Nat /\ issue_offset' \in Offsets /\ issue_bank_select' \in {0, 1}
           /\ stage' \in {"none", "raw", "window", "metrics", "ar"} /\ burst' \in Burst
           /\ cmds' \in Seq(Nat \ {0}) /\ Len(cmds') <= CMD_DEPTH
           /\ rsp_active' \in BOOLEAN /\ rsp_beats_left' \in Nat
           /\ input_consumed_q' \in BOOLEAN /\ input_consumed_write_count_q' \in Nat
           /\ from' \in {<<>>} \cup ({0, 1} \X Nat)
           /\ NextPlace' /\ BurstSound' /\ ConsumedSound' /\ FromItsPlace' /\ FetchWithinRing'
<1> USE ConstantTypes
<1>1. /\ issue_count' = 0 /\ issue_offset' = 0 /\ issue_bank_select' = 0
      /\ stage' = "none" /\ burst' = NoBurst
      /\ cmds' = <<>> /\ rsp_active' = FALSE /\ rsp_beats_left' = 0
      /\ input_consumed_q' = FALSE /\ input_consumed_write_count_q' = 0
      /\ from' = <<>>
  BY DEF ClearedRegisters
<1>2. NextPlace'
  BY <1>1, ZeroPlace DEF NextPlace, Address, Capacity
<1>3. BurstSound' /\ ConsumedSound' /\ FromItsPlace'
  BY <1>1 DEF BurstSound, ConsumedSound, FromItsPlace
<1>4. FetchWithinRing'
  BY <1>1 DEF FetchWithinRing, Capacity
<1>5. 0 \in Offsets /\ burst' \in Burst
  BY <1>1 DEF Offsets, Burst, NoBurst
<1>6. cmds' \in Seq(Nat \ {0}) /\ Len(cmds') <= CMD_DEPTH
  BY <1>1
<1>7. QED BY <1>1, <1>2, <1>3, <1>4, <1>5, <1>6

LEMMA InitReader == Init => ReaderInv
<1>1. SUFFICES ASSUME Init PROVE ReaderInv
  OBVIOUS
<1>2. /\ ring_write = 0 /\ eof = FALSE /\ state = "idle" /\ read_count = 0 /\ error = FALSE
      /\ issue_count = 0 /\ issue_offset = 0 /\ issue_bank_select = 0
      /\ stage = "none" /\ burst = NoBurst
      /\ cmds = <<>> /\ rsp_active = FALSE /\ rsp_beats_left = 0
      /\ input_consumed_q = FALSE /\ input_consumed_write_count_q = 0
      /\ ring_write_aligned_q = 0 /\ fatal_ring_error_q = TRUE
      /\ slave = <<>> /\ from = <<>>
  BY <1>1 DEF Init, ConsumerInit, IdleRegisters
<1>3. TypeOK
  <2>1. 0 \in Offsets /\ burst \in Burst
    BY <1>2, ConstantTypes DEF Offsets, Burst, NoBurst
  <2>2. cmds \in Seq(Nat \ {0}) /\ Len(cmds) <= CMD_DEPTH /\ slave \in Seq(Answer)
    BY <1>2, ConstantTypes
  <2>3. QED BY <1>2, <2>1, <2>2 DEF TypeOK, ConsumerTypeOK
<1>4. NextPlace
  BY <1>2, ZeroPlace DEF NextPlace
<1>5. BurstsTile /\ AnswersExpected /\ AnswersInPlace /\ BurstSound /\ ConsumedSound
  BY <1>2 DEF BurstsTile, AnswersExpected, AnswersInPlace, BurstSound, ConsumedSound
<1>6. WindowLag /\ RunsValid /\ FromItsPlace /\ NoFalseError /\ FetchWithinRing
  BY <1>2 DEF WindowLag, RunsValid, FromItsPlace, NoFalseError, FetchWithinRing
<1>7. QED BY <1>3, <1>4, <1>5, <1>6 DEF ReaderInv

LEMMA StartStep ==
    ASSUME ReaderInv, Start
    PROVE  ReaderInv'
<1> USE ConstantTypes
<1>1. /\ state' = (IF RingSizeValid THEN "run" ELSE "done")
      /\ read_count' = 0 /\ error' = ~RingSizeValid
      /\ ring_write' = ring_write /\ eof' = eof
      /\ slave = <<>> /\ slave' = slave
      /\ (~Rogue => ring_write <= Capacity)
      /\ ring_write_aligned_q' = ring_write /\ fatal_ring_error_q' = ~RingSizeValid
      /\ ClearedRegisters
  BY DEF Start, StartReader
<1>2. /\ issue_count' = 0 /\ stage' = "none" /\ cmds' = <<>> /\ rsp_active' = FALSE
  BY <1>1 DEF ClearedRegisters
<1>3. ring_write \in Nat /\ eof \in BOOLEAN /\ RingSizeValid \in BOOLEAN
  BY DEF ReaderInv, TypeOK, ConsumerTypeOK, RingSizeValid
<1>4. TypeOK'
  <2>1. state' \in {"idle", "run", "done"} /\ error' \in BOOLEAN /\ fatal_ring_error_q' \in BOOLEAN
    BY <1>1, <1>3
  <2>2. ConsumerTypeOK'
    BY <1>1, <1>3, <2>1 DEF ConsumerTypeOK
  <2>3. slave' \in Seq(Answer)
    BY <1>1
  <2>4. QED BY <1>1, <1>3, <2>1, <2>2, <2>3, ClearedKeeps DEF TypeOK, Burst, Offsets, Answer
<1>5. BurstsTile' /\ AnswersExpected' /\ AnswersInPlace'
  BY <1>1, <1>2 DEF BurstsTile, Tile, AnswersExpected, AnswersInPlace
<1>6. WindowLag'
  <2>1. SUFFICES ASSUME ~Rogue, state' = "run"
                 PROVE  /\ issue_count' <= ring_write_aligned_q' /\ ring_write_aligned_q' <= ring_write'
                        /\ ring_write' <= read_count' + Capacity' /\ ~fatal_ring_error_q'
    BY <1>2 DEF WindowLag
  <2>2. ~fatal_ring_error_q'
    BY <1>1, <2>1
  <2>3. ring_write' <= read_count' + Capacity'
    BY <1>1, <1>3, <2>1 DEF Capacity
  <2>4. QED BY <1>1, <1>2, <1>3, <2>2, <2>3
<1>7. RunsValid' /\ NoFalseError'
  BY <1>1 DEF RunsValid, NoFalseError, RingSizeValid
<1>8. QED BY <1>1, <1>4, <1>5, <1>6, <1>7, ClearedKeeps DEF ReaderInv

LEMMA StopStep ==
    ASSUME ReaderInv, NEW ar_fire \in BOOLEAN, NEW beat \in BOOLEAN, Stop(ar_fire, beat)
    PROVE  ReaderInv'
<1>1. /\ state' = "idle" /\ read_count' = 0 /\ error' = FALSE
      /\ ring_write' = ring_write /\ eof' = eof
      /\ ring_write_aligned_q' = 0 /\ fatal_ring_error_q' = TRUE
      /\ (ar_fire => stage = "ar") /\ SlaveClock(ar_fire, beat)
      /\ ClearedRegisters
  BY DEF Stop, StopReader
<1>2. slave' \in Seq(Answer) /\ AnswersInPlace'
  BY <1>1, SlaveKeeps
<1>3. TypeOK'
  <2>1. ConsumerTypeOK'
    BY <1>1 DEF ReaderInv, TypeOK, ConsumerTypeOK
  <2>2. QED BY <1>1, <1>2, <2>1, ClearedKeeps DEF TypeOK, Burst, Offsets, Answer
<1>4. BurstsTile' /\ AnswersExpected' /\ WindowLag' /\ RunsValid' /\ NoFalseError'
  BY <1>1 DEF BurstsTile, AnswersExpected, WindowLag, RunsValid, NoFalseError
<1>5. QED BY <1>1, <1>2, <1>3, <1>4, ClearedKeeps DEF ReaderInv

LEMMA IdleStep ==
    ASSUME ReaderInv, IdleClock
    PROVE  ReaderInv'
<1>1. /\ state # "run" /\ SlaveClock(FALSE, TRUE)
      /\ UNCHANGED <<consumerVars, samples, issue, response, from>>
  BY DEF IdleClock
<1>2. slave' \in Seq(Answer) /\ AnswersInPlace'
  BY <1>1, SlaveKeeps
<1>3. TypeOK'
  BY <1>1, <1>2 DEF ReaderInv, TypeOK, ConsumerTypeOK, consumerVars, samples, issue, response,
                    Burst, Offsets, Answer
<1>4. BurstsTile' /\ AnswersExpected' /\ WindowLag' /\ RunsValid' /\ ConsumedSound' /\ FetchWithinRing'
  BY <1>1 DEF BurstsTile, AnswersExpected, WindowLag, RunsValid, ConsumedSound, FetchWithinRing,
              consumerVars
<1>5. NextPlace' /\ FromItsPlace' /\ NoFalseError'
  BY <1>1 DEF ReaderInv, NextPlace, FromItsPlace, NoFalseError, Address, Capacity, RingSizeValid,
              consumerVars, issue
<1>6. BurstSound'
  BY <1>1 DEF ReaderInv, BurstSound, Capacity, consumerVars, issue, response
<1>7. QED BY <1>2, <1>3, <1>4, <1>5, <1>6 DEF ReaderInv

\* The host moves the registers: nothing else does.
LEMMA HostKeeps ==
    ASSUME ReaderInv, UNCHANGED <<state, read_count, error, samples, issue, response, slave, from>>,
           ring_write' \in Nat, eof' \in BOOLEAN, eof => eof' \/ state = "idle", WindowLag'
    PROVE  ReaderInv'
<1>1. TypeOK'
  BY DEF ReaderInv, TypeOK, ConsumerTypeOK, samples, issue, response, Burst, Offsets, Answer
<1>2. BurstsTile' /\ AnswersExpected' /\ AnswersInPlace'
  BY DEF ReaderInv, BurstsTile, Tile, AnswersExpected, Expected, AnswersInPlace, InPlace,
         Address, Capacity, issue, response
<1>3. NextPlace' /\ FromItsPlace' /\ NoFalseError' /\ RunsValid' /\ FetchWithinRing'
  BY DEF ReaderInv, NextPlace, FromItsPlace, NoFalseError, RunsValid, FetchWithinRing,
         Address, Capacity, RingSizeValid, issue
<1>4. BurstSound'
  BY DEF ReaderInv, BurstSound, Capacity, issue, response
<1>5. ConsumedSound'
  BY DEF ReaderInv, ConsumedSound, samples, issue, response
<1>6. QED BY <1>1, <1>2, <1>3, <1>4, <1>5 DEF ReaderInv

LEMMA HostStep ==
    ASSUME ReaderInv, (\E n \in 0..MaxWrite : Commit(n)) \/ SetEof \/ Clear \/ UNCHANGED vars
    PROVE  ReaderInv'
<1> USE ConstantTypes
<1>1. ring_write \in Nat /\ eof \in BOOLEAN /\ read_count \in Nat /\ ring_write_aligned_q \in Nat
  BY DEF ReaderInv, TypeOK, ConsumerTypeOK
<1>2. ASSUME NEW n \in 0..MaxWrite, Commit(n)
      PROVE  ReaderInv'
  <2>1. /\ ring_write' = n /\ eof' = eof /\ n \in Nat
        /\ UNCHANGED <<state, read_count, error, samples, issue, response, slave, from>>
        /\ (~Rogue => ring_write' >= ring_write /\ ring_write' - read_count <= Capacity)
    BY <1>2 DEF Commit, CommitWindow
  <2>2. WindowLag'
    <3>1. SUFFICES ASSUME ~Rogue, state = "run"
                   PROVE  ring_write_aligned_q <= n /\ n <= read_count + Capacity
      BY <2>1 DEF ReaderInv, WindowLag, Capacity, samples, issue
    <3>2. ring_write_aligned_q <= ring_write
      BY <3>1 DEF ReaderInv, WindowLag
    <3>3. QED BY <1>1, <2>1, <3>1, <3>2
  <2>3. QED BY <1>1, <2>1, <2>2, HostKeeps
<1>3. ASSUME SetEof
      PROVE  ReaderInv'
  <2>1. /\ ring_write' = ring_write /\ eof' = TRUE
        /\ UNCHANGED <<state, read_count, error, samples, issue, response, slave, from>>
    BY <1>3 DEF SetEof, RaiseEof
  <2>2. WindowLag'
    BY <2>1 DEF ReaderInv, WindowLag, Capacity, samples, issue
  <2>3. QED BY <1>1, <2>1, <2>2, HostKeeps
<1>4. ASSUME Clear
      PROVE  ReaderInv'
  <2>1. /\ ring_write' = 0 /\ eof' = FALSE /\ state = "idle"
        /\ UNCHANGED <<state, read_count, error, samples, issue, response, slave, from>>
    BY <1>4 DEF Clear, ClearWindow, ClearRegisters
  <2>2. WindowLag'
    BY <2>1 DEF WindowLag
  <2>3. QED BY <1>1, <2>1, <2>2, HostKeeps
<1>5. ASSUME UNCHANGED vars
      PROVE  ReaderInv'
  <2>1. /\ ring_write' = ring_write /\ eof' = eof
        /\ UNCHANGED <<state, read_count, error, samples, issue, response, slave, from>>
    BY <1>5 DEF vars, consumerVars
  <2>2. WindowLag'
    BY <2>1 DEF ReaderInv, WindowLag, Capacity, samples, issue
  <2>3. QED BY <1>1, <2>1, <2>2, HostKeeps
<1>6. QED BY <1>2, <1>3, <1>4, <1>5
-----------------------------------------------------------------------------
(* The theorems.                                                           *)

\* Every step of the reader, the slave and the host keeps the invariant.
LEMMA ReaderStep == ReaderInv /\ [Next]_vars => ReaderInv'
<1>1. SUFFICES ASSUME ReaderInv, [Next]_vars PROVE ReaderInv'
  OBVIOUS
<1>2. ASSUME NEW ar_fire \in BOOLEAN, NEW beat \in BOOLEAN, NEW bad \in BOOLEAN,
             RunClock(ar_fire, beat, bad)
      PROVE  ReaderInv'
  BY <1>1, <1>2, RunStep
<1>3. CASE IdleClock
  BY <1>1, <1>3, IdleStep
<1>4. CASE Start
  BY <1>1, <1>4, StartStep
<1>5. ASSUME NEW ar_fire \in BOOLEAN, NEW beat \in BOOLEAN, Stop(ar_fire, beat)
      PROVE  ReaderInv'
  BY <1>1, <1>5, StopStep
<1>6. CASE (\E n \in 0..MaxWrite : Commit(n)) \/ SetEof \/ Clear \/ UNCHANGED vars
  BY <1>1, <1>6, HostStep
<1>7. QED BY <1>1, <1>2, <1>3, <1>4, <1>5, <1>6 DEF Next, Clock

\* The whole invariant of the reader (every counter, the command queue, the
\* bursts in flight, the pipeline and the samples of the registers), whatever
\* the host commits.
THEOREM ReaderSafe == Spec => []ReaderInv
<1>1. QED BY InitReader, ReaderStep, PTL DEF Spec

\* The registers of the reader keep their ranges; the command queue never
\* holds more than CMD_DEPTH bursts.
THEOREM TypeCorrect == Spec => []TypeOK
<1>1. ReaderInv => TypeOK
  BY DEF ReaderInv
<1>2. QED BY <1>1, ReaderSafe, PTL

\* Every beat is read from where the loader wrote it: bank and offset, stepped
\* burst by burst, stay those of the loader's division (issue_* registers).
THEOREM AlwaysFromItsPlace == Spec => []FromItsPlace
<1>1. ReaderInv => FromItsPlace
  BY DEF ReaderInv
<1>2. QED BY <1>1, ReaderSafe, PTL

\* No AR burst runs over the end of its DDR segment (ring_bytes_to_wrap).
THEOREM BurstsNeverCross == Spec => []NoBurstCrosses
<1>1. ReaderInv => NoBurstCrosses
  BY DEF ReaderInv, AnswersInPlace, InPlace, NoBurstCrosses
<1>2. QED BY <1>1, ReaderSafe, PTL

\* What is fetched and not delivered fits in the ring, also when the pointer
\* register is wrong (the pipeline stages capture and re-check the window).
THEOREM AlwaysWithinRing == Spec => []FetchWithinRing
<1>1. ReaderInv => FetchWithinRing
  BY DEF ReaderInv
<1>2. QED BY <1>1, ReaderSafe, PTL

\* A host and a memory that do nothing wrong never see the error flag.
THEOREM NeverFalseError == Spec => []NoFalseError
<1>1. ReaderInv => NoFalseError
  BY DEF ReaderInv
<1>2. QED BY <1>1, ReaderSafe, PTL

\* An end of input that ends a run is exact.
LEMMA EndIsExact ==
    ASSUME ReaderInv, state = "run", InputEnded, pending_empty, ~fatal_ring_error_q
    PROVE  eof /\ read_count = ring_write
<1>1. cmds = <<>>
  BY DEF pending_empty
<1>2. eof /\ issue_count = input_consumed_write_count_q /\ input_consumed_write_count_q = ring_write
  BY <1>1 DEF ReaderInv, ConsumedSound, InputEnded
<1>3. read_count = issue_count
  BY <1>1, ReadBehindIssue
<1>4. QED BY <1>2, <1>3

\* A run that ends without an error ends at EOF, with the stream delivered
\* exactly up to the pointer of that clock, whatever the pointer did before.
THEOREM AlwaysEndsExactly == Spec => EndsExactly
<1>1. ReaderInv /\ [Next]_vars =>
        [state = "run" /\ state' = "done" /\ ~error' => eof /\ read_count = ring_write]_vars
  <2>1. SUFFICES ASSUME ReaderInv, Next, state = "run", state' = "done", ~error'
                 PROVE  eof /\ read_count = ring_write
    BY DEF vars, consumerVars
  <2>2. PICK ar_fire, beat, bad \in BOOLEAN : RunClock(ar_fire, beat, bad)
    BY <2>1 DEF Next, Clock, IdleClock, Start, Stop, StopReader, Commit, CommitWindow,
                SetEof, RaiseEof, Clear, ClearWindow, ClearRegisters, consumerVars
  <2>3. Finishing
    BY <2>1, <2>2 DEF RunClock
  <2>4. ~error /\ ~fatal_ring_error_q
    <3>1. Errors(FALSE) \/ Errors(bad \/ (Head(slave).left = 1) # rsp_last_beat)
      BY <2>2 DEF RunClock
    <3>2. QED BY <2>1, <3>1 DEF Errors
  <2>5. InputEnded /\ pending_empty
    BY <2>3, <2>4 DEF Finishing
  <2>6. QED BY <2>1, <2>4, <2>5, EndIsExact
<1>2. QED BY <1>1, ReaderSafe, PTL DEF Spec, EndsExactly

\* A clock of a run is a step of the promise or leaves it as it is.
LEMMA RunIsConsumer ==
    ASSUME ~Rogue, ReaderInv, NEW ar_fire \in BOOLEAN, NEW beat \in BOOLEAN, NEW bad \in BOOLEAN,
           RunClock(ar_fire, beat, bad)
    PROVE  ConsumerNext \/ UNCHANGED consumerVars
<1>1. /\ state = "run" /\ ring_write' = ring_write /\ eof' = eof
      /\ state' = (IF Finishing THEN "done" ELSE "run")
      /\ (beat => slave # <<>>)
  BY DEF RunClock, SlaveClock
<1>2. ~fatal_ring_error_q /\ issue_count <= ring_write_aligned_q /\ ring_write_aligned_q <= ring_write
  BY <1>1 DEF ReaderInv, WindowLag
<1>3. error \in BOOLEAN /\ TypeOK /\ AnswersExpected
  BY DEF ReaderInv, TypeOK, ConsumerTypeOK
<1>4. CASE beat
  <2>1. slave # <<>> /\ cmds # <<>>
    BY <1>1, <1>3, <1>4, CountsAgree
  <2>2. state' = "run"
    BY <1>1, <2>1 DEF Finishing, pending_empty
  <2>3. read_count < ring_write
    <3>1. read_count < issue_count
      BY <1>1, <2>1, ReadBehindIssue
    <3>2. QED BY <1>2, <3>1, BurstFields
  <2>4. read_count' = read_count + 1
    BY <1>4, <2>1 DEF RunClock, TakeBeat
  <2>5. \E b \in BOOLEAN : error' = (error \/ b)
    <3>1. Errors(bad \/ (Head(slave).left = 1) # rsp_last_beat)
      BY <1>4, <2>1 DEF RunClock
    <3>2. \E b \in BOOLEAN : b = (bad \/ (Head(slave).left = 1) # rsp_last_beat)
      OBVIOUS
    <3>3. QED BY <1>2, <3>1, <3>2 DEF Errors
  <2>6. PICK b \in BOOLEAN : error' = (error \/ b)
    BY <2>5
  <2>7. ConsumeBeat(b)
    BY <1>1, <2>2, <2>3, <2>4, <2>6 DEF ConsumeBeat
  <2>8. QED BY <2>7 DEF ConsumerNext
<1>5. CASE ~beat
  <2>1. read_count' = read_count /\ Errors(FALSE)
    BY <1>5 DEF RunClock
  <2>2. error' = error
    BY <1>2, <1>3, <2>1 DEF Errors
  <2>3. CASE Finishing
    <3>1. error \/ (eof /\ read_count = ring_write)
      <4>1. error \/ (InputEnded /\ pending_empty)
        BY <1>2, <2>3 DEF Finishing
      <4>2. QED BY <1>1, <1>2, <4>1, EndIsExact
    <3>2. error \/ (eof /\ read_count >= ring_write)
      BY <3>1, BurstFields
    <3>3. FinishReader
      BY <1>1, <2>1, <2>2, <2>3, <3>2 DEF FinishReader
    <3>4. QED BY <3>3 DEF ConsumerNext
  <2>4. CASE ~Finishing
    BY <1>1, <2>1, <2>2, <2>4 DEF consumerVars
  <2>5. QED BY <2>3, <2>4
<1>6. QED BY <1>4, <1>5

\* With a host that commits properly the reader, clock by clock, implements
\* the promise RingConsumer that the loader of StreamRing is checked against.
THEOREM MeetsConsumer ==
    ASSUME ~Rogue
    PROVE  Spec => ImplementsConsumer
<1>1. Init => ConsumerInit
  BY DEF Init
<1>2. ReaderInv /\ [Next]_vars => [ConsumerNext]_consumerVars
  <2>1. SUFFICES ASSUME ReaderInv, [Next]_vars
                 PROVE  ConsumerNext \/ UNCHANGED consumerVars
    OBVIOUS
  <2>2. ASSUME NEW ar_fire \in BOOLEAN, NEW beat \in BOOLEAN, NEW bad \in BOOLEAN,
               RunClock(ar_fire, beat, bad)
        PROVE  ConsumerNext \/ UNCHANGED consumerVars
    BY <2>1, <2>2, RunIsConsumer
  <2>3. CASE IdleClock
    BY <2>3 DEF IdleClock
  <2>4. CASE Start
    BY <2>4 DEF Start, ConsumerNext
  <2>5. ASSUME NEW ar_fire \in BOOLEAN, NEW beat \in BOOLEAN, Stop(ar_fire, beat)
        PROVE  ConsumerNext \/ UNCHANGED consumerVars
    BY <2>5 DEF Stop, ConsumerNext
  <2>6. ASSUME NEW n \in 0..MaxWrite, Commit(n)
        PROVE  ConsumerNext \/ UNCHANGED consumerVars
    BY <2>6 DEF Commit, ConsumerNext
  <2>7. CASE SetEof \/ Clear
    BY <2>7 DEF SetEof, Clear, ConsumerNext
  <2>8. CASE UNCHANGED vars
    BY <2>8 DEF vars
  <2>9. QED BY <2>1, <2>2, <2>3, <2>4, <2>5, <2>6, <2>7, <2>8 DEF Next, Clock
<1>3. QED BY <1>1, <1>2, ReaderSafe, PTL DEF Spec, ImplementsConsumer, ConsumerSpec
=============================================================================
