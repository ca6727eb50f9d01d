------------------------------ MODULE TraceFiles ------------------------------
(***************************************************************************)
(* The host's file tools: gen_synthetic_pcap.py writes a capture,          *)
(* pcap2trace.py and gen_synthetic_trace.py write a trace (desc.bin and    *)
(* data.bin), trace_to_stream.py turns it into the records of stream.bin,  *)
(* stream_stripe.py deals those out to blocks on several disks.  Each      *)
(* iteration of a tool's loop is a step; a tool may be killed in between,  *)
(* and the next one runs on what it left.                                  *)
(*                                                                         *)
(* A data beat is <<n, p, b>>: beat b of packet p of the n-th source.      *)
(***************************************************************************)
EXTENDS Integers, Sequences, SequencesExt

CONSTANTS Sources,    \* sequence of sets: what may be converted, turn by turn
          Beat,       \* bytes of a beat
          MinFrame,   \* --min-frame
          MaxFrame,   \* the largest length a descriptor holds
          TickNum, TickDen,  \* ticks in a nanosecond, as a fraction
          Overhead,   \* --wire-overhead-bytes
          Lanes,      \* --lane-dir directories
          BlockBeats, \* --block-bytes in beats
          Overrides,  \* --override-gap-ticks values, NoOverride for none
          FileFaults  \* tools may be killed

NoOverride == -1

\* A capture, one that gen_synthetic_pcap is to write, and the two ways of
\* gen_synthetic_trace: a fixed gap, or a rate of num / den ticks per byte.
FrameType == [ts : Nat, incl : Nat, orig : Nat]
SourceType ==
    [kind : {"pcap"}, packets : Seq(FrameType), keep_fcs : BOOLEAN]
        \cup [kind : {"synthetic"}, packets : {<<>>}, keep_fcs : BOOLEAN, count : Nat,
              len : Nat, gap_ns : Nat \cup {NoOverride},
              gap_ticks : Nat \cup {NoOverride}]
        \cup [kind : {"gap"}, count : Nat, len : Nat, gap : Nat]
        \cup [kind : {"rate"}, count : Nat, len : Nat, num : Nat, den : Nat \ {0}]

ASSUME TraceAssumption ==
    /\ Sources \in Seq(SUBSET SourceType)
    /\ Beat \in Nat \ {0} /\ MinFrame \in Nat /\ MaxFrame \in Nat
    /\ TickNum \in Nat \ {0} /\ TickDen \in Nat \ {0} /\ Overhead \in Nat
    /\ Lanes \in Nat \ {0, 1} /\ BlockBeats \in Nat \ {0}
    /\ Overrides \subseteq Nat \cup {NoOverride}
    /\ FileFaults \in BOOLEAN

VARIABLES
    stage,             \* the tool that runs, or "idle", "ready" (a stream), "striped"
    turn, source,      \* sources converted so far, and the one on disk
    prev_target_tick,
    desc, data,        \* desc.bin and data.bin
    records, complete, \* stream.bin, and whether it ends with a whole record
    stripe,            \* options and block under way of stream_stripe
    done,              \* records it has dealt out
    files, blocks      \* lane files by path, and the block list

conversion == <<turn, source, prev_target_tick, desc, data>>
streamFile == <<records, complete>>
striping == <<stripe, done, files, blocks>>
fileVars == <<stage, conversion, streamFile, striping>>

NoStripe == [container |-> FALSE, force |-> FALSE, override |-> NoOverride,
             id |-> 0, packets |-> 0, beats |-> 0, first |-> 0, offset |-> 0,
             offsets |-> [l \in 0..(Lanes - 1) |-> 0]]

FilesInit ==
    /\ stage = "idle" /\ turn = 0 /\ source = [kind |-> "none"] /\ prev_target_tick = 0
    /\ desc = <<>> /\ data = <<>>
    /\ records = <<>> /\ complete = TRUE
    /\ stripe = NoStripe /\ done = 0 /\ files = <<>> /\ blocks = <<>>

\* align_up(len, 64) // 64.
PaddedBeats(len) == (len + Beat - 1) \div Beat

-----------------------------------------------------------------------------
(* gen_synthetic_pcap.                                                     *)

\* Python's round: to the nearest integer, a tie to the even one.
round(num, den) ==
    LET q == num \div den
        r == num % den
    IN  IF 2 * r > den \/ (2 * r = den /\ q % 2 = 1) THEN q + 1 ELSE q

\* --gap-ticks is turned into nanoseconds once, for all packets, and only if there
\* is no --gap-ns.
GapNs == IF source.gap_ns # NoOverride THEN source.gap_ns
         ELSE IF source.gap_ticks = NoOverride THEN 0
         ELSE round(source.gap_ticks * TickDen, TickNum)

\* One frame of the capture, with its time stamp.
CapturePacket ==
    /\ stage = "pcap" /\ Len(source.packets) < source.count
    /\ source' = [source EXCEPT !.packets =
                     Append(@, [ts |-> Len(@) * GapNs, incl |-> source.len, orig |-> source.len])]
    /\ UNCHANGED <<stage, turn, prev_target_tick, desc, data, streamFile, striping>>

\* The capture is complete, or what there is of it is converted.
CloseCapture ==
    /\ stage = "pcap" /\ (FileFaults \/ Len(source.packets) = source.count)
    /\ stage' = "trace"
    /\ UNCHANGED <<conversion, streamFile, striping>>

-----------------------------------------------------------------------------
(* pcap2trace and gen_synthetic_trace.                                     *)

\* The next source.  Opening desc.bin and data.bin for writing empties them.
Prepare ==
    /\ stage \in {"idle", "ready", "striped"} /\ turn < Len(Sources)
    /\ turn' = turn + 1
    /\ source' \in Sources[turn + 1]
    /\ prev_target_tick' = 0 /\ desc' = <<>> /\ data' = <<>>
    /\ stage' = IF source'.kind = "synthetic" THEN "pcap" ELSE "trace"
    /\ UNCHANGED <<streamFile, striping>>

NotBefore(a, b) == IF a < b THEN b ELSE a

Captured == source.kind \in {"pcap", "synthetic"}
packet == source.packets[Len(desc) + 1]

\* Mutant of TargetTick: each gap is rounded on its own.
TargetTick_PerGap ==
    LET i == Len(desc)
        gap == NotBefore(0, packet.ts - source.packets[i].ts)
    IN  IF i = 0 THEN 0 ELSE prev_target_tick + round(gap * TickNum, TickDen)

\* The tick of the next packet: the time since the first one, rounded, and
\* never before the packet that precedes it in the file.
TargetTick ==
    NotBefore(prev_target_tick,
              round(NotBefore(0, packet.ts - source.packets[1].ts) * TickNum, TickDen))

\* What is kept of a captured frame, padded to --min-frame.
FrameLen ==
    LET kept == IF source.keep_fcs \/ packet.incl < packet.orig THEN packet.incl ELSE packet.orig
    IN  NotBefore(kept, MinFrame)

\* One descriptor and the beats of its frame.
AddPacket(gap, len) ==
    LET p == Len(desc) + 1
    IN  /\ desc' = Append(desc, [gap |-> gap, word |-> Len(data), len |-> len])
        /\ data' = data \o [b \in 1..PaddedBeats(len) |-> <<turn, p, b>>]

ConvertPacket ==
    /\ stage = "trace" /\ Captured /\ Len(desc) < Len(source.packets)
    /\ FrameLen <= MaxFrame
    /\ AddPacket(TargetTick - prev_target_tick, FrameLen)
    /\ prev_target_tick' = TargetTick
    /\ UNCHANGED <<stage, turn, source, streamFile, striping>>

\* gen_synthetic_trace: a fixed gap, or the tick at which a wire of the given
\* rate would begin packet number i, rounded.
SyntheticTick(i) ==
    IF source.kind = "gap" THEN prev_target_tick + source.gap
    ELSE (i * (source.len + Overhead) * source.num + source.den \div 2) \div source.den

GeneratePacket ==
    /\ stage = "trace" /\ ~Captured /\ Len(desc) < source.count
    /\ AddPacket(SyntheticTick(Len(desc)) - prev_target_tick, source.len)
    /\ prev_target_tick' = SyntheticTick(Len(desc))
    /\ UNCHANGED <<stage, turn, source, streamFile, striping>>

\* The end of the input, a frame no descriptor holds, or a truncated pcap:
\* both files are closed with what has been written.  trace_to_stream comes
\* next and empties stream.bin.
CloseTrace ==
    /\ stage = "trace"
    /\ \/ Captured /\ Len(desc) = Len(source.packets)
       \/ Captured /\ Len(desc) < Len(source.packets) /\ FrameLen > MaxFrame
       \/ ~Captured /\ Len(desc) = source.count
    /\ stage' = "stream"
    /\ records' = <<>> /\ complete' = TRUE
    /\ UNCHANGED <<conversion, striping>>

\* A killed tool leaves as much of each file as had been flushed.
ConvertKilled ==
    /\ FileFaults /\ stage = "trace"
    /\ \E i \in 0..Len(desc), j \in 0..Len(data) :
          desc' = SubSeq(desc, 1, i) /\ data' = SubSeq(data, 1, j)
    /\ stage' = "stream"
    /\ records' = <<>> /\ complete' = TRUE
    /\ UNCHANGED <<turn, source, prev_target_tick, striping>>

-----------------------------------------------------------------------------
(* trace_to_stream.                                                        *)

next_desc == desc[Len(records) + 1]
payload_end == next_desc.word + PaddedBeats(next_desc.len)

StreamRecord ==
    /\ stage = "stream" /\ Len(records) < Len(desc) /\ payload_end <= Len(data)
    /\ records' = Append(records,
                         [gap |-> next_desc.gap, len |-> next_desc.len,
                          payload |-> SubSeq(data, next_desc.word + 1, payload_end)])
    /\ UNCHANGED <<stage, conversion, complete, striping>>

\* The end, or a payload that data.bin does not hold.
StreamEnd ==
    /\ stage = "stream"
    /\ \/ Len(records) = Len(desc)
       \/ Len(records) < Len(desc) /\ payload_end > Len(data)
    /\ stage' = "ready"
    /\ UNCHANGED <<conversion, records, complete, striping>>

StreamKilled ==
    /\ FileFaults /\ stage = "stream"
    /\ \E i \in 0..Len(records) : /\ records' = SubSeq(records, 1, i)
                                  /\ complete' \in {TRUE, i = Len(desc)}
    /\ stage' = "ready"
    /\ UNCHANGED <<conversion, striping>>

-----------------------------------------------------------------------------
(* stream_stripe.                                                          *)

Lane(id) == id % Lanes

\* block_path_for and container_path_for.
PathOf(s, id) == IF s.container THEN <<Lane(id)>> ELSE <<Lane(id), id>>

\* Opening a path for writing empties it.
Opened(paths) == [p \in DOMAIN files \cup paths |-> IF p \in paths THEN <<>> ELSE files[p]]

OpenAtStart(s) == IF s.container THEN {<<l>> : l \in 0..(Lanes - 1)} ELSE {PathOf(s, 0)}

\* Existing files are only overwritten with --force.
StripeStart ==
    /\ stage = "ready"
    /\ \E container, force \in BOOLEAN, override \in Overrides :
          LET s == [NoStripe EXCEPT !.container = container, !.force = force,
                                    !.override = override]
          IN  IF ~force /\ OpenAtStart(s) \cap DOMAIN files # {}
              THEN stage' = "idle" /\ UNCHANGED striping
              ELSE /\ stage' = "stripe" /\ stripe' = s /\ done' = 0 /\ blocks' = <<>>
                   /\ files' = Opened(OpenAtStart(s))
    /\ UNCHANGED <<conversion, streamFile>>

RecordBeats(r) == 1 + Len(r.payload)
Header(gap, len) == <<"header", gap, len>>
Written(r) ==
    LET gap == IF stripe.override = NoOverride THEN r.gap ELSE stripe.override
    IN  <<Header(gap, r.len)>> \o r.payload

\* The entry finish_block makes in the block list.
BlockEntry == [path |-> PathOf(stripe, stripe.id), lane |-> Lane(stripe.id),
               beats |-> stripe.beats, packets |-> stripe.packets,
               first_packet |-> stripe.first, file_offset |-> stripe.offset]

next_record == records[done + 1]
BlockFull == stripe.packets # 0 /\ stripe.beats + RecordBeats(next_record) > BlockBeats

\* Where the next block of each lane begins, once this one is finished.
ContainerOffsets ==
    IF stripe.container THEN [stripe.offsets EXCEPT ![Lane(stripe.id)] = @ + stripe.beats]
    ELSE stripe.offsets

\* Mutant of NextBlock: the container offset is that of the lane just left.
NextBlock_OtherLane ==
    LET id == stripe.id + 1
        offsets == ContainerOffsets
    IN  [stripe EXCEPT !.id = id, !.packets = 0, !.beats = 0, !.first = done,
                       !.offsets = offsets,
                       !.offset = IF stripe.container THEN offsets[Lane(stripe.id)] ELSE 0]

\* finish_block, then start_block for the record at hand.
NextBlock ==
    LET id == stripe.id + 1
        offsets == ContainerOffsets
    IN  [stripe EXCEPT !.id = id, !.packets = 0, !.beats = 0, !.first = done,
                       !.offsets = offsets,
                       !.offset = IF stripe.container THEN offsets[Lane(id)] ELSE 0]

\* A record goes to block s, whose file is in fs.
PutRecord(s, fs) ==
    /\ files' = [fs EXCEPT ![PathOf(s, s.id)] = @ \o Written(next_record)]
    /\ stripe' = [s EXCEPT !.packets = @ + 1, !.beats = @ + RecordBeats(next_record)]
    /\ done' = done + 1

StripeRecord ==
    /\ stage = "stripe" /\ done < Len(records)
    /\ LET path == PathOf(stripe, stripe.id + 1)
       IN  IF ~BlockFull THEN PutRecord(stripe, files) /\ UNCHANGED <<stage, blocks>>
           ELSE /\ blocks' = Append(blocks, BlockEntry)
                /\ IF stripe.container THEN PutRecord(NextBlock, files) /\ UNCHANGED stage
                   ELSE IF path \in DOMAIN files /\ ~stripe.force
                        THEN stage' = "idle" /\ UNCHANGED <<files, stripe, done>>
                        ELSE PutRecord(NextBlock, Opened({path})) /\ UNCHANGED stage
    /\ UNCHANGED <<conversion, streamFile>>

\* The last block is finished and the block list written, unless the stream
\* ends inside a record or has none; the file of an empty block goes.
StripeEnd ==
    /\ stage = "stripe" /\ done = Len(records)
    /\ IF complete /\ done # 0
       THEN stage' = "striped" /\ blocks' = Append(blocks, BlockEntry)
       ELSE stage' = "idle" /\ UNCHANGED blocks
    /\ files' = IF complete /\ done = 0 /\ ~stripe.container
                THEN [p \in DOMAIN files \ {PathOf(stripe, 0)} |-> files[p]] ELSE files
    /\ UNCHANGED <<conversion, streamFile, stripe, done>>

StripeKilled ==
    /\ FileFaults /\ stage = "stripe"
    /\ stage' = "idle"
    /\ UNCHANGED <<conversion, streamFile, striping>>

\* The operator has run out of sources.
AtRest ==
    /\ stage \in {"idle", "ready", "striped"} /\ turn = Len(Sources)
    /\ UNCHANGED fileVars

FilesNext ==
    \/ Prepare \/ CapturePacket \/ CloseCapture
    \/ ConvertPacket \/ GeneratePacket \/ CloseTrace \/ ConvertKilled
    \/ StreamRecord \/ StreamEnd \/ StreamKilled
    \/ StripeStart \/ StripeRecord \/ StripeEnd \/ StripeKilled
    \/ AtRest

FilesSpec == FilesInit /\ [][FilesNext]_fileVars

-----------------------------------------------------------------------------
(* Properties.                                                             *)

\* When packet i of the source is due, in ticks after the first, as a
\* fraction: the latest time stamp up to i, or i - 1 intervals.
Due(i) ==
    CASE Captured ->
            LET since == {source.packets[j].ts - source.packets[1].ts : j \in 1..i}
            IN  [num |-> (CHOOSE t \in since : \A u \in since : u <= t) * TickNum, den |-> TickDen]
      [] source.kind = "gap" -> [num |-> i * source.gap, den |-> 1]
      [] OTHER -> [num |-> (i - 1) * (source.len + Overhead) * source.num, den |-> source.den]

\* The tick the gaps of the first i records add up to.
TickOf[i \in 0..Len(records)] == IF i = 0 THEN 0 ELSE TickOf[i - 1] + records[i].gap

\* Each record of stream.bin carries the frame of its packet, whatever was cut
\* off by a killed tool, and its accumulated gaps are never more than half a
\* tick from when the packet is due: rounding does not add up
\* (docs/preload.md, "Scheduling Semantics").
StreamFaithful ==
    stage \notin {"pcap", "trace"} =>
        \A i \in DOMAIN records :
            LET due == Due(i)
                off == TickOf[i] * due.den - due.num
            IN  /\ records[i].payload = [b \in 1..PaddedBeats(records[i].len) |-> <<turn, i, b>>]
                /\ 2 * off <= due.den /\ 0 - 2 * off <= due.den

\* What a reader of the block list puts together, block after block.
Reassembled ==
    FlattenSeq([b \in DOMAIN blocks |->
        SubSeq(files[blocks[b].path], blocks[b].file_offset + 1,
               blocks[b].file_offset + blocks[b].beats)])

\* The blocks of a finished list hold the stream, each whole records and no
\* more than the block size but for a record that is larger; also over files
\* left by an earlier, longer or killed run.
StripesReassemble ==
    stage = "striped" =>
        /\ \A b \in DOMAIN blocks : /\ blocks[b].path \in DOMAIN files
                                   /\ blocks[b].file_offset + blocks[b].beats
                                        <= Len(files[blocks[b].path])
        /\ Reassembled = FlattenSeq([i \in DOMAIN records |-> Written(records[i])])
        /\ \A b \in DOMAIN blocks :
              /\ blocks[b].lane = (b - 1) % Lanes
              /\ blocks[b].beats <= BlockBeats \/ blocks[b].packets = 1
              /\ LET first == blocks[b].first_packet
                 IN  blocks[b].beats =
                        Len(FlattenSeq([i \in 1..blocks[b].packets |->
                                            Written(records[first + i])]))
=============================================================================
