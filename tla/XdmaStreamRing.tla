---------------------------- MODULE XdmaStreamRing ----------------------------
(***************************************************************************)
(* xdma_stream_ring.py, the sequential STREAM loader, over its whole life: *)
(* it is started again and again on a board that nobody resets.  A session *)
(* may complete, give up with an error, return without waiting, or be      *)
(* killed between any two accesses, with the replay still running.         *)
(*                                                                         *)
(* Amounts are 64-byte beats.  A stream file is a sequence of records; a   *)
(* record, header and padded payload, is given by the beat of the file at  *)
(* which it ends.  Beat k of what session s writes carries <<s, k>>.  A    *)
(* 64-bit register is a LO word (modulo Word) and a HI word, read and      *)
(* written one after the other.                                            *)
(***************************************************************************)
EXTENDS RingConsumer, Sequences, FiniteSets

CONSTANTS Streams,     \* what a session may find: records, whether the last one is
                       \* whole, and packet_count of the manifest, 0 without one
          Guard,       \* guard_bytes
          Prefill,     \* prefill after the clamping in main
          Word,        \* beats a 32-bit register word can count
          MaxSessions, \* bound: invocations of the loader
          Kills,       \* bound: sessions after which the process may still be killed
          Faults       \* accesses and DDR reads may fail, timeouts strike

\* What a stream file may hold: no record is empty.
Files == {ends \in Seq(Nat \ {0}) : \A n \in 2..Len(ends) : ends[n - 1] < ends[n]}

ASSUME XdmaAssumption ==
    /\ ~PingPong
    /\ Streams \subseteq [records : Files, whole : BOOLEAN, manifest : Nat]
    /\ Guard \in 1..(Ring - 1)
    /\ Prefill \in 1..(Ring - Guard)
    /\ Word \in Nat \ {0}
    /\ MaxSessions \in Nat /\ Kills \in Nat
    /\ Faults \in BOOLEAN

VARIABLES
    mem,            \* the DDR ring: offset -> beat
    write_shadow,   \* LO word waiting for the HI write
    pkt_count,      \* cfg_pkt_count
    replay_running,
    got,            \* history: what the reader delivered since the last start or stop
    sent,           \* beats the TX engine took since then
    playing,        \* history: session and records of the last start, if not stopped
    session,        \* invocations of the loader so far
    stream,         \* the records of the file the process has open
    whole,          \* whether the file ends with a whole record
    manifest_packets,
    pc,             \* next access of the process; "idle" when there is none
    write_count, packet_count, started,
    copied,         \* beats of the pending record that are in the ring
    rd_lo, rd,      \* words of STREAM_RD as they were read
    outcome         \* how the last session ended

registers == <<write_shadow, pkt_count>>
replay == <<replay_running, sent, playing>>
board == <<mem, got, registers, replay>>
input == <<session, stream, whole, manifest_packets>>
counts == <<write_count, packet_count>>
polled == <<rd_lo, rd>>
process == <<pc, counts, started, copied, polled, outcome>>
vars == <<consumerVars, board, input, process>>

NoBeat == <<0, 0>>
NoReplay == [session |-> 0, records |-> <<>>]

Init ==
    /\ ConsumerInit
    /\ mem = [a \in 0..(Ring - 1) |-> NoBeat]
    /\ write_shadow = 0 /\ pkt_count = 0
    /\ replay_running = FALSE /\ sent = 0 /\ playing = NoReplay
    /\ got = <<>>
    /\ session = 0 /\ stream = <<>> /\ whole = TRUE /\ manifest_packets = 0
    /\ pc = "idle" /\ write_count = 0 /\ packet_count = 0 /\ started = FALSE
    /\ copied = 0 /\ rd_lo = 0 /\ rd = 0 /\ outcome = ""

\* Beats of the first n records of a file, and the packets that are whole in
\* its first n beats.
BeatsOf(records, n) == IF n = 0 THEN 0 ELSE records[n]
PacketsIn(records, n) == Cardinality({i \in DOMAIN records : records[i] <= n})

-----------------------------------------------------------------------------
(* Start-up.                                                               *)

\* A new process on the stream file there is.
Launch ==
    /\ pc = "idle" /\ session < MaxSessions
    /\ \E file \in Streams :
          stream' = file.records /\ whole' = file.whole /\ manifest_packets' = file.manifest
    /\ session' = session + 1
    /\ pc' = "halt" /\ outcome' = ""
    /\ write_count' = 0 /\ packet_count' = 0 /\ started' = FALSE
    /\ copied' = 0 /\ rd_lo' = 0 /\ rd' = 0
    /\ UNCHANGED <<consumerVars, board>>

\* The CONTROL stop and clear pulses, of configure and of stop_and_clear.
StopPulse ==
    /\ StopReader
    /\ replay_running' = FALSE /\ sent' = 0 /\ got' = <<>> /\ playing' = NoReplay
    /\ UNCHANGED <<mem, registers, input>>
ClearPulse ==
    /\ ClearRegisters
    /\ write_shadow' = 0
    /\ UNCHANGED <<mem, got, pkt_count, replay, input>>

\* Mutant of ConfigureStop: a board that may be running is only cleared.
ConfigureStop_None == pc = "halt" /\ pc' = "wipe"
                      /\ UNCHANGED <<consumerVars, board, input, counts, started, copied,
                                    polled, outcome>>
\* configure: stop, clear, then the registers.  The board is stopped by then
\* and cannot come between these writes, so they are one step.
ConfigureStop == pc = "halt" /\ StopPulse /\ pc' = "wipe"
                 /\ UNCHANGED <<counts, started, copied, polled, outcome>>
ConfigureClear == pc = "wipe" /\ ClearPulse /\ pc' = "setup"
                  /\ UNCHANGED <<counts, started, copied, polled, outcome>>
ConfigureRegisters ==
    /\ pc = "setup"
    /\ pkt_count' = 0 /\ write_shadow' = 0 /\ ring_write' = 0 /\ eof' = FALSE
    /\ pc' = "next"
    /\ UNCHANGED <<state, read_count, error, mem, got, replay, input, counts, started,
                   copied, polled, outcome>>

-----------------------------------------------------------------------------
(* The loop of main.                                                       *)

quiet == <<consumerVars, board, input>>

\* An exception in the try block.
Fail(why) == pc' = "stop" /\ outcome' = why

\* The record that is read and not yet committed, and its beats.
HasRecord == packet_count < Len(stream)
Pending == BeatsOf(stream, packet_count + 1) - BeatsOf(stream, packet_count)

\* The top of the loop with a record: read_record and the size check.
TakeRecord ==
    /\ pc = "next" /\ HasRecord
    /\ IF Pending + Guard > Ring
       THEN Fail("record too large")
       ELSE pc' = "rdlo" /\ UNCHANGED outcome
    /\ UNCHANGED <<quiet, counts, started, copied, polled>>

\* The end of the file: a short record, or the manifest check.
EndOfFile ==
    /\ pc = "next" /\ ~HasRecord
    /\ IF ~whole THEN Fail("short record")
       ELSE IF manifest_packets # 0 /\ manifest_packets # packet_count
            THEN Fail("manifest")
            ELSE pc' = "pkt" /\ UNCHANGED outcome
    /\ UNCHANGED <<quiet, counts, started, copied, polled>>

WritePktCount ==
    /\ pc = "pkt"
    /\ pkt_count' = packet_count
    /\ pc' = "eof"
    /\ UNCHANGED <<consumerVars, mem, got, write_shadow, replay, input, counts, started,
                   copied, polled, outcome>>

WriteEof ==
    /\ pc = "eof"
    /\ RaiseEof
    /\ pc' = IF started THEN "wait" ELSE "start"
    /\ UNCHANGED <<board, input, counts, started, copied, polled, outcome>>

\* start_replay, from a commit, from a wait for room or after EOF.
StartReplay ==
    /\ pc = "start"
    /\ StartReader
    /\ replay_running' = TRUE /\ sent' = 0 /\ got' = <<>>
    /\ playing' = [session |-> session, records |-> stream]
    /\ started' = TRUE
    /\ pc' = IF eof THEN "wait" ELSE "next"
    /\ UNCHANGED <<mem, registers, input, counts, copied, polled, outcome>>

\* read64 of STREAM_RD.
ReadLo ==
    /\ pc = "rdlo"
    /\ rd_lo' = read_count % Word
    /\ pc' = "rdhi"
    /\ UNCHANGED <<quiet, counts, started, copied, rd, outcome>>
ReadHi ==
    /\ pc = "rdhi"
    /\ rd' = (read_count \div Word) * Word + rd_lo
    /\ pc' = "decide"
    /\ UNCHANGED <<quiet, counts, started, copied, rd_lo, outcome>>

\* check_stream_status, and the check of the pointer.
PollAbort ==
    /\ pc = "decide"
    /\ \/ error /\ Fail("stream ring error")
       \/ ~error /\ rd > write_count /\ Fail("read pointer advanced past write pointer")
    /\ UNCHANGED <<quiet, counts, started, copied, polled>>

\* Mutant of PollOK: the pointer is not checked.
PollOK_Unchecked == pc = "decide" /\ ~error
PollOK == pc = "decide" /\ ~error /\ rd <= write_count
level == write_count - rd

\* Mutant of free: a full ring and an empty one look alike.
free_Modulo == Ring - (level % Ring)
free == Ring - level - Guard

Room ==
    /\ PollOK /\ free >= Pending
    /\ copied' = 0
    /\ pc' = "copy"
    /\ UNCHANGED <<quiet, counts, started, polled, outcome>>

\* Mutant of NoRoom: no early start, the loader just polls.
NoRoom_Polls ==
    /\ PollOK /\ free < Pending
    /\ pc' = "next"
    /\ UNCHANGED <<quiet, counts, started, copied, polled, outcome>>

\* No room: what is committed may have to be replayed to make some.
NoRoom ==
    /\ PollOK /\ free < Pending
    /\ pc' = IF ~started /\ write_count > 0 THEN "start" ELSE "next"
    /\ UNCHANGED <<quiet, counts, started, copied, polled, outcome>>

\* pwrite_ring, beat by beat round the ring.
CopyBeat ==
    /\ pc = "copy" /\ copied < Pending
    /\ mem' = [mem EXCEPT ![(write_count + copied) % Ring] = <<session, write_count + copied>>]
    /\ copied' = copied + 1
    /\ UNCHANGED <<consumerVars, got, registers, replay, input, pc, counts, started, polled,
                   outcome>>

\* The record counts as written; write64 of STREAM_WR begins.
WriteLo ==
    /\ pc = "copy" /\ copied = Pending
    /\ write_count' = write_count + Pending /\ packet_count' = packet_count + 1
    /\ write_shadow' = write_count' % Word
    /\ copied' = 0
    /\ pc' = "wrhi"
    /\ UNCHANGED <<consumerVars, mem, got, pkt_count, replay, input, started, polled, outcome>>

\* The HI write commits both words.
WriteHi ==
    /\ pc = "wrhi"
    /\ ring_write' = (write_count \div Word) * Word + write_shadow
    /\ pc' = IF ~started /\ write_count >= Prefill THEN "start" ELSE "next"
    /\ UNCHANGED <<eof, state, read_count, error, board, input, counts, started, copied,
                   polled, outcome>>

-----------------------------------------------------------------------------
(* The end of a session.                                                   *)

\* Mutant of ReplayDone: the packets are not counted.
ReplayDone_ReaderOnly == state = "done"

\* replay_done of the core.
ReplayDone == /\ state = "done"
              /\ error \/ pkt_count = 0 \/ PacketsIn(playing.records, sent) >= pkt_count

\* wait_done sees done and not running, or main does not wait.
Finish ==
    /\ pc = "wait"
    /\ \/ ReplayDone /\ ~replay_running /\ outcome' = "completed"
       \/ Faults /\ outcome' = "not waited"
    /\ pc' = "idle"
    /\ UNCHANGED <<quiet, counts, started, copied, polled>>

\* A timeout, a failed access or an interrupt in the try block.
Interrupted ==
    /\ Faults
    /\ pc \notin {"idle", "stop", "clear"}
    /\ Fail("interrupted")
    /\ UNCHANGED <<quiet, counts, started, copied, polled>>

\* stop_and_clear of the exception handler and of a wait that timed out.
AbortStop == pc = "stop" /\ StopPulse /\ pc' = "clear"
             /\ UNCHANGED <<counts, started, copied, polled, outcome>>
AbortClear == pc = "clear" /\ ClearPulse /\ pc' = "idle"
              /\ UNCHANGED <<counts, started, copied, polled, outcome>>

\* The process disappears; the board goes on.
Kill ==
    /\ pc # "idle" /\ session <= Kills
    /\ pc' = "idle" /\ outcome' = "killed"
    /\ UNCHANGED <<quiet, counts, started, copied, polled>>

-----------------------------------------------------------------------------
(* The board: the reader's contract, and a TX engine that takes beats.     *)

DeliverBeat ==
    /\ \E bad \in BOOLEAN : (bad => Faults) /\ ConsumeBeat(bad)
    /\ got' = Append(got, mem[read_count % Ring])
    /\ UNCHANGED <<mem, registers, replay, input, process>>

ReaderFinishes == FinishReader /\ UNCHANGED <<board, input, process>>

SendBeat ==
    /\ replay_running /\ sent < read_count
    /\ sent' = sent + 1
    /\ UNCHANGED <<consumerVars, mem, got, registers, replay_running, playing, input, process>>

HaltReplay ==
    /\ replay_running /\ ReplayDone
    /\ replay_running' = FALSE
    /\ UNCHANGED <<consumerVars, mem, got, registers, sent, playing, input, process>>

ProcessStep ==
    \/ ConfigureStop \/ ConfigureClear \/ ConfigureRegisters
    \/ TakeRecord \/ EndOfFile \/ WritePktCount \/ WriteEof \/ StartReplay
    \/ ReadLo \/ ReadHi \/ PollAbort \/ Room \/ NoRoom
    \/ CopyBeat \/ WriteLo \/ WriteHi \/ Finish \/ AbortStop \/ AbortClear

BoardStep == DeliverBeat \/ ReaderFinishes \/ SendBeat \/ HaltReplay

\* No session is left and the board has come to rest.
AtRest == pc = "idle" /\ session = MaxSessions /\ UNCHANGED vars

Next == Launch \/ ProcessStep \/ Interrupted \/ Kill \/ BoardStep \/ AtRest

\* The process keeps running, the board is clocked and its link takes beats.
Spec == /\ Init /\ [][Next]_vars
        /\ WF_vars(ProcessStep)
        /\ WF_vars(DeliverBeat) /\ WF_vars(ReaderFinishes)
        /\ WF_vars(SendBeat) /\ WF_vars(HaltReplay)

-----------------------------------------------------------------------------
(* Properties.                                                             *)

Outcomes == {"", "record too large", "short record", "manifest", "stream ring error",
             "read pointer advanced past write pointer", "interrupted", "completed",
             "not waited", "killed"}

TypeOK ==
    /\ ConsumerTypeOK
    /\ mem \in [0..(Ring - 1) -> Nat \X Nat]
    /\ write_shadow \in 0..(Word - 1) /\ pkt_count \in Nat
    /\ replay_running \in BOOLEAN /\ got \in Seq(Nat \X Nat) /\ sent \in Nat
    /\ playing \in [session : Nat, records : Files]
    /\ session \in Nat /\ stream \in Files /\ whole \in BOOLEAN
    /\ manifest_packets \in Nat
    /\ pc \in {"idle", "halt", "wipe", "setup", "next", "pkt", "eof", "start", "rdlo",
               "rdhi", "decide", "copy", "wrhi", "wait", "stop", "clear"}
    /\ write_count \in Nat /\ packet_count \in Nat /\ started \in BOOLEAN
    /\ copied \in Nat /\ rd_lo \in 0..(Word - 1) /\ rd \in Nat
    /\ outcome \in Outcomes

\* The session owns the board: configure is behind it.
Feeding == pc \in {"next", "pkt", "eof", "start", "rdlo", "rdhi", "decide", "copy", "wrhi",
                   "wait"}

\* A session that has not started the reader has stopped it.
ReaderOwned ==
    /\ pc \in {"wipe", "setup", "clear"} => state = "idle"
    /\ pc \in {"halt", "wipe", "setup", "start"} => ~started
    /\ Feeding => IF started THEN playing.session = session ELSE state = "idle"
    /\ state = "idle" => read_count = 0

\* Where write_count, the register and the copied beats stand.
WritePointers ==
    /\ Feeding => /\ read_count <= ring_write /\ ring_write <= write_count
                  /\ write_count + copied + Guard <= read_count + Ring
                  /\ pc # "wrhi" => ring_write = write_count
    /\ pc \in {"halt", "wipe", "setup"} => write_count = 0 /\ packet_count = 0
    /\ pc = "wrhi" => write_shadow = write_count % Word
    /\ pc \notin {"copy", "idle", "stop", "clear"} => copied = 0
    /\ pc \in {"rdlo", "rdhi", "decide", "copy"} => HasRecord
    /\ pc = "copy" => copied <= Pending /\ write_count + Pending + Guard <= read_count + Ring

\* The words of STREAM_RD that were read are no older than the room they are
\* compared with, or refused.
PollSound ==
    /\ pc = "rdhi" => \E p \in 0..read_count : /\ rd_lo = p % Word
                                               /\ write_count < p + Ring
    /\ pc = "decide" => rd <= read_count \/ rd > write_count

\* The beats a session has put into the ring and the reader has not taken.
SessionInRing ==
    Feeding => \A k \in read_count..(write_count + copied - 1) : mem[k % Ring] = <<session, k>>

\* What is committed to a reader that runs is all there, whoever is feeding.
CommittedIntact ==
    state = "run" =>
        \A k \in read_count..(ring_write - 1) : mem[k % Ring] = <<playing.session, k>>

\* The reader has delivered beat 0, 1, 2, ... of the session that started it:
\* no beat of an earlier session that completed, gave up or was killed, none
\* twice and none overwritten (pwrite_ring and the free space of main).
InOrder ==
    /\ Len(got) = read_count
    /\ \A k \in DOMAIN got : got[k] = <<playing.session, k - 1>>

\* The inductive invariant: ring, pointers and polled words across sessions
\* that end anywhere (configure, the loop of main, stop_and_clear).
SessionInv ==
    /\ TypeOK /\ ReaderOwned /\ WritePointers /\ PollSound
    /\ SessionInRing /\ CommittedIntact /\ InOrder

\* A session reports completion only when the board has sent all of its file,
\* the file was whole and agreed with its manifest (wait_done of main).
CompletedMeansWhole ==
    (pc = "idle" /\ outcome = "completed" /\ ~error) =>
        /\ playing = [session |-> session, records |-> stream]
        /\ sent = BeatsOf(stream, Len(stream))
        /\ whole /\ manifest_packets \in {0, Len(stream)}

\* What the host does to the registers is what the reader may be given, over
\* all sessions (RingConsumer: commits within the window, clears when stopped).
ReaderContract == [][ConsumerNext]_consumerVars

\* Every session ends, and one that fails leaves the board stopped; with a
\* prefill the ring cannot reach, that takes the early start of main.
SessionEnds ==
    pc # "idle" ~> /\ pc = "idle"
                   /\ \/ outcome \in {"completed", "not waited", "killed"}
                      \/ state = "idle" /\ ~replay_running
=============================================================================
