---------------------------- MODULE DirectStripes ---------------------------
(***************************************************************************)
(* A striped stream without --staged-stripe: main reserves a window of the *)
(* ring for each block, the workers copy blocks from disk to ring in any   *)
(* order, and main commits them in block order.                            *)
(*                                                                         *)
(* Amounts are 64-byte beats, and beat k of the stream carries the value   *)
(* k.  As in StagedStripes a call on a queue is one step, and a thread on  *)
(* a condition variable is asleep until it is notified.                    *)
(* What follows the reader on the board is in StreamRing.                  *)
(***************************************************************************)
EXTENDS StripeBlocks, RingConsumer

CONSTANTS PktBeats,   \* beats of a stream record
          Guard,      \* guard_bytes
          Prefill,    \* prefill_bytes
          Word        \* beats a 32-bit register word can count

ASSUME DirectAssumption ==
    /\ RingSizeValid
    /\ PktBeats \in Nat \ {0} /\ Word \in Nat \ {0}
    /\ Guard \in 1..(Capacity - 1)
    /\ Prefill \in 1..(Capacity - Guard)

VARIABLES
    mem, write_shadow, pkt_count, got,      \* the board, as in StreamRing
    pc, started, scheduled,                 \* main
    next_assign, next_commit, block_begin,  \* blocks handed out and committed
    block_done,                             \* blocks whose completion main has seen
    reserved_count, write_count, packet_count,
    rd_lo, rd, outcome,
    jobs_, finished,                        \* DirectJobQueue
    completions, failed_,                   \* DirectCompletionQueue
    worker,                                 \* where each worker is, and its block
    dozing                                  \* threads asleep on a condition variable

ring == <<mem, got>>
board == <<ring, write_shadow, pkt_count>>
source == <<next_assign, block_begin, reserved_count>>
committed == <<next_commit, write_count, packet_count>>
polled == <<rd_lo, rd>>
jobQueue == <<jobs_, finished>>
completionQueue == <<completions, failed_>>
threads == <<jobQueue, completionQueue, worker>>
place == <<pc, outcome, scheduled>>
directVars == <<consumerVars, board, source, committed, polled, threads, block_done,
                place, started, dozing>>


Beats(b) == Blocks[b] * PktBeats
NoBeat == -1
Banks == IF PingPong THEN {0, 1} ELSE {0}
Addresses == Banks \X (0..(Ring - 1))

DirectInit ==
    /\ ConsumerInit
    /\ mem = [a \in Addresses |-> NoBeat] /\ got = <<>>
    /\ write_shadow = 0 /\ pkt_count = 0
    /\ pc = "assign" /\ outcome = "" /\ scheduled = FALSE /\ started = FALSE
    /\ next_assign = 1 /\ next_commit = 1 /\ block_begin = [b \in 1..Last |-> 0]
    /\ block_done = {}
    /\ reserved_count = 0 /\ write_count = 0 /\ packet_count = 0
    /\ rd_lo = 0 /\ rd = 0
    /\ jobs_ = <<>> /\ finished = FALSE
    /\ completions = <<>> /\ failed_ = FALSE
    /\ worker = [r \in Readers |-> [at |-> "open", block |-> None, copied |-> 0]]
    /\ dozing = {}

-----------------------------------------------------------------------------
(* main: handing out blocks.                                               *)

\* What is thrown is caught: the workers are joined before the board is stopped.
Fail(why) == pc' = "finish" /\ outcome' = why /\ UNCHANGED scheduled

in_flight == next_assign - 1 - Cardinality(block_done)
MayAssign == next_assign <= Last /\ in_flight < Window

TooLarge(b) == Beats(b) + Guard > Capacity

\* The head of the inner loop.  A block larger than the ring is refused when its
\* turn comes; blocks before it may be committed by then.
EnterAssign ==
    /\ pc = "assign"
    /\ \/ ~MayAssign /\ pc' = "collect" /\ UNCHANGED <<outcome, scheduled>>
       \/ MayAssign /\ ~TooLarge(next_assign) /\ pc' = "rdlo" /\ UNCHANGED <<outcome, scheduled>>
       \/ /\ MayAssign /\ (TooLarge(next_assign) \/ Faults)
          /\ Fail(IF TooLarge(next_assign) THEN "block too large" ELSE "feed timeout")
    /\ UNCHANGED <<consumerVars, board, source, committed, polled, threads, block_done,
                   started, dozing>>

ReadLo ==
    /\ pc = "rdlo"
    /\ rd_lo' = read_count % Word
    /\ pc' = "rdhi"
    /\ UNCHANGED <<consumerVars, board, source, committed, rd, threads, block_done,
                   outcome, scheduled, started, dozing>>

ReadHi ==
    /\ pc = "rdhi"
    /\ rd' = (read_count \div Word) * Word + rd_lo
    /\ pc' = "decide"
    /\ UNCHANGED <<consumerVars, board, source, committed, rd_lo, threads, block_done,
                   outcome, scheduled, started, dozing>>

StreamFatal == error \/ (state = "run" /\ ~PointerOK)

PollAbort ==
    /\ pc = "decide"
    /\ \/ StreamFatal /\ Fail("stream ring error")
       \/ ~StreamFatal /\ rd > write_count /\ Fail("read pointer advanced past write pointer")
    /\ UNCHANGED <<consumerVars, board, source, committed, polled, threads, block_done,
                   started, dozing>>

PollOK == pc = "decide" /\ ~StreamFatal /\ rd <= write_count

\* Mutant of Level: blocks in flight are not counted.
Level_Committed == write_count - rd

Level == reserved_count - rd
Free == IF Level + Guard >= Capacity THEN 0 ELSE Capacity - Level - Guard

\* Who sleeps on the condition variable of the job queue; notify_one wakes
\* one of them.
IdleWorkers == dozing \ {Main}
NotifyOne == IF IdleWorkers = {} THEN UNCHANGED dozing
             ELSE \E r \in IdleWorkers : dozing' = dozing \ {r}

\* The block gets the next window of the ring, and a worker.
AssignBlock ==
    /\ PollOK /\ Free >= Beats(next_assign)
    /\ block_begin' = [block_begin EXCEPT ![next_assign] = reserved_count]
    /\ reserved_count' = reserved_count + Beats(next_assign)
    /\ jobs_' = Append(jobs_, next_assign)
    /\ NotifyOne
    /\ next_assign' = next_assign + 1
    /\ scheduled' = TRUE
    /\ pc' = "assign"
    /\ UNCHANGED <<consumerVars, board, committed, polled, finished, completionQueue,
                   worker, block_done, outcome, started>>

NoRoom ==
    /\ PollOK /\ Free < Beats(next_assign)
    /\ pc' = "collect"
    /\ UNCHANGED <<consumerVars, board, source, committed, polled, threads, block_done,
                   outcome, scheduled, started, dozing>>

-----------------------------------------------------------------------------
(* main: collecting completions and committing.                            *)

\* DirectCompletionQueue::pop.
Collect ==
    /\ pc = "collect" /\ Main \notin dozing
    /\ \/ /\ failed_
          /\ Fail("worker failed")
          /\ UNCHANGED <<block_done, completions, dozing>>
       \/ /\ ~failed_ /\ completions # <<>>
          /\ block_done' = block_done \cup {Head(completions)}
          /\ completions' = Tail(completions)
          /\ pc' = "commit"
          /\ UNCHANGED <<outcome, scheduled, dozing>>
       \/ /\ ~failed_ /\ completions = <<>>
          /\ dozing' = dozing \cup {Main}
          /\ UNCHANGED <<pc, outcome, scheduled, block_done, completions>>
    /\ UNCHANGED <<consumerVars, board, source, committed, polled, jobQueue, failed_,
                   worker, started>>

\* wait_for gives up after poll_interval, but only when nothing has been handed
\* out in this round; what is committed is then worth a start.
CollectTimesOut ==
    /\ pc = "collect" /\ Main \in dozing
    /\ ~scheduled
    /\ dozing' = dozing \ {Main}
    /\ pc' = IF ~started /\ write_count # 0 THEN "start early" ELSE "assign"
    /\ scheduled' = FALSE
    /\ UNCHANGED <<consumerVars, board, source, committed, polled, threads, block_done,
                   outcome, started>>

\* Mutant of CommitBlock: the blocks are committed as they complete.
CommitBlock_AnyOrder ==
    /\ pc = "commit" /\ next_commit <= Cardinality(block_done)
    /\ write_count' = block_begin[next_commit] + Beats(next_commit)
    /\ packet_count' = packet_count + Blocks[next_commit]
    /\ pc' = "wrlo"
    /\ UNCHANGED <<consumerVars, board, source, next_commit, polled, threads, block_done,
                   outcome, scheduled, started, dozing>>

\* The next block in the order of the stream, if it has completed.
CommitBlock ==
    /\ pc = "commit" /\ next_commit \in block_done
    /\ write_count' = block_begin[next_commit] + Beats(next_commit)
    /\ packet_count' = packet_count + Blocks[next_commit]
    /\ pc' = "wrlo"
    /\ UNCHANGED <<consumerVars, board, source, next_commit, polled, threads, block_done,
                   outcome, scheduled, started, dozing>>

\* Back to handing out, until every block is committed.
CommitNoMore ==
    /\ pc = "commit" /\ next_commit \notin block_done
    /\ pc' = IF next_commit > Last THEN "finish" ELSE "assign"
    /\ scheduled' = FALSE
    /\ UNCHANGED <<consumerVars, board, source, committed, polled, threads, block_done,
                   outcome, started, dozing>>

WriteLo ==
    /\ pc = "wrlo"
    /\ write_shadow' = write_count % Word
    /\ pc' = "wrhi"
    /\ UNCHANGED <<consumerVars, ring, pkt_count, source, committed, polled, threads,
                   block_done, outcome, scheduled, started, dozing>>

WriteHi ==
    /\ pc = "wrhi"
    /\ ring_write' = (write_count \div Word) * Word + write_shadow
    /\ next_commit' = next_commit + 1
    /\ pc' = IF ~started /\ write_count >= Prefill THEN "start" ELSE "commit"
    /\ UNCHANGED <<eof, state, read_count, error, board, source, write_count, packet_count,
                   polled, threads, block_done, outcome, scheduled, started, dozing>>

StartReplay ==
    /\ pc \in {"start", "start early", "start last"}
    /\ StartReader
    /\ started' = TRUE
    /\ pc' = CASE pc = "start" -> "commit"
               [] pc = "start early" -> "assign"
               [] pc = "start last" -> "wait"
    /\ UNCHANGED <<board, source, committed, polled, threads, block_done, outcome,
                   scheduled, dozing>>

-----------------------------------------------------------------------------
(* main: the end, good or bad.                                             *)

\* Mutant of FinishJobs: the workers that wait for jobs are not woken.
FinishJobs_Silent ==
    /\ pc = "finish"
    /\ finished' = TRUE
    /\ pc' = "join"
    /\ UNCHANGED <<consumerVars, board, source, committed, polled, jobs_, completionQueue,
                   worker, block_done, outcome, scheduled, started, dozing>>

\* job_queue.finish: no more jobs, every worker wakes up.
FinishJobs ==
    /\ pc = "finish"
    /\ finished' = TRUE
    /\ dozing' = dozing \ Readers
    /\ pc' = "join"
    /\ UNCHANGED <<consumerVars, board, source, committed, polled, jobs_, completionQueue,
                   worker, block_done, outcome, scheduled, started>>

\* Jobs still queued are done before a worker can be joined.
JoinWorkers ==
    /\ pc = "join"
    /\ \A r \in Readers : worker[r].at = "exit"
    /\ \/ outcome = "" /\ pc' = "count" /\ UNCHANGED <<outcome, scheduled>>
       \/ outcome = "" /\ Faults /\ Fail("packet_count mismatch")
       \/ outcome # "" /\ pc' = "stop" /\ UNCHANGED <<outcome, scheduled>>
    /\ UNCHANGED <<consumerVars, board, source, committed, polled, threads, block_done,
                   started, dozing>>

WritePktCount ==
    /\ pc = "count"
    /\ pkt_count' = packet_count
    /\ pc' = "eof"
    /\ UNCHANGED <<consumerVars, ring, write_shadow, source, committed, polled, threads,
                   block_done, outcome, scheduled, started, dozing>>

WriteEof ==
    /\ pc = "eof"
    /\ RaiseEof
    /\ pc' = IF started THEN "wait" ELSE "start last"
    /\ UNCHANGED <<board, source, committed, polled, threads, block_done, outcome,
                   scheduled, started, dozing>>

\* wait_done, for as far as the reader goes.
WaitDone ==
    /\ pc = "wait" /\ state = "done"
    /\ pc' = "end" /\ outcome' = "completed"
    /\ UNCHANGED <<consumerVars, board, source, committed, polled, threads, block_done,
                   scheduled, started, dozing>>

WaitTimesOut ==
    /\ Faults
    /\ pc = "wait"
    /\ pc' = "stop" /\ outcome' = "replay timeout"
    /\ UNCHANGED <<consumerVars, board, source, committed, polled, threads, block_done,
                   scheduled, started, dozing>>

WriteStop ==
    /\ pc = "stop"
    /\ StopReader
    /\ pc' = "clear"
    /\ UNCHANGED <<board, source, committed, polled, threads, block_done, outcome,
                   scheduled, started, dozing>>

WriteClear ==
    /\ pc = "clear"
    /\ ClearRegisters
    /\ write_shadow' = 0
    /\ pc' = "end"
    /\ UNCHANGED <<ring, pkt_count, source, committed, polled, threads, block_done,
                   outcome, scheduled, started, dozing>>

-----------------------------------------------------------------------------
(* The workers.                                                            *)

WorkerGoes(r, at, block, copied) ==
    worker' = [worker EXCEPT ![r] = [at |-> at, block |-> block, copied |-> copied]]

NotifyMain == dozing' = dozing \ {Main}

OpenDevice(r) ==
    /\ worker[r].at = "open"
    /\ WorkerGoes(r, "pop", None, 0)
    /\ UNCHANGED <<mem, jobs_, completionQueue, dozing>>

\* DirectJobQueue::pop.
PopJob(r) ==
    /\ worker[r].at = "pop" /\ r \notin dozing
    /\ \/ /\ jobs_ # <<>>
          /\ WorkerGoes(r, "copy", Head(jobs_), 0)
          /\ jobs_' = Tail(jobs_)
          /\ UNCHANGED dozing
       \/ /\ jobs_ = <<>> /\ finished
          /\ WorkerGoes(r, "exit", None, 0)
          /\ UNCHANGED <<jobs_, dozing>>
       \/ /\ jobs_ = <<>> /\ ~finished
          /\ dozing' = dozing \cup {r}
          /\ UNCHANGED <<jobs_, worker>>
    /\ UNCHANGED <<mem, completionQueue>>

\* copy_block_to_ring, one beat at a time.
CopyBeat(r) ==
    LET b == worker[r].block
        n == block_begin[b] + worker[r].copied
    IN  /\ worker[r].at = "copy" /\ worker[r].copied < Beats(b)
        /\ mem' = [mem EXCEPT ![Address(n)] = n]
        /\ WorkerGoes(r, "copy", b, worker[r].copied + 1)
        /\ UNCHANGED <<jobs_, completionQueue, dozing>>

CompleteBlock(r) ==
    /\ worker[r].at = "copy" /\ worker[r].copied = Beats(worker[r].block)
    /\ completions' = Append(completions, worker[r].block)
    /\ NotifyMain
    /\ WorkerGoes(r, "pop", None, 0)
    /\ UNCHANGED <<mem, jobs_, failed_>>

\* The device cannot be opened, the block not read, or not written.
WorkerFails(r) ==
    /\ Faults
    /\ \/ worker[r].at = "open"
       \/ worker[r].at = "copy" /\ worker[r].copied < Beats(worker[r].block)
    /\ failed_' = TRUE
    /\ NotifyMain
    /\ WorkerGoes(r, "exit", None, 0)
    /\ UNCHANGED <<mem, jobs_, completions>>

WorkerStep(r) ==
    /\ OpenDevice(r) \/ PopJob(r) \/ CopyBeat(r) \/ CompleteBlock(r) \/ WorkerFails(r)
    /\ UNCHANGED <<consumerVars, got, write_shadow, pkt_count, source, committed, polled,
                   finished, block_done, place, started>>

-----------------------------------------------------------------------------
(* The board.                                                              *)

DeliverBeat ==
    /\ \E bad \in BOOLEAN : (bad => Faults) /\ ConsumeBeat(bad)
    /\ got' = Append(got, mem[Address(read_count)])
    /\ UNCHANGED <<mem, write_shadow, pkt_count, source, committed, polled, threads,
                   block_done, place, started, dozing>>

ReaderFinishes ==
    /\ FinishReader
    /\ UNCHANGED <<board, source, committed, polled, threads, block_done, place, started,
                   dozing>>

MainStep ==
    \/ EnterAssign \/ ReadLo \/ ReadHi \/ PollAbort \/ AssignBlock \/ NoRoom
    \/ Collect \/ CollectTimesOut \/ CommitBlock \/ CommitNoMore
    \/ WriteLo \/ WriteHi \/ StartReplay
    \/ FinishJobs \/ JoinWorkers \/ WritePktCount \/ WriteEof \/ WaitDone
    \/ WriteStop \/ WriteClear

DirectNext ==
    \/ MainStep \/ WaitTimesOut
    \/ \E r \in Readers : WorkerStep(r)
    \/ DeliverBeat \/ ReaderFinishes

-----------------------------------------------------------------------------
DirectOutcomes ==
    {"", "completed", "block too large", "feed timeout",
     "stream ring error", "read pointer advanced past write pointer", "worker failed",
     "packet_count mismatch", "replay timeout"}

DirectTypeOK ==
    /\ ConsumerTypeOK
    /\ mem \in [Addresses -> Nat \cup {NoBeat}] /\ got \in Seq(Nat \cup {NoBeat})
    /\ write_shadow \in 0..(Word - 1) /\ pkt_count \in Nat
    /\ pc \in {"assign", "rdlo", "rdhi", "decide", "collect", "commit", "wrlo", "wrhi",
               "start", "start early", "start last", "finish", "join", "count", "eof",
               "wait", "stop", "clear", "end"}
    /\ started \in BOOLEAN /\ scheduled \in BOOLEAN /\ outcome \in DirectOutcomes
    /\ next_assign \in 1..(Last + 1) /\ next_commit \in 1..(Last + 1)
    /\ block_begin \in [1..Last -> Nat] /\ block_done \subseteq 1..Last
    /\ reserved_count \in Nat /\ write_count \in Nat /\ packet_count \in Nat
    /\ rd_lo \in 0..(Word - 1) /\ rd \in Nat
    /\ jobs_ \in Seq(1..Last) /\ finished \in BOOLEAN
    /\ completions \in Seq(1..Last) /\ failed_ \in BOOLEAN
    /\ worker \in [Readers -> [at : {"open", "pop", "copy", "exit"}, block : 0..Last,
                               copied : Nat]]
    /\ dozing \subseteq Readers \cup {Main}

\* The reader never meets a beat that is missing or already overwritten,
\* although blocks complete in any order (docs/evaluation_20260705_ssd_limit_
\* stream.md: STREAM_WR_PTR advances by block only, so the FPGA reads no
\* record that is not whole).
PublishedWhole ==
    state = "run" =>
        \A k \in read_count..(ring_write - 1) : mem[Address(k)] = k

\* Towards the reader main keeps the contract the reader is verified against.
DirectContract == ConsumerSpec

-----------------------------------------------------------------------------
(* The inductive invariant behind PublishedWhole, part by part.            *)

BoardLive == pc \notin {"clear", "end"}

BlockEnd(b) == block_begin[b] + Beats(b)

\* The blocks handed out lie one behind the other, from the start of the
\* stream to the end of the reservation.
BlocksTile ==
    /\ next_assign = 1 => reserved_count = 0
    /\ next_assign > 1 => block_begin[1] = 0 /\ BlockEnd(next_assign - 1) = reserved_count
    /\ \A b \in 1..(next_assign - 2) : BlockEnd(b) = block_begin[b + 1]
    /\ \A b \in 1..(next_assign - 1) : BlockEnd(b) <= reserved_count
    /\ \A b, c \in 1..(next_assign - 1) : b < c => BlockEnd(b) <= block_begin[c]

\* A block is queued, with one worker, or complete.
InOneHand ==
    /\ \A i \in DOMAIN jobs_ : jobs_[i] = next_assign - 1 - Len(jobs_) + i
    /\ Len(jobs_) < next_assign
    /\ \A b \in block_done : b < next_assign - Len(jobs_)
    /\ \A i \in DOMAIN completions : completions[i] < next_assign - Len(jobs_)
    /\ \A r \in Readers : worker[r].at = "copy" =>
          /\ worker[r].block \in 1..(next_assign - Len(jobs_) - 1)
          /\ worker[r].block \notin block_done
          /\ \A i \in DOMAIN completions : completions[i] # worker[r].block
          /\ \A q \in Readers \ {r} :
                worker[q].at = "copy" => worker[q].block # worker[r].block
          /\ worker[r].copied <= Beats(worker[r].block)

\* What is committed is a prefix of blocks that have all completed.
CommittedPrefix ==
    /\ \A b \in 1..(next_commit - 1) : b \in block_done
    /\ pc \in {"wrlo", "wrhi"} => next_commit \in block_done /\ write_count = BlockEnd(next_commit)
    /\ pc \notin {"wrlo", "wrhi"} =>
          write_count = IF next_commit = 1 THEN 0 ELSE BlockEnd(next_commit - 1)

RingWindow ==
    BoardLive => /\ read_count <= ring_write /\ ring_write <= write_count
                 /\ reserved_count + Guard <= read_count + Capacity

\* What has been copied and not yet read is in the ring.
Held(from, to) == \A k \in from..(to - 1) : k >= read_count => mem[Address(k)] = k

CommittedHeld == BoardLive => Held(0, write_count)

CopiedInRing ==
    BoardLive =>
        /\ \A b \in block_done : Held(block_begin[b], BlockEnd(b))
        /\ \A i \in DOMAIN completions : Held(block_begin[completions[i]], BlockEnd(completions[i]))
        /\ \A r \in Readers : worker[r].at = "copy" =>
              Held(block_begin[worker[r].block],
                   block_begin[worker[r].block] + worker[r].copied)

\* As in StreamRing, a torn read of STREAM_RD is harmless.
DirectPollSound ==
    /\ pc = "rdhi" => \E n \in 0..read_count :
                         /\ rd_lo = n % Word
                         /\ reserved_count + Guard <= n + Capacity
    /\ pc = "decide" => rd <= read_count \/ rd > write_count

DirectPosition ==
    /\ pc \in {"rdlo", "rdhi", "decide"} => next_assign <= Last
    /\ pc = "wrhi" => write_shadow = write_count % Word
    /\ BoardLive /\ ~started => state = "idle" /\ read_count = 0
    /\ pc \in {"start", "start early", "start last"} => ~started
    /\ ~BoardLive => state # "run"
    /\ pc = "clear" => state = "idle"

\* What the reader may take is whole, for the reasons above: blocks lie behind
\* each other within one capacity of it, each is in one hand at a time, and only
\* a prefix of complete blocks is committed.
DirectInv ==
    /\ DirectTypeOK /\ PublishedWhole /\ BlocksTile /\ InOneHand /\ CommittedPrefix /\ RingWindow
    /\ CommittedHeld /\ CopiedInRing /\ DirectPollSound /\ DirectPosition
=============================================================================
