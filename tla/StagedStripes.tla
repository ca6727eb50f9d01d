---------------------------- MODULE StagedStripes ---------------------------
(***************************************************************************)
(* A striped stream with --staged-stripe: the threads between the disks    *)
(* and the loop StreamRing models.  The readers take blocks in order and   *)
(* bring them in any order (StripedReadState), striped_producer_thread     *)
(* puts them back in order and into the ChunkQueue main pops.              *)
(*                                                                         *)
(* A call on a queue is one step under its mutex.  A thread that waits on  *)
(* a condition variable is asleep until that variable is notified; on      *)
(* which one it waits follows from where it is.                            *)
(***************************************************************************)
EXTENDS StripeBlocks

CONSTANT QueueDepth   \* depth_ of the ChunkQueue
ASSUME QueueAssumption == QueueDepth \in Nat \ {0}

VARIABLES next_assign_, next_emit_,  \* StripedReadState, counted from 1
          completed_,                \* blocks read and not yet put in order
          error_,
          reader,                    \* where each reader is, and with which block
          producer,                  \* likewise, of the producer
          producer_error,
          chunks_, done_,            \* the ChunkQueue
          feeding,                   \* where main is
          popped,                    \* history: the blocks main has popped
          asleep                     \* threads asleep on a condition variable

readState == <<next_assign_, next_emit_, completed_, error_>>
queue == <<chunks_, done_>>
main == <<feeding, popped>>
stagedVars == <<readState, reader, producer, producer_error, queue, main, asleep>>



StagedInit ==
    /\ next_assign_ = 1 /\ next_emit_ = 1 /\ completed_ = {} /\ error_ = FALSE
    /\ reader = [r \in Readers |-> [at |-> "work", block |-> None]]
    /\ producer = [at |-> "pop", block |-> None] /\ producer_error = FALSE
    /\ chunks_ = <<>> /\ done_ = FALSE
    /\ feeding = "feed" /\ popped = <<>>
    /\ asleep = {}

Sleeps(thread) == asleep' = asleep \cup {thread}
ReaderGoes(r, at, block) == reader' = [reader EXCEPT ![r] = [at |-> at, block |-> block]]
ProducerGoes(at, block) == producer' = [at |-> at, block |-> block]

\* Who sleeps on cv_work_, cv_emit_, cv_not_full_ and cv_not_empty_.
OnWork == Readers
OnEmit == IF producer.at = "pop" THEN {Producer} ELSE {}
OnNotFull == IF producer.at = "push" THEN {Producer} ELSE {}
OnNotEmpty == {Main}

-----------------------------------------------------------------------------
(* striped_reader_worker.                                                  *)

Assignable == next_assign_ < next_emit_ + Window

\* get_work: the next block within the window, or none any more.
GetWork(r) ==
    /\ reader[r].at = "work" /\ r \notin asleep
    /\ \/ /\ error_ \/ next_assign_ > Last
          /\ ReaderGoes(r, "exit", None)
          /\ UNCHANGED <<next_assign_, asleep>>
       \/ /\ ~error_ /\ next_assign_ <= Last /\ Assignable
          /\ ReaderGoes(r, "read", next_assign_)
          /\ next_assign_' = next_assign_ + 1
          /\ UNCHANGED asleep
       \/ /\ ~error_ /\ next_assign_ <= Last /\ ~Assignable
          /\ Sleeps(r)
          /\ UNCHANGED <<next_assign_, reader>>
    /\ UNCHANGED <<next_emit_, completed_, error_, producer, producer_error, queue, main>>

ReadBlock(r) ==
    /\ reader[r].at = "read"
    /\ ReaderGoes(r, "submit", reader[r].block)
    /\ UNCHANGED <<readState, producer, producer_error, queue, main, asleep>>

\* Mutant of FailNotifies: only the producer is told.
FailNotifies_EmitOnly == asleep' = asleep \ OnEmit

\* StripedReadState::fail: the error stays, and everyone it may keep wakes up.
FailNotifies == asleep' = asleep \ (OnWork \cup OnEmit)

ReadFails(r) ==
    /\ Faults
    /\ reader[r].at = "read"
    /\ error_' = TRUE
    /\ FailNotifies
    /\ ReaderGoes(r, "exit", None)
    /\ UNCHANGED <<next_assign_, next_emit_, completed_, producer, producer_error,
                   queue, main>>

\* submit: the block whose turn it is always finds room.  The others do too:
\* what is completed lies in the window, which has a place for each of them, so
\* nobody ever sleeps on cv_space_.
Submittable(b) == Cardinality(completed_) < Window \/ b = next_emit_

Submit(r) ==
    /\ reader[r].at = "submit" /\ r \notin asleep
    /\ \/ /\ error_
          /\ ReaderGoes(r, "work", None)
          /\ UNCHANGED <<completed_, asleep>>
       \/ /\ ~error_ /\ Submittable(reader[r].block)
          /\ completed_' = completed_ \cup {reader[r].block}
          /\ asleep' = asleep \ OnEmit
          /\ ReaderGoes(r, "work", None)
    /\ UNCHANGED <<next_assign_, next_emit_, error_, producer, producer_error, queue, main>>

-----------------------------------------------------------------------------
(* striped_producer_thread.                                                *)

\* Mutant of TakeNext: whatever has been read goes out.
TakeNext_AnyBlock ==
    \E b \in completed_ :
        /\ completed_' = completed_ \ {b}
        /\ next_emit_' = next_emit_ + 1
        /\ asleep' = asleep \ OnWork
        /\ ProducerGoes("push", b)
        /\ UNCHANGED <<error_, producer_error>>

\* The block whose turn it is, and the window moves on by one.
TakeNext ==
    /\ next_emit_ \in completed_
    /\ completed_' = completed_ \ {next_emit_}
    /\ next_emit_' = next_emit_ + 1
    /\ asleep' = asleep \ OnWork
    /\ ProducerGoes("push", next_emit_)
    /\ UNCHANGED <<error_, producer_error>>

\* pop_next, and the handler of what it throws.
PopNext ==
    /\ producer.at = "pop" /\ Producer \notin asleep
    /\ \/ /\ error_
          /\ producer_error' = TRUE
          /\ FailNotifies
          /\ ProducerGoes("join", None)
          /\ UNCHANGED <<next_emit_, completed_, error_>>
       \/ /\ ~error_ /\ next_emit_ > Last
          /\ ProducerGoes("join", None)
          /\ UNCHANGED <<next_emit_, completed_, error_, producer_error, asleep>>
       \/ ~error_ /\ next_emit_ <= Last /\ TakeNext
       \/ /\ ~error_ /\ next_emit_ <= Last /\ next_emit_ \notin completed_
          /\ Sleeps(Producer)
          /\ UNCHANGED <<next_emit_, completed_, error_, producer, producer_error>>
    /\ UNCHANGED <<next_assign_, reader, queue, main>>

\* ChunkQueue::push: waits for room, unless nobody pops any more.
PushChunk ==
    /\ producer.at = "push" /\ Producer \notin asleep
    /\ \/ /\ done_
          /\ ProducerGoes("pop", None)
          /\ UNCHANGED <<chunks_, asleep>>
       \/ /\ ~done_ /\ Len(chunks_) < QueueDepth
          /\ chunks_' = Append(chunks_, producer.block)
          /\ asleep' = asleep \ OnNotEmpty
          /\ ProducerGoes("pop", None)
       \/ /\ ~done_ /\ Len(chunks_) >= QueueDepth
          /\ Sleeps(Producer)
          /\ UNCHANGED <<chunks_, producer>>
    /\ UNCHANGED <<readState, reader, producer_error, done_, main>>

\* The producer joins its readers and ends the queue.
JoinReaders ==
    /\ producer.at = "join"
    /\ \A r \in Readers : reader[r].at = "exit"
    /\ ProducerGoes("end", None)
    /\ done_' = TRUE
    /\ asleep' = asleep \ OnNotEmpty
    /\ UNCHANGED <<readState, reader, producer_error, chunks_, main>>

-----------------------------------------------------------------------------
(* main: ChunkQueue::pop in the feeding loop, and its end.                 *)

PopChunk ==
    /\ feeding = "feed" /\ Main \notin asleep
    /\ \/ /\ chunks_ # <<>>
          /\ popped' = Append(popped, Head(chunks_))
          /\ chunks_' = Tail(chunks_)
          /\ asleep' = asleep \ OnNotFull
          /\ UNCHANGED feeding
       \/ /\ chunks_ = <<>> /\ done_
          /\ feeding' = "join"
          /\ UNCHANGED <<popped, chunks_, asleep>>
       \/ /\ chunks_ = <<>> /\ ~done_
          /\ Sleeps(Main)
          /\ UNCHANGED <<popped, chunks_, feeding>>
    /\ UNCHANGED <<readState, reader, producer, producer_error, done_>>

\* The feeding loop throws: nobody pops any more.
GiveUp ==
    /\ Faults
    /\ feeding = "feed" /\ Main \notin asleep
    /\ feeding' = "given up"
    /\ done_' = TRUE
    /\ asleep' = asleep \ OnNotFull
    /\ UNCHANGED <<readState, reader, producer, producer_error, chunks_, popped>>

\* producer.join: its exception is rethrown, or the last commits follow.
JoinProducer ==
    /\ feeding \in {"join", "given up"}
    /\ producer.at = "end"
    /\ feeding' = IF feeding = "given up" THEN "aborted"
                  ELSE IF producer_error THEN "bad source" ELSE "fed"
    /\ UNCHANGED <<readState, reader, producer, producer_error, queue, popped, asleep>>

StagedEnds == {"fed", "bad source", "aborted"}

ReaderStep(r) == GetWork(r) \/ ReadBlock(r) \/ ReadFails(r) \/ Submit(r)
ProducerStep == PopNext \/ PushChunk \/ JoinReaders
FeedStep == PopChunk \/ GiveUp \/ JoinProducer
StagedNext == (\E r \in Readers : ReaderStep(r)) \/ ProducerStep \/ FeedStep

StagedTypeOK ==
    /\ next_assign_ \in 1..(Last + 1) /\ next_emit_ \in 1..(Last + 1)
    /\ completed_ \subseteq 0..Last /\ error_ \in BOOLEAN
    /\ reader \in [Readers -> [at : {"work", "read", "submit", "exit"}, block : 0..Last]]
    /\ producer \in [at : {"pop", "push", "join", "end"}, block : 0..Last]
    /\ producer_error \in BOOLEAN
    /\ chunks_ \in Seq(0..Last) /\ done_ \in BOOLEAN
    /\ feeding \in {"feed", "join", "given up"} \cup StagedEnds
    /\ popped \in Seq(0..Last)
    /\ asleep \subseteq Readers \cup {Main, Producer}

\* What main commits is the stream: every block once and in its place,
\* whichever reader brought it and however far ahead the readers are; all of
\* it when the source ends without an error.
BlocksInOrder ==
    /\ \A i \in DOMAIN popped : popped[i] = i
    /\ feeding = "fed" => Len(popped) = Last

-----------------------------------------------------------------------------
(* The inductive invariant behind BlocksInOrder, part by part.             *)

Abandoned == feeding \in {"given up", "aborted"}

\* Until main gives up, what it has popped, the queue and the block the
\* producer holds are the blocks emitted so far, in this order.
InLine ==
    ~Abandoned =>
        /\ \A i \in DOMAIN chunks_ : chunks_[i] = Len(popped) + i
        /\ producer.at = "push" =>
              /\ producer.block = Len(popped) + Len(chunks_) + 1
              /\ next_emit_ = producer.block + 1
        /\ producer.at # "push" => next_emit_ = Len(popped) + Len(chunks_) + 1

\* The queue ends behind the last block, or behind an error main will see.
EndOfBlocks ==
    /\ producer.at \in {"join", "end"} /\ ~producer_error => next_emit_ > Last
    /\ done_ /\ ~Abandoned => producer.at = "end"
    /\ feeding \in {"join", "fed", "bad source"} => done_ /\ chunks_ = <<>>
    /\ feeding = "fed" => ~producer_error

\* The blocks reach main in order, for the reasons above: out of order
\* readers, a window that moves with what is emitted, a bounded queue, and a
\* queue that ends early only behind an error.
StagedInv == StagedTypeOK /\ BlocksInOrder /\ InLine /\ EndOfBlocks
=============================================================================
