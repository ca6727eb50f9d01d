---------------------------- MODULE StripeBlocks ----------------------------
(***************************************************************************)
(* A striped stream as xdma_stream_ring_fast.cpp sees it once              *)
(* load_stripe_manifest has read it: a list of blocks in stream order,     *)
(* which reader_threads threads read from the disks.                       *)
(***************************************************************************)
EXTENDS Integers, Sequences, FiniteSets

CONSTANTS Blocks,   \* stripe_blocks: the packets of each block, in order of block_id
          Readers,  \* the reader threads
          Window,   \* reader_window_blocks
          Faults    \* reads, H2C writes and DDR reads may fail, the feeding thread give up

ASSUME StripeAssumption ==
    /\ Blocks \in Seq(Nat \ {0})
    /\ Readers # {}
    /\ Window \in Nat \ {0}
    /\ Faults \in BOOLEAN

\* The other threads, which wait for each other and for the readers.
Main == "main"
Producer == "producer"
ASSUME ThreadAssumption == Readers \cap {Main, Producer} = {}

\* No block.
None == 0
Last == Len(Blocks)
=============================================================================
