---------------------------- MODULE StripedLoader ---------------------------
(***************************************************************************)
(* The two ways xdma_stream_ring_fast.cpp loads a striped stream, as       *)
(* --staged-stripe chooses: through host memory and main's queue, or       *)
(* straight into the ring.                                                 *)
(***************************************************************************)
EXTENDS StagedStripes, DirectStripes

VARIABLE staged_stripe   \* the option

vars == <<stagedVars, directVars, staged_stripe>>

Init ==
    /\ staged_stripe \in BOOLEAN
    /\ StagedInit
    /\ DirectInit

Staged(A) == staged_stripe /\ A /\ UNCHANGED <<directVars, staged_stripe>>
Direct(A) == ~staged_stripe /\ A /\ UNCHANGED <<stagedVars, staged_stripe>>

Next == Staged(StagedNext) \/ Direct(DirectNext)

Spec == Init /\ [][Next]_vars

\* Threads that are not asleep are scheduled, the poll interval passes, and
\* disks, devices and board answer.  The timeout of wait_done need not strike.
Fairness ==
    /\ \A r \in Readers : WF_vars(Staged(ReaderStep(r))) /\ WF_vars(Direct(WorkerStep(r)))
    /\ WF_vars(Staged(ProducerStep)) /\ WF_vars(Staged(FeedStep))
    /\ WF_vars(Direct(MainStep))
    /\ WF_vars(Direct(DeliverBeat)) /\ WF_vars(Direct(ReaderFinishes))

FairSpec == Spec /\ Fairness

\* However blocks, threads and failures fall, nobody waits for a wakeup that
\* never comes: the loader ends, with the whole stream delivered in order, the
\* reader's error reported, or the failure reported and the board stopped.
LoaderEnds ==
    <>[](IF staged_stripe THEN feeding \in StagedEnds
         ELSE /\ pc = "end"
              /\ outcome # "completed" => state = "idle"
              /\ outcome = "completed" /\ ~error =>
                    got = [k \in 1..(PktBeats * pkt_count) |-> k - 1] /\ next_commit > Last)
=============================================================================
