-------------------------- MODULE MCReplayScheduler --------------------------
(***************************************************************************)
(* The settings of the scheduler that the runs use.                        *)
(***************************************************************************)
EXTENDS ReplayScheduler

Local == [sync |-> FALSE, egress |-> FALSE, start_time |-> 0]
LocalFrom2 == [Local EXCEPT !.start_time = 2]
Shared == [Local EXCEPT !.sync = TRUE]
SharedEgress == [Shared EXCEPT !.egress = TRUE]

HeldConfigs == {LocalFrom2, Shared, SharedEgress}
OnTimeConfigs == {Local, [Local EXCEPT !.start_time = 6], Shared}
==============================================================================
