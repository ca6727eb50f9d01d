----------------------------- MODULE MCTraceFiles -----------------------------
(***************************************************************************)
(* The sources of the run: time stamps whose ticks are ties and that run   *)
(* backwards, snapped, short and oversized frames, a generated capture, a  *)
(* rate that is no whole number of ticks, a fixed gap, an empty capture.   *)
(***************************************************************************)
EXTENDS TraceFiles

Frame(ts, incl, orig) == [ts |-> ts, incl |-> incl, orig |-> orig]
Pcap(packets, keep) == [kind |-> "pcap", packets |-> packets, keep_fcs |-> keep]
Synthetic(count, len, gap_ns, gap_ticks) ==
    [kind |-> "synthetic", packets |-> <<>>, keep_fcs |-> FALSE,
     count |-> count, len |-> len, gap_ns |-> gap_ns, gap_ticks |-> gap_ticks]

MCSources ==
    << {Pcap(<<Frame(100, 5, 5), Frame(105, 2, 9), Frame(108, 6, 6)>>, FALSE),
        Pcap(<<Frame(100, 9, 4), Frame(93, 1, 1), Frame(104, 4, 4), Frame(101, 12, 12)>>, TRUE),
        Pcap(<<Frame(0, 9, 4), Frame(1, 40, 40)>>, FALSE),
        [kind |-> "rate", count |-> 3, len |-> 6, num |-> 3, den |-> 20],
        Synthetic(3, 4, 5, 9),
        Pcap(<<>>, FALSE)},
       {[kind |-> "gap", count |-> 2, len |-> 5, gap |-> 4], Synthetic(2, 3, NoOverride, 2)} >>

MCOverrides == {NoOverride, 7}
=============================================================================
