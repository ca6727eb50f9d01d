-------------------------- MODULE MCXdmaStreamRing --------------------------
(***************************************************************************)
(* The stream files of the run: a ring that is full before the prefill is  *)
(* reached, records that end at and run over the wrap, a single record, an *)
(* empty file, one that is cut short, one that its manifest contradicts and*)
(* a record larger than the ring.                                          *)
(***************************************************************************)
EXTENDS XdmaStreamRing

File(ends, isWhole, packets) == [records |-> ends, whole |-> isWhole, manifest |-> packets]

MCStreams == {File(<<2, 5, 8, 11>>, TRUE, 4), File(<<3, 5, 7>>, TRUE, 0), File(<<1>>, TRUE, 1),
              File(<<>>, TRUE, 0), File(<<2>>, FALSE, 2), File(<<2, 4>>, TRUE, 3),
              File(<<1, 6>>, TRUE, 2)}
=============================================================================
