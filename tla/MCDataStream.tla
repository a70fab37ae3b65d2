---------------------------- MODULE MCDataStream ----------------------------
(* DataStream for TLC.                                                       *)
EXTENDS DataStream
MCTotals == {NoTotal, 0, 2}
=============================================================================
