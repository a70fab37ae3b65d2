--------------------------- MODULE MCNegotiation ---------------------------
(* Instances of Negotiation for TLC. *)
EXTENDS Negotiation

CONSTANTS c1, t1, t2, i1

MCCallers == {c1}
MCTasks == {t1, t2}
MCCandidates == {i1}
=============================================================================
