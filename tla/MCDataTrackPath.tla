--------------------------- MODULE MCDataTrackPath ---------------------------
(* DataTrackPath for TLC.                                                    *)
EXTENDS DataTrackPath
MCSizes == {0, 1, 2, 3}
MCPartialLimits == {1, 2}
=============================================================================
