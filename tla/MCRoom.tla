------------------------------- MODULE MCRoom -------------------------------
(***************************************************************************)
(* Room for TLC.  The bounds are in the .cfg files.                        *)
(***************************************************************************)
EXTENDS Room
=============================================================================
