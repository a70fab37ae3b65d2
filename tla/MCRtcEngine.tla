---------------------------- MODULE MCRtcEngine ----------------------------
(***************************************************************************)
(* RtcEngine for TLC.  The bounds are in the .cfg files.                   *)
(***************************************************************************)
EXTENDS RtcEngine
=============================================================================
