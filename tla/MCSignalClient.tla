--------------------------- MODULE MCSignalClient ---------------------------
(***************************************************************************)
(* SignalClient for TLC.  The bounds are in the .cfg files.                *)
(***************************************************************************)
EXTENDS SignalClient
=============================================================================
