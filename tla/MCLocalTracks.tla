---------------------------- MODULE MCLocalTracks ----------------------------
(* LocalTracks for TLC.                                                      *)
EXTENDS LocalTracks
=============================================================================
