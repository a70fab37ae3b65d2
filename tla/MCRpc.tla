------------------------------- MODULE MCRpc -------------------------------
(* Rpc for TLC.                                                              *)
EXTENDS Rpc
MCServerInfos == {"empty", "new"}
=============================================================================
