--------------------------- MODULE MCRemoteTracks ---------------------------
(* RemoteTracks for TLC: two publishers, two tasks that call subscribe().   *)
EXTENDS RemoteTracks

CONSTANTS s1, s2, k1, k2

MCSubscribers == {s1, s2}
MCTracks == {k1, k2}
=============================================================================
