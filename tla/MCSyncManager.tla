--------------------------- MODULE MCSyncManager ---------------------------
(* Instances of SyncManager for TLC.                                       *)
EXTENDS SyncManager, TLC

Sym == Permutations(Peer) \cup Permutations(Edu)
=============================================================================
