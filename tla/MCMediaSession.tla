--------------------------- MODULE MCMediaSession ---------------------------
(* Small instances of MediaSession.                                        *)
EXTENDS MediaSession, TLC

Symmetry == Permutations(Threads) \cup Permutations(Addresses)
=============================================================================
