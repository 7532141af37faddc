------------------------------ MODULE MCWsServer ------------------------------
(***************************************************************************)
(* Small instances of WsServer.                                            *)
(***************************************************************************)
EXTENDS WsServer, FiniteSets, TLC

UniqueIds == [s \in Sessions |-> s]

SessionSymmetry == Permutations(Sessions)
ServerSymmetry == Permutations(Sessions) \cup Permutations(Broadcasters)
===============================================================================
