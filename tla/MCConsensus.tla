----------------------------- MODULE MCConsensus -----------------------------
(* Instances of Consensus for TLC.                                          *)
EXTENDS Consensus, TLC

CONSTANTS n1, n2, n3, n4

=============================================================================
