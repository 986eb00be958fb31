------------------------- MODULE MCPairedConnections -------------------------
(* Instances of PairedConnections for TLC. *)
EXTENDS PairedConnections, TLC

ConnSymmetry == Permutations(Conns)
==============================================================================
