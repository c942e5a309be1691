----------------------------- MODULE MCPtaDriver -----------------------------
(* PtaDriver for TLC. *)
EXTENDS PtaDriver, TLC

Symmetry == Permutations(Addrs)

=============================================================================
