------------------------------ MODULE MCStreams ------------------------------
(* Streams for TLC. *)
EXTENDS Streams, TLC

CONSTANTS s1, s2, nb

Symmetry == Permutations({s1, s2})

=============================================================================
