---------------------------- MODULE MCJobProtocol ----------------------------
(* Small instances of JobProtocol for TLC. *)
EXTENDS JobProtocol, TLC

Symmetry == Permutations(Items)

=============================================================================
