------------------------------ MODULE MCPlayout ------------------------------
(* Small instances of Playout for TLC. *)
EXTENDS Playout, TLC

Symmetry == Permutations(Files)

=============================================================================
