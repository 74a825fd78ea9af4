--------------------------- MODULE MCKeyRotation ---------------------------
(* Constants for the runs of KeyRotation. *)
EXTENDS KeyRotation, TLC

CONSTANTS p, q, f, g, m, me, ana, raj

FileSymmetry == Permutations({f, g})

=============================================================================
