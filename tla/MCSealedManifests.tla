-------------------------- MODULE MCSealedManifests --------------------------
(* Constants for the runs of SealedManifests. *)
EXTENDS SealedManifests, TLC

CONSTANTS db, api, alice, vault, safe

\* The two recovery recipients are interchangeable.
RecoverySymmetry == Permutations({vault, safe})

=============================================================================
