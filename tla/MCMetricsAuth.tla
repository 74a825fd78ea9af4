---------------------------- MODULE MCMetricsAuth ----------------------------
(* Constants for the runs of MetricsAuth. *)
EXTENDS MetricsAuth, TLC

CONSTANTS prometheus, curl, s, t

Symmetry == Permutations({prometheus, curl}) \cup Permutations({s, t})

=============================================================================
