----------------------------- MODULE MCGitHooks -----------------------------
(* Constants for the runs of GitHooks. *)
EXTENDS GitHooks

CONSTANTS f, m, k, t, u, main, topic

\* The file alone is protected, or the manifest too.
Protecting(patterns, k8s) == [patterns |-> patterns, k8s |-> k8s, backend |-> "file"]
JustFile == {Protecting({f}, {})}
FileThenBoth == {Protecting({f}, {}), Protecting({f}, {m})}

=============================================================================
