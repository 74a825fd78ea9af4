---------------------- MODULE MCGitSecretController ----------------------
(* Constants for the runs of GitSecretController. *)
EXTENDS GitSecretController, TLC

CONSTANTS a, b, shared, p1, p2

\* One object: two plaintexts, both with and without adopt, and one it cannot
\* unseal.
OneObjectSpecs ==
    {[target |-> None, adopt |-> FALSE, sealed |-> p1],
     [target |-> None, adopt |-> TRUE, sealed |-> p2],
     [target |-> None, adopt |-> FALSE, sealed |-> Unreadable]}

\* Two objects that both want one Secret.
SharedTargetSpecs ==
    {[target |-> shared, adopt |-> adopt, sealed |-> p1] : adopt \in BOOLEAN}

\* Which of the two objects is which makes no difference to them.
Symmetry == Permutations({a, b})

=============================================================================
