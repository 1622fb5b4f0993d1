-------------------------- MODULE MCRunLifecycle --------------------------
(* Small instances of RunLifecycle for TLC.                                *)
EXTENDS RunLifecycle, TLC

CONSTANTS r1, r2, w1, w2, c1, c2

\* Run ids are drawn at random, web tasks and workers are interchangeable.
Symmetry == Permutations({r1, r2}) \cup Permutations({w1, w2})

=============================================================================
