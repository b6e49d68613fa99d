-------------------------- MODULE MCRunnerEnrollment --------------------------
(* Small instances of RunnerEnrollment for TLC.  There is a token for every *)
(* request, so that tokens never run out.                                   *)
EXTENDS RunnerEnrollment, TLC

CONSTANTS a, b, k1, k2, t1, t2, t3, t4

\* Two installers that were given the same code.
SameCode == (a :> k1) @@ (b :> k1)

\* One code for each.
OwnCode == (a :> k1) @@ (b :> k2)

Symmetry == Permutations({t1, t2, t3, t4})
==============================================================================
