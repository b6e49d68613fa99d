----------------------------- MODULE MCRunnerLink -----------------------------
(* Small instances of RunnerLink for TLC: one runner, its gateway, and the *)
(* sockets between them.                                                   *)
EXTENDS RunnerLink, TLC

CONSTANTS r1, c1, c2, c3, j1, j2, t1, d1

MCBindingOf == r1 :> [device |-> d1, caps |-> {t1}]

Symmetry == Permutations({c1, c2}) \cup Permutations({j1, j2})
==============================================================================
