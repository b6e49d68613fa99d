-------------------------- MODULE MCRunnerReplayGuard --------------------------
(* A small instance of RunnerReplayGuard for TLC: more jobs than the guard *)
(* can remember, and time enough for each to be issued, run and forgotten. *)
EXTENDS RunnerReplayGuard, TLC

CONSTANTS j1, j2, j3

Symmetry == Permutations({j1, j2, j3})
==============================================================================
