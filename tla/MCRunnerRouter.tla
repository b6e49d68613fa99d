---------------------------- MODULE MCRunnerRouter ----------------------------
(* Small instances of RunnerRouter for TLC. *)
EXTENDS RunnerRouter, TLC

CONSTANTS r1, r2, c1, c2, c3, j1, j2, j3, t1, t2, d1, d2

\* Two runners that share no device and differ in what they may do.
MCBindingOf == (r1 :> [device |-> d1, caps |-> {t1, t2}]) @@ (r2 :> [device |-> d2, caps |-> {t1}])

\* One runner, one device.
MCBindingOf1 == r1 :> [device |-> d1, caps |-> {t1}]

Symmetry == Permutations({c1, c2, c3}) \cup Permutations({j1, j2, j3})
==============================================================================
