----------------------------- MODULE MCDmEngine -----------------------------
(***************************************************************************)
(* Small instances of DmEngine: a list of two, a second list that shares   *)
(* one entry with it, and replies to two messages.                         *)
(***************************************************************************)
EXTENDS DmEngine

CONSTANTS k1, k2, k3, k4

MCPlans ==
    {[mode |-> "outbound", recipients |-> <<k1, k2>>, max |-> 1],
     [mode |-> "outbound", recipients |-> <<k2, k1>>, max |-> 2],
     [mode |-> "reply", recipients |-> <<>>, max |-> 2]}
=============================================================================
