--------------------------- MODULE MCDouyinService ---------------------------
(* A small instance of DouyinService for TLC. *)
EXTENDS DouyinService, TLC

MCAuthor   == [k \in Comments |-> CHOOSE r \in Recipients : TRUE]
MCCallers  == Slots \cup {"monitor"}
MCSymmetry == Permutations(Slots)
==============================================================================
