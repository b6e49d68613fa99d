--------------------------- MODULE MCMarketInstall ---------------------------
(* Small instance of MarketInstall: two sources, each with one item.       *)
EXTENDS MarketInstall, TLC

CONSTANTS s1, s2, i1, i2, p1, t1, t2, r1, r2

MCSourceOf == i1 :> s1 @@ i2 :> s2
MCPackageOf == i1 :> p1 @@ i2 :> p1

Symmetric == Permutations({t1, t2}) \cup Permutations({r1, r2})
=============================================================================
