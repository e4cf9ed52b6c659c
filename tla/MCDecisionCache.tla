--------------------------- MODULE MCDecisionCache ---------------------------
(* Four keys compete for a cache of two entries, over five instants with a *)
(* TTL of two: entries are overwritten, refreshed, evicted and expire.     *)
EXTENDS DecisionCache, TLC

MCInstants == 0..4

MCSymmetry == Permutations(Keys)
=============================================================================
