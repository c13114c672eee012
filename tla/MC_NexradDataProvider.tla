------------------------- MODULE MC_NexradDataProvider -------------------------
(* Four days, the program running from the third into the last, with two    *)
(* objects on the first; four dates are enough to prune, and then the       *)
(* oldest archived one goes.                                                *)
EXTENDS NexradDataProvider, TLC

CONSTANTS w1, w2

MCThreads == {w1, w2}
MCObjectTimes == {0, 1, 2, 4, 6}
MCSymmetry == Permutations(MCThreads)
=============================================================================
