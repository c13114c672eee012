----------------------------- MODULE MC_Level3View -----------------------------
(* Three times, of which the provider first lists two: the first, which is  *)
(* a day before the last, and the second.                                   *)
EXTENDS Level3View

MCTimes == 1 .. 3
MCPublished == {1, 2}
=============================================================================
