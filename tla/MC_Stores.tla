-------------------------------- MODULE MC_Stores --------------------------------
(* The radar data that is kept: the records of a product and the object     *)
(* cache of a provider.  The models share no state and are checked in one   *)
(* run: a variable chooses at the start which of them moves.                *)
(*                                                                          *)
(* Records: three times against limits of one and two, a loader for each    *)
(* mutex and one view.  Provider: four days, the program running from the   *)
(* third into the last, with two objects on the first; four dates are       *)
(* enough to prune, and then the oldest archived one goes.                  *)
EXTENDS RadarProductCache, NexradDataProvider, TLC

CONSTANTS v1, w1, w2, o1, o2, o3, t1, t2, t3

VARIABLE chosen

MCTimes == {t1, t2, t3}
MCViews == {v1}
MCThreads == {w1, w2}
MCObjects == {o1, o2, o3}
MCLimits == {0, 2}
MCListings == {MCTimes}
MCFiles == {t1}
MCObjectTimes == {0, 1, 2, 4, 6}
MCSymmetry == Permutations(MCThreads) \cup Permutations(MCObjects) \cup Permutations(MCTimes \ MCFiles)

MCInit == chosen \in {"records", "provider"} /\ Init /\ ProviderInit

RecordsMove == chosen = "records" /\ Next /\ UNCHANGED providerVars
ProviderMoves == chosen = "provider" /\ ProviderNext /\ UNCHANGED vars

MCNext == UNCHANGED chosen /\ (RecordsMove \/ ProviderMoves)

MCSpec == MCInit /\ [][MCNext]_<<chosen, vars, providerVars>>

(* The types of what the component that moves keeps.                        *)
StoresTypeOK ==
    /\ chosen = "records" => TypeOK
    /\ chosen = "provider" => ProviderTypeOK
=============================================================================
