-------------------------------- MODULE MC_Feeds --------------------------------
(* What is fetched again and again: the refreshes of the two provider       *)
(* managers of Level 2, what refreshes of the chunks provider do, the       *)
(* placefiles and the lightning.  The models share no state -- a refresh is *)
(* one call in the first, with all its requests in the second -- and are    *)
(* checked in one run: a variable chooses at the start which of them moves, *)
(* the others stay where they began, and only its own fairness counts.      *)
(*                                                                          *)
(* Refreshes: the archive and chunks provider managers with two threads     *)
(* each, so two refreshes of a provider manager at once, and a subscription *)
(* that walks over two of them.  Chunks: four scan numbers, which go round  *)
(* once, with the gap at each of them.                                      *)
EXTENDS RadarRefresh, Level2Chunks, Placefiles, Lightning

CONSTANTS u1, u2, archivePM, chunksPM, main

VARIABLE chosen

MCUuids == {u1, u2}
MCLevel2 == {archivePM, chunksPM}
MCUpServers == {1}

(* A placefile that is not chosen stays in one of its initial states.       *)
PlacefileRests == ~enabled /\ name = "web" /\ radarSite = NoSite /\ updates = 0

MCInit ==
    /\ chosen \in {"refreshes", "chunks", "placefiles", "lightning"}
    /\ Init /\ ChunksInit /\ PlacefilesInit /\ LightningInit
    /\ chosen # "placefiles" => PlacefileRests

RefreshesMove ==
    /\ chosen = "refreshes" /\ Next
    /\ UNCHANGED <<chunkVars, placefileVars, lightningVars>>
ChunksMove ==
    /\ chosen = "chunks" /\ ChunksNext
    /\ UNCHANGED <<vars, placefileVars, lightningVars>>
PlacefilesMove ==
    /\ chosen = "placefiles" /\ PlacefilesNext
    /\ UNCHANGED <<vars, chunkVars, lightningVars>>
LightningMoves ==
    /\ chosen = "lightning" /\ LightningNext
    /\ UNCHANGED <<vars, chunkVars, placefileVars>>

MCNext ==
    UNCHANGED chosen /\ (RefreshesMove \/ ChunksMove \/ PlacefilesMove \/ LightningMoves)

(* Of the refreshes no temporal property is checked here.                   *)
MCFairness ==
    /\ WF_chunkVars(chosen = "chunks" /\ TwoMinutesPass)
    /\ WF_chunkVars(chosen = "chunks" /\ ChunkRefreshStep)
    /\ WF_placefileVars(chosen = "placefiles" /\ PlacefilePoolStep)
    /\ SF_placefileVars(chosen = "placefiles" /\ Destroy)
    /\ WF_placefileVars(chosen = "placefiles" /\ Join)
    /\ WF_lightningVars(chosen = "lightning" /\ WorkerStep)
    /\ WF_lightningVars(chosen = "lightning" /\ StopReturnsStep)

MCSpec ==
    /\ MCInit
    /\ [][MCNext]_<<chosen, vars, chunkVars, placefileVars, lightningVars>>
    /\ MCFairness

(* The types of what the components keep.                                   *)
FeedsTypeOK == TypeOK /\ ChunksTypeOK /\ PlacefilesTypeOK /\ LightningTypeOK

(* The GUI thread, which waits in a destructor for the updates and in Stop  *)
(* for the worker, is let go.                                               *)
GuiThreadIsLetGo == RemovalEnds /\ StopReturns
=============================================================================
