-------------------------------- MODULE MC_Maps --------------------------------
(* What the maps show: the site and product of a map, a Level 2 view, and   *)
(* the text events with the layers that draw them.  The models share no     *)
(* state and are checked in one run: a variable chooses at the start which  *)
(* of them moves, the others stay where they began.                         *)
(*                                                                          *)
(* Map: two sites, which have one tilt, of the second of the two products   *)
(* of a category; the other is chosen in its absence.  Level 2: two volumes *)
(* of a low and a high cut; in the second the low one is scanned again.  The *)
(* first is out of reach of the latest.  Text: messages of one event, two   *)
(* of the past, on days that a selection of day 1 loads and of which one of *)
(* day 3 keeps the second, and one of the running hour, which the feed      *)
(* brings and an archive may bring too.                                     *)
EXTENDS MapWidget, Level2View, AlertLayer, TLC

CONSTANTS s1, s2

VARIABLE chosen

MCSites == {s1, s2}
MCSymmetry == Permutations(MCSites)
MCCategories == {"velocity"}
MCCatalogue == [c \in MCCategories |-> <<"V", "S">>]
MCTiltsOf == [p \in {"V", "S"} |-> IF p = "V" THEN <<"V0">> ELSE <<"S0">>]
MCOffers == {{"S0"}}

MCVolumes == {2, 5}
MCScansOf ==
    [v \in MCVolumes |->
        {[cut |-> 1, time |-> v], [cut |-> 3, time |-> v + 1]}
          \cup {[cut |-> 1, time |-> w + 2] : w \in {5} \cap {v}}]
MCArchived == {2}
MCVolumeTimes == {5}
MCElevations == {1, 2}

MCMessages == {"past", "recent", "current"}
MCEventOf == [m \in MCMessages |-> "warning"]
MCHourOf == [m \in MCMessages |-> CASE m = "past" -> 0 [] m = "recent" -> 4 [] m = "current" -> 8]
MCSelectDays == {1, 3}

(* A view that is not chosen stays in one of its initial states.            *)
Level2Rests == wanted = [time |-> Epoch, elevation |-> 1]

MCInit ==
    /\ chosen \in {"map", "level2", "text"}
    /\ MapInit /\ Level2Init /\ AlertInit
    /\ chosen # "level2" => Level2Rests

MapMoves == chosen = "map" /\ MapNext /\ UNCHANGED <<level2Vars, alertVars>>
Level2Moves == chosen = "level2" /\ Level2Next /\ UNCHANGED <<mapVars, alertVars>>
TextMoves == chosen = "text" /\ AlertNext /\ UNCHANGED <<mapVars, level2Vars>>

MCNext == UNCHANGED chosen /\ (MapMoves \/ Level2Moves \/ TextMoves)

MCSpec == MCInit /\ [][MCNext]_<<chosen, mapVars, level2Vars, alertVars>>

(* The types of what the component that moves keeps.                        *)
MapsTypeOK ==
    /\ chosen = "map" => MapTypeOK
    /\ chosen = "level2" => Level2TypeOK
    /\ chosen = "text" => AlertTypeOK
=============================================================================
