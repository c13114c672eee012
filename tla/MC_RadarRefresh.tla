---------------------------- MODULE MC_RadarRefresh ----------------------------
(* Two subscribers, one provider manager of Level 2, one Level 3 product    *)
(* and one worker thread.                                                   *)
EXTENDS RadarRefresh

CONSTANTS u1, u2, archive, n0b, main, w1

MCUuids == {u1, u2}
MCLevel2 == {archive}
MCLevel3 == {n0b}
MCWorkers == {w1}
=============================================================================
