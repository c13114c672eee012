------------------------------- MODULE MC_Managers -------------------------------
(* Two components that share no state, checked in one run: a variable       *)
(* chooses at the start which of them moves, the other stays where it       *)
(* began.  A behaviour of this specification is one of the chosen           *)
(* component, with its own fairness.                                        *)
EXTENDS NtpClient, Timeline

VARIABLE chosen

MCMaps == {"m1"}
MCEndTimes == {1}

MCInit == chosen \in {"ntp", "timeline"} /\ NtpInit /\ TimelineInit

NtpMoves == chosen = "ntp" /\ NtpNext /\ UNCHANGED timelineVars
TimelineMoves == chosen = "timeline" /\ TimelineNext /\ UNCHANGED ntpVars

MCNext == UNCHANGED chosen /\ (NtpMoves \/ TimelineMoves)

(* The fairness of the chosen component.                                    *)
MCFairness ==
    /\ WF_ntpVars(chosen = "ntp" /\ RunStep)
    /\ WF_ntpVars(chosen = "ntp" /\ WaitForInitialOffset)
    /\ WF_ntpVars(chosen = "ntp" /\ StopStep)
    /\ SF_timelineVars(chosen = "timeline" /\ PlayThread)
    /\ SF_timelineVars(chosen = "timeline" /\ SelectThread)
    /\ WF_timelineVars(chosen = "timeline" /\ GuiThread)
    /\ WF_timelineVars(chosen = "timeline" /\ AnimationTimerExpires)

MCSpec == MCInit /\ [][MCNext]_<<chosen, ntpVars, timelineVars>> /\ MCFairness

(* The types of what the components keep.                                   *)
ManagersTypeOK == NtpTypeOK /\ TimelineTypeOK
=============================================================================
