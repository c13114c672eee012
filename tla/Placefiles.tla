------------------------------- MODULE Placefiles -------------------------------
(***************************************************************************)
(* PlacefileManager: one placefile, which is downloaded when it is enabled, *)
(* when it is renamed and when the radar site changes, again after some     *)
(* time if it asks for that, and again after a failure.                     *)
(*                                                                          *)
(* The GUI thread changes the record; the one thread of the record's pool   *)
(* updates it, under refreshMutex_, which the GUI thread takes only to      *)
(* destroy the record.  A refresh is armed by both.  Placefiles do not      *)
(* touch each other.  Lengths of waits, titles, fonts and images, and the   *)
(* settings file are left out.                                              *)
(***************************************************************************)
EXTENDS Integers

CONSTANTS
    Urls,        \* the names the placefile may have
    LocalFiles,  \* those of files, for which no radar site is needed
    RadarSites,  \* the sites the user may select
    NoSite,      \* before a site is selected, and before an update
    MaxUpdates   \* bound: calls of Update waiting in the pool

ASSUME PlacefilesAssumption ==
    /\ LocalFiles \subseteq Urls
    /\ NoSite \notin RadarSites
    /\ MaxUpdates \in Nat \ {0}

VARIABLES
    enabled,        \* enabled_
    name,           \* name_
    placefile,      \* placefile_
    lastRadarSite,  \* lastRadarSite_
    radarSite,      \* the manager's radarSite_
    refreshTimer,   \* a wait is pending on refreshTimer_
    updates,        \* number of calls of Update waiting in threadPool_
    update,         \* where the pool's thread is
    gui,            \* where the GUI thread is
    overtaken       \* history: a change was not followed by an update to its end

record == <<enabled, name, placefile, lastRadarSite>>
placefileVars == <<record, radarSite, refreshTimer, updates, update, gui, overtaken>>

(* A placefile: its name, the site it was asked for, and whether it asks to *)
(* be refreshed.                                                            *)
NoPlacefile == [name |-> "", site |-> NoSite, refresh |-> FALSE]
LoadedPlacefiles == [name : Urls, site : RadarSites \cup {NoSite}, refresh : BOOLEAN]

(* Where a thread is: "download" with a copy of the name, "compare" and     *)
(* "install" with the new placefile, "schedule" before ScheduleRefresh and  *)
(* "arm" before the timer is set, "failed" without a placefile, "threw" at  *)
(* rest after an update whose exception was caught; the GUI thread also     *)
(* within set_placefile_enabled, and in the destructor.                     *)
NoUpdate == [at |-> "idle"]
UpdateStates ==
    {NoUpdate} \cup [at : {"download"}, name : Urls, site : RadarSites \cup {NoSite}]
           \cup [at : {"compare", "install"}, new : LoadedPlacefiles]
           \cup [at : {"schedule", "arm", "failed", "threw"}]

PlacefilesTypeOK ==
    /\ enabled \in BOOLEAN
    /\ name \in Urls
    /\ placefile \in LoadedPlacefiles \cup {NoPlacefile}
    /\ lastRadarSite \in RadarSites \cup {NoSite}
    /\ radarSite \in RadarSites \cup {NoSite}
    /\ refreshTimer \in BOOLEAN
    /\ updates \in 0 .. MaxUpdates
    /\ update \in UpdateStates
    /\ gui \in {"idle", "enabling", "schedule", "arm", "disabling", "destroy", "join", "gone"}
    /\ overtaken \in BOOLEAN

(* AddUrl has queued an update if the placefile is enabled, or if its title *)
(* is not known.                                                            *)
PlacefilesInit ==
    /\ enabled \in BOOLEAN
    /\ name \in Urls
    /\ placefile = NoPlacefile
    /\ lastRadarSite = NoSite
    /\ radarSite \in RadarSites \cup {NoSite}
    /\ refreshTimer = FALSE
    /\ updates \in IF enabled THEN {1} ELSE {0, 1}
    /\ update = NoUpdate
    /\ gui = "idle"
    /\ overtaken = FALSE

(* An update is waited for or under way; the placefile is the one named, at *)
(* the radar site, and marked as such.                                      *)
UnderWay == update.at \notin {"idle", "threw"}
Updating == refreshTimer \/ updates > 0 \/ UnderWay
Current ==
    /\ placefile # NoPlacefile /\ placefile.name = name
    /\ placefile.site = radarSite /\ lastRadarSite = radarSite

UpdateAsync == updates < MaxUpdates /\ updates' = updates + 1

----------------------------------------------------------------------------
(* The user, on the GUI thread                                              *)

GuiGoes(from, to) == gui = from /\ gui' = to

(* set_placefile_enabled, up to the unlock, and what follows.               *)
EnablePlacefile ==
    /\ GuiGoes("idle", "enabling")
    /\ ~enabled /\ enabled' = TRUE
    /\ UNCHANGED <<name, placefile, lastRadarSite, radarSite, refreshTimer, updates,
                   update, overtaken>>

DisablePlacefile ==
    /\ GuiGoes("idle", "disabling")
    /\ enabled /\ enabled' = FALSE
    /\ overtaken' = (overtaken \/ (Updating /\ ~Current))
    /\ UNCHANGED <<name, placefile, lastRadarSite, radarSite, refreshTimer, updates, update>>

(* If the radar site has changed, update now; otherwise schedule.           *)
UpdateOrSchedule ==
    /\ IF radarSite # NoSite /\ lastRadarSite # radarSite
       THEN GuiGoes("enabling", "idle") /\ UpdateAsync
       ELSE GuiGoes("enabling", "schedule") /\ UNCHANGED updates
    /\ UNCHANGED <<record, radarSite, refreshTimer, update, overtaken>>

CancelRefresh ==
    /\ GuiGoes("disabling", "idle")
    /\ refreshTimer' = FALSE
    /\ UNCHANGED <<record, radarSite, updates, update, overtaken>>

(* set_placefile_url                                                        *)
Rename(url) ==
    /\ GuiGoes("idle", "idle")
    /\ url # name
    /\ name' = url
    /\ placefile' = NoPlacefile
    /\ UpdateAsync
    /\ UNCHANGED <<enabled, lastRadarSite, radarSite, refreshTimer, update, overtaken>>

(* SetRadarSite updates enabled placefiles.  One that is disabled is        *)
(* updated when it is enabled, unless an update under way takes it to be of *)
(* this site.                                                               *)
SetRadarSite(site) ==
    /\ GuiGoes("idle", "idle")
    /\ site # radarSite
    /\ radarSite' = site
    /\ IF enabled THEN UpdateAsync ELSE UNCHANGED updates
    /\ overtaken' = (overtaken \/ (~enabled /\ UnderWay))
    /\ UNCHANGED <<record, refreshTimer, update>>

Refresh ==
    /\ GuiGoes("idle", "idle")
    /\ UpdateAsync
    /\ UNCHANGED <<record, radarSite, refreshTimer, update, overtaken>>

----------------------------------------------------------------------------
(* ScheduleRefresh, by the GUI thread or the pool                           *)

MaySchedule == enabled /\ placefile.refresh

ScheduleByGui ==
    /\ GuiGoes("schedule", IF MaySchedule THEN "arm" ELSE "idle")
    /\ UNCHANGED <<record, radarSite, refreshTimer, updates, update, overtaken>>

ArmByGui ==
    /\ GuiGoes("arm", "idle")
    /\ refreshTimer' = TRUE
    /\ UNCHANGED <<record, radarSite, updates, update, overtaken>>

ScheduleByUpdate ==
    /\ update.at = "schedule"
    /\ update' = IF MaySchedule THEN [at |-> "arm"] ELSE NoUpdate
    /\ UNCHANGED <<record, radarSite, refreshTimer, updates, gui, overtaken>>

(* Also after a failure, then without timerMutex_.                          *)
ArmByUpdate ==
    /\ update.at = "arm"
    /\ refreshTimer' = TRUE
    /\ update' = NoUpdate
    /\ UNCHANGED <<record, radarSite, updates, gui, overtaken>>

(* The handler queues an update; cancel() no longer reaches it.             *)
RefreshTimerExpires ==
    /\ refreshTimer
    /\ refreshTimer' = FALSE
    /\ UpdateAsync
    /\ UNCHANGED <<record, radarSite, update, gui, overtaken>>

----------------------------------------------------------------------------
(* Update                                                                   *)

(* A copy of the name; without a radar site, only a file can be loaded.     *)
BeginUpdate ==
    /\ ~UnderWay /\ updates > 0
    /\ updates' = updates - 1
    /\ update' = IF name \in LocalFiles \/ radarSite # NoSite
                 THEN [at |-> "download", name |-> name, site |-> radarSite]
                 ELSE NoUpdate
    /\ UNCHANGED <<record, radarSite, refreshTimer, gui, overtaken>>

DownloadSucceeds(refresh) ==
    /\ update.at = "download"
    /\ update' = [at |-> "compare",
                  new |-> [name |-> update.name, site |-> update.site, refresh |-> refresh]]
    /\ UNCHANGED <<record, radarSite, refreshTimer, updates, gui, overtaken>>

(* The file or the site is not there, or the download is cancelled because  *)
(* the placefile is disabled.                                               *)
DownloadFails ==
    /\ update.at = "download"
    /\ update' = [at |-> "failed"]
    /\ UNCHANGED <<record, radarSite, refreshTimer, updates, gui, overtaken>>

(* The request, the file, or its fonts and images: an exception, which      *)
(* UpdateAsync catches, and nothing is scheduled.                           *)
UpdateThrows ==
    /\ update.at = "download"
    /\ update' = [at |-> "threw"]
    /\ UNCHANGED <<record, radarSite, refreshTimer, updates, gui, overtaken>>

(* Mutant of Failed: only a placefile that was loaded is tried again.       *)
FailedOnce ==
    /\ update.at = "failed"
    /\ update' = IF MaySchedule THEN [at |-> "arm"] ELSE NoUpdate
    /\ overtaken' = (overtaken \/ ~enabled)
    /\ UNCHANGED <<record, radarSite, refreshTimer, updates, gui>>

(* Mutant of Failed: one that was disabled meanwhile is tried again, too.   *)
FailedAgain ==
    /\ update.at = "failed"
    /\ update' = [at |-> "arm"]
    /\ overtaken' = (overtaken \/ ~enabled)
    /\ UNCHANGED <<record, radarSite, refreshTimer, updates, gui>>

(* A placefile that is enabled is tried again.                              *)
Failed ==
    /\ update.at = "failed"
    /\ update' = IF enabled THEN [at |-> "arm"] ELSE NoUpdate
    /\ overtaken' = (overtaken \/ ~enabled)
    /\ UNCHANGED <<record, radarSite, refreshTimer, updates, gui>>

(* The name may have changed meanwhile -- or change after it was compared.  *)
CompareName ==
    /\ update.at = "compare"
    /\ update' = IF name = update.new.name THEN [at |-> "install", new |-> update.new]
                 ELSE [at |-> "schedule"]
    /\ UNCHANGED <<record, radarSite, refreshTimer, updates, gui, overtaken>>

InstallPlacefile ==
    /\ update.at = "install"
    /\ placefile' = update.new
    /\ lastRadarSite' = IF radarSite # NoSite THEN radarSite ELSE lastRadarSite
    /\ overtaken' = (overtaken /\ ~(update.new.name = name /\ update.new.site = radarSite))
    /\ update' = [at |-> "schedule"]
    /\ UNCHANGED <<enabled, name, radarSite, refreshTimer, updates, gui>>

----------------------------------------------------------------------------
(* RemoveUrl, and the destructor of the record                              *)

RemoveUrl ==
    /\ GuiGoes("idle", "destroy")
    /\ UNCHANGED <<record, radarSite, refreshTimer, updates, update, overtaken>>

(* Mutant of Destroy: an update under way is not waited for.                *)
DestroyAtOnce ==
    /\ GuiGoes("destroy", "join")
    /\ enabled' = FALSE
    /\ refreshTimer' = FALSE
    /\ UNCHANGED <<name, placefile, lastRadarSite, radarSite, updates, update, overtaken>>

(* Both mutexes are held: no update is under way.                           *)
Destroy ==
    /\ ~UnderWay
    /\ GuiGoes("destroy", "join")
    /\ enabled' = FALSE
    /\ refreshTimer' = FALSE
    /\ UNCHANGED <<name, placefile, lastRadarSite, radarSite, updates, update, overtaken>>

(* The pool has run all that was queued; a pending wait holds it up.        *)
Join ==
    /\ ~UnderWay /\ updates = 0 /\ ~refreshTimer
    /\ GuiGoes("join", "gone")
    /\ UNCHANGED <<record, radarSite, refreshTimer, updates, update, overtaken>>

Gone == gui = "gone" /\ UNCHANGED placefileVars

----------------------------------------------------------------------------
GuiStep ==
    \/ UpdateOrSchedule \/ CancelRefresh \/ ScheduleByGui \/ ArmByGui
    \/ Destroy \/ Join

PlacefilePoolStep ==
    \/ BeginUpdate \/ DownloadFails \/ UpdateThrows \/ Failed
    \/ CompareName \/ InstallPlacefile
    \/ ScheduleByUpdate \/ ArmByUpdate
    \/ \E refresh \in BOOLEAN : DownloadSucceeds(refresh)

PlacefilesNext ==
    \/ EnablePlacefile \/ DisablePlacefile \/ Refresh \/ RemoveUrl
    \/ \E url \in Urls : Rename(url)
    \/ \E site \in RadarSites : SetRadarSite(site)
    \/ GuiStep \/ PlacefilePoolStep \/ RefreshTimerExpires
    \/ Gone

(* The pool runs what is posted and a download has time-outs.  The mutex is *)
(* free for the destructor again and again: an update that was not posted   *)
(* by the GUI thread comes from a timer.                                    *)
PlacefilesFairness ==
    /\ WF_placefileVars(PlacefilePoolStep)
    /\ SF_placefileVars(Destroy)
    /\ WF_placefileVars(Join)

PlacefilesSpec == PlacefilesInit /\ [][PlacefilesNext]_placefileVars /\ PlacefilesFairness

----------------------------------------------------------------------------
(* An enabled placefile is what its name stands for at the radar site, or   *)
(* will be updated -- whatever was renamed, disabled, enabled and selected  *)
(* during its downloads.  The exceptions: an update that was cancelled, or  *)
(* overtaken, while the placefile was disabled is made up for only when the *)
(* site it was updated for is another one, and after one that threw nothing *)
(* is scheduled.                                                            *)
EnabledIsUpdated ==
    enabled /\ radarSite # NoSite /\ gui = "idle"
        => Updating \/ (Current /\ ~placefile.refresh) \/ (overtaken /\ lastRadarSite = radarSite)
           \/ update.at = "threw"

(* The destructor waits for no timer: once it has cancelled the refresh, no *)
(* update arms it anew, which would keep the GUI thread waiting.            *)
DestructorWaitsForNoTimer == gui \in {"join", "gone"} => ~refreshTimer

(* Removing a placefile ends: the GUI thread, which waits for its updates,  *)
(* is not held up by retries of a download that fails.                      *)
RemovalEnds == gui = "destroy" ~> gui = "gone"
=============================================================================
