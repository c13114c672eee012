----------------------------- MODULE Feeds_proofs ------------------------------
(*****************************************************************************)
(* Theorems about what is fetched again and again.                           *)
(*****************************************************************************)
EXTENDS MC_Feeds, RadarRefresh_proofs, Lists_proofs

----------------------------------------------------------------------------
(*****************************************************************************)
(* Placefiles, for every set of names and radar sites and any number of      *)
(* updates that wait.                                                        *)
(*****************************************************************************)

(* The actions of PlacefilesNext, for proofs by cases.                      *)
LEMMA PlacefilesNextCases ==
    ASSUME [PlacefilesNext]_placefileVars
    PROVE  \/ EnablePlacefile \/ DisablePlacefile \/ UpdateOrSchedule \/ CancelRefresh
           \/ (\E url \in Urls : Rename(url))
           \/ (\E site \in RadarSites : SetRadarSite(site))
           \/ Refresh \/ ScheduleByGui \/ ArmByGui \/ ScheduleByUpdate \/ ArmByUpdate
           \/ RefreshTimerExpires
           \/ BeginUpdate \/ (\E refresh \in BOOLEAN : DownloadSucceeds(refresh))
           \/ DownloadFails \/ UpdateThrows \/ Failed \/ CompareName \/ InstallPlacefile
           \/ RemoveUrl \/ Destroy \/ Join
           \/ UNCHANGED placefileVars
BY DEF PlacefilesNext, GuiStep, PlacefilePoolStep, Gone

----------------------------------------------------------------------------
(* Types                                                                    *)

LEMMA PlacefilesTypeOKInit == PlacefilesInit => PlacefilesTypeOK
<1> SUFFICES ASSUME PlacefilesInit
             PROVE  PlacefilesTypeOK
  OBVIOUS
<1>1. updates \in 0 .. MaxUpdates
  BY PlacefilesAssumption DEF PlacefilesInit
<1>2. update \in UpdateStates
  BY DEF PlacefilesInit, UpdateStates
<1> QED
  BY <1>1, <1>2 DEF PlacefilesInit, PlacefilesTypeOK

(* What an update under way holds.                                          *)
LEMMA UpdateTypes ==
    ASSUME PlacefilesTypeOK
    PROVE  /\ update.at \in {"idle", "download", "compare", "install", "schedule", "arm",
                             "failed", "threw"}
           /\ update.at = "download" =>
                 update = [at |-> "download", name |-> update.name, site |-> update.site]
                 /\ update.name \in Urls /\ update.site \in RadarSites \cup {NoSite}
           /\ update.at \in {"compare", "install"} =>
                 update = [at |-> update.at, new |-> update.new]
                 /\ update.new \in LoadedPlacefiles
           /\ update.at = "idle" => update = NoUpdate
<1>1. CASE update \in {NoUpdate}
  BY <1>1 DEF NoUpdate
<1>2. CASE update \in [at : {"download"}, name : Urls, site : RadarSites \cup {NoSite}]
  BY <1>2
<1>3. CASE update \in [at : {"compare", "install"}, new : LoadedPlacefiles]
  BY <1>3
<1>4. CASE update \in [at : {"schedule", "arm", "failed", "threw"}]
  BY <1>4
<1> QED
  BY <1>1, <1>2, <1>3, <1>4 DEF PlacefilesTypeOK, UpdateStates

LEMMA UpdateAsyncType ==
    ASSUME PlacefilesTypeOK, UpdateAsync
    PROVE  updates' \in 0 .. MaxUpdates /\ updates' = updates + 1 /\ updates' > 0
BY PlacefilesAssumption DEF PlacefilesTypeOK, UpdateAsync

LEMMA PlacefilesTypeOKInductive ==
    ASSUME PlacefilesTypeOK, [PlacefilesNext]_placefileVars
    PROVE  PlacefilesTypeOK'
<1> USE DEF PlacefilesTypeOK, record, GuiGoes
<1>1. CASE EnablePlacefile \/ DisablePlacefile
  BY <1>1 DEF EnablePlacefile, DisablePlacefile, Updating, Current
<1>2. CASE UpdateOrSchedule \/ CancelRefresh \/ Refresh
  BY <1>2, UpdateAsyncType DEF UpdateOrSchedule, CancelRefresh, Refresh
<1>3. ASSUME NEW url \in Urls, Rename(url)
      PROVE  PlacefilesTypeOK'
  BY <1>3, UpdateAsyncType DEF Rename
<1>4. ASSUME NEW site \in RadarSites, SetRadarSite(site)
      PROVE  PlacefilesTypeOK'
  BY <1>4, UpdateAsyncType DEF SetRadarSite
<1>5. CASE ScheduleByGui \/ ArmByGui \/ RefreshTimerExpires
  BY <1>5, UpdateAsyncType DEF ScheduleByGui, ArmByGui, RefreshTimerExpires
<1>6. CASE ScheduleByUpdate \/ ArmByUpdate \/ DownloadFails \/ UpdateThrows \/ Failed
  <2>1. update' \in UpdateStates
    BY <1>6
    DEF ScheduleByUpdate, ArmByUpdate, DownloadFails, UpdateThrows, Failed, UpdateStates, NoUpdate
  <2> QED
    BY <1>6, <2>1 DEF ScheduleByUpdate, ArmByUpdate, DownloadFails, UpdateThrows, Failed
<1>7. CASE BeginUpdate
  <2>1. update' \in UpdateStates
    BY <1>7 DEF BeginUpdate, UpdateStates
  <2>2. updates' \in 0 .. MaxUpdates
    BY <1>7, PlacefilesAssumption DEF BeginUpdate
  <2> QED
    BY <1>7, <2>1, <2>2 DEF BeginUpdate
<1>8. ASSUME NEW refresh \in BOOLEAN, DownloadSucceeds(refresh)
      PROVE  PlacefilesTypeOK'
  <2>1. [name |-> update.name, site |-> update.site, refresh |-> refresh] \in LoadedPlacefiles
    BY <1>8, UpdateTypes DEF DownloadSucceeds, LoadedPlacefiles
  <2>2. update' \in UpdateStates
    BY <1>8, <2>1 DEF DownloadSucceeds, UpdateStates
  <2> QED
    BY <1>8, <2>2 DEF DownloadSucceeds
<1>9. CASE CompareName
  <2>1. update' = [at |-> "schedule"] \/ update' = [at |-> "install", new |-> update.new]
    BY <1>9, UpdateTypes DEF CompareName
  <2>2. update.new \in LoadedPlacefiles
    BY <1>9, UpdateTypes DEF CompareName
  <2>3. update' \in UpdateStates
    BY <2>1, <2>2 DEF UpdateStates
  <2> QED
    BY <1>9, <2>3 DEF CompareName
<1>10. CASE InstallPlacefile
  <2>1. update.new \in LoadedPlacefiles
    BY <1>10, UpdateTypes DEF InstallPlacefile
  <2>2. update' \in UpdateStates
    BY <1>10 DEF InstallPlacefile, UpdateStates
  <2> QED
    BY <1>10, <2>1, <2>2 DEF InstallPlacefile
<1>11. CASE RemoveUrl \/ Destroy \/ Join
  BY <1>11 DEF RemoveUrl, Destroy, Join
<1>12. CASE UNCHANGED placefileVars
  BY <1>12 DEF placefileVars
<1> QED
  BY <1>1, <1>2, <1>3, <1>4, <1>5, <1>6, <1>7, <1>8, <1>9, <1>10, <1>11, <1>12,
     PlacefilesNextCases

(* The record, its timer and its updates keep their types.                  *)
THEOREM PlacefilesTypes == PlacefilesSpec => []PlacefilesTypeOK
<1>1. PlacefilesInit => PlacefilesTypeOK
  BY PlacefilesTypeOKInit
<1>2. PlacefilesTypeOK /\ [PlacefilesNext]_placefileVars => PlacefilesTypeOK'
  BY PlacefilesTypeOKInductive
<1> QED
  BY <1>1, <1>2, PTL DEF PlacefilesSpec

----------------------------------------------------------------------------
(* The destructor waits for no timer                                        *)

(* Once the destructor has the mutex, the record is disabled and nothing is *)
(* about to arm a timer.                                                    *)
DestroyedIsQuiet ==
    gui \in {"join", "gone"} => ~enabled /\ ~refreshTimer /\ update.at # "arm"

LEMMA DestroyedIsQuietInductive ==
    ASSUME PlacefilesTypeOK, DestroyedIsQuiet, [PlacefilesNext]_placefileVars
    PROVE  DestroyedIsQuiet'
<1> USE DEF DestroyedIsQuiet, record, GuiGoes
<1>1. CASE EnablePlacefile \/ DisablePlacefile \/ UpdateOrSchedule \/ CancelRefresh
  BY <1>1 DEF EnablePlacefile, DisablePlacefile, UpdateOrSchedule, CancelRefresh
<1>2. ASSUME NEW url \in Urls, Rename(url)
      PROVE  DestroyedIsQuiet'
  BY <1>2 DEF Rename
<1>3. ASSUME NEW site \in RadarSites, SetRadarSite(site)
      PROVE  DestroyedIsQuiet'
  BY <1>3 DEF SetRadarSite
<1>4. CASE Refresh \/ ScheduleByGui \/ ArmByGui \/ RefreshTimerExpires \/ RemoveUrl
  BY <1>4 DEF Refresh, ScheduleByGui, ArmByGui, RefreshTimerExpires, RemoveUrl
<1>5. CASE ScheduleByUpdate \/ ArmByUpdate \/ Failed
  BY <1>5 DEF ScheduleByUpdate, ArmByUpdate, Failed, MaySchedule, NoUpdate
<1>6. CASE BeginUpdate \/ DownloadFails \/ UpdateThrows \/ CompareName \/ InstallPlacefile
  BY <1>6, UpdateTypes
  DEF BeginUpdate, DownloadFails, UpdateThrows, CompareName, InstallPlacefile, NoUpdate
<1>7. ASSUME NEW refresh \in BOOLEAN, DownloadSucceeds(refresh)
      PROVE  DestroyedIsQuiet'
  BY <1>7 DEF DownloadSucceeds
<1>8. CASE Destroy \/ Join
  BY <1>8 DEF Destroy, Join, UnderWay
<1>9. CASE UNCHANGED placefileVars
  BY <1>9 DEF placefileVars
<1> QED
  BY <1>1, <1>2, <1>3, <1>4, <1>5, <1>6, <1>7, <1>8, <1>9, PlacefilesNextCases

(* No update arms a timer for which the destructor, and with it the GUI     *)
(* thread, would wait.                                                      *)
THEOREM DestructorIsFree == PlacefilesSpec => []DestructorWaitsForNoTimer
<1>1. PlacefilesInit => PlacefilesTypeOK /\ DestroyedIsQuiet
  BY PlacefilesTypeOKInit DEF PlacefilesInit, DestroyedIsQuiet
<1>2. PlacefilesTypeOK /\ DestroyedIsQuiet /\ [PlacefilesNext]_placefileVars
         => PlacefilesTypeOK' /\ DestroyedIsQuiet'
  BY PlacefilesTypeOKInductive, DestroyedIsQuietInductive
<1>3. DestroyedIsQuiet => DestructorWaitsForNoTimer
  BY DEF DestroyedIsQuiet, DestructorWaitsForNoTimer
<1> QED
  BY <1>1, <1>2, <1>3, PTL DEF PlacefilesSpec

----------------------------------------------------------------------------
(* An enabled placefile is updated                                          *)

(* An update under way: what it was begun for.                              *)
InFlight == update.at \in {"download", "compare", "install"}
FlightName == IF update.at = "download" THEN update.name ELSE update.new.name
FlightSite == IF update.at = "download" THEN update.site ELSE update.new.site

(* An update that was overtaken by a new name has a successor; so has one   *)
(* overtaken by a new site, or it is marked.                                *)
RenamedIsQueued == InFlight /\ FlightName # name => updates > 0
MovedIsQueued == InFlight /\ FlightSite # radarSite => updates > 0 \/ overtaken

(* An update that will end with a new placefile, or with another attempt;   *)
(* or that threw, which is the end of it.                                   *)
Threw == update.at = "threw"
Busy == updates > 0 \/ InFlight \/ update.at = "failed" \/ Threw
Retrying == refreshTimer \/ update.at = "arm"

Labelled ==
    placefile # NoPlacefile /\ placefile.name = name /\ placefile.site = lastRadarSite

(* The site an update was marked with is that of the placefile, or there    *)
(* will be another update, or the last one threw.                           *)
LabelIsTrue ==
    gui \notin {"join", "gone"} /\ lastRadarSite # NoSite /\ ~Labelled
        => Busy \/ overtaken \/ (enabled /\ Retrying)

(* An enabled placefile of another site will be updated, or its last update *)
(* threw.                                                                   *)
SiteIsFollowed ==
    enabled /\ gui # "enabling" /\ radarSite # NoSite /\ lastRadarSite # radarSite
        => Busy \/ Retrying

(* A placefile that asks to be refreshed is, until an update throws.        *)
ChainGoesOn ==
    enabled /\ gui \notin {"enabling", "schedule", "arm"} /\ radarSite # NoSite
            /\ Current /\ placefile.refresh
        => Updating \/ Threw

(* No site is ever taken back; what cancels a refresh has disabled it.      *)
NoSiteAtFirst == radarSite = NoSite => lastRadarSite = NoSite
DisablingIsDisabled == gui = "disabling" => ~enabled

UpdateInv ==
    /\ PlacefilesTypeOK
    /\ RenamedIsQueued /\ MovedIsQueued
    /\ LabelIsTrue /\ SiteIsFollowed /\ ChainGoesOn
    /\ NoSiteAtFirst /\ DisablingIsDisabled

LEMMA UpdateInvInit == PlacefilesInit => UpdateInv
<1> SUFFICES ASSUME PlacefilesInit
             PROVE  UpdateInv
  OBVIOUS
<1>1. PlacefilesTypeOK
  BY PlacefilesTypeOKInit
<1>2. RenamedIsQueued /\ MovedIsQueued
  BY DEF PlacefilesInit, NoUpdate, RenamedIsQueued, MovedIsQueued, InFlight
<1>3. LabelIsTrue /\ SiteIsFollowed /\ ChainGoesOn /\ NoSiteAtFirst /\ DisablingIsDisabled
  BY DEF PlacefilesInit, LabelIsTrue, SiteIsFollowed, ChainGoesOn, NoSiteAtFirst,
         DisablingIsDisabled, Busy, Current
<1> QED
  BY <1>1, <1>2, <1>3 DEF UpdateInv

(* The steps of the GUI thread, and the timer, which leave the update under *)
(* way alone.                                                               *)
GuiMoves ==
    \/ EnablePlacefile \/ DisablePlacefile \/ UpdateOrSchedule \/ CancelRefresh
    \/ (\E url \in Urls : Rename(url))
    \/ (\E site \in RadarSites : SetRadarSite(site))
    \/ Refresh \/ ScheduleByGui \/ ArmByGui \/ RefreshTimerExpires
    \/ RemoveUrl \/ Destroy \/ Join

LEMMA GuiKeeps ==
    ASSUME UpdateInv, GuiMoves, PlacefilesTypeOK'
    PROVE  UpdateInv'
<1> USE UpdateTypes DEF UpdateInv, record, GuiGoes, RenamedIsQueued, MovedIsQueued, LabelIsTrue,
        SiteIsFollowed, ChainGoesOn, NoSiteAtFirst, DisablingIsDisabled, InFlight, FlightName,
        FlightSite, Busy, Threw, Retrying, Labelled, Updating, UnderWay, Current
<1>0. updates \in Nat
  BY DEF PlacefilesTypeOK
<1>1. CASE EnablePlacefile
  BY <1>1 DEF EnablePlacefile
<1>2. CASE DisablePlacefile
  <2>1. Retrying => Updating
    BY DEF NoUpdate
  <2>2. Current => Labelled
    OBVIOUS
  <2>3. LabelIsTrue'
    <3> SUFFICES ASSUME gui' \notin {"join", "gone"}, lastRadarSite' # NoSite, ~Labelled'
                 PROVE  Busy' \/ overtaken'
      OBVIOUS
    <3>1. ~Labelled /\ lastRadarSite # NoSite /\ gui \notin {"join", "gone"}
      BY <1>2 DEF DisablePlacefile
    <3>2. Busy \/ overtaken \/ (enabled /\ Retrying)
      BY <3>1
    <3>3. Busy' <=> Busy
      BY <1>2 DEF DisablePlacefile
    <3>4. CASE Retrying
      BY <1>2, <2>1, <2>2, <3>1, <3>4 DEF DisablePlacefile
    <3> QED
      BY <1>2, <3>2, <3>3, <3>4 DEF DisablePlacefile
  <2> QED
    BY <1>2, <2>3 DEF DisablePlacefile
<1>3. CASE UpdateOrSchedule
  BY <1>3, UpdateAsyncType DEF UpdateOrSchedule
<1>4. CASE CancelRefresh
  BY <1>4 DEF CancelRefresh, PlacefilesTypeOK
<1>5. ASSUME NEW url \in Urls, Rename(url)
      PROVE  UpdateInv'
  BY <1>5, UpdateAsyncType DEF Rename
<1>6. ASSUME NEW site \in RadarSites, SetRadarSite(site)
      PROVE  UpdateInv'
  <2>1. UnderWay \/ ~InFlight
    OBVIOUS
  <2>2. updates' >= updates /\ (enabled => updates' > 0)
    BY <1>6, <1>0, UpdateAsyncType DEF SetRadarSite
  <2>3. RenamedIsQueued' /\ MovedIsQueued'
    BY <1>6, <1>0, <2>1, <2>2, UpdateAsyncType DEF SetRadarSite
  <2>4. LabelIsTrue'
    BY <1>6, <1>0, <2>2, UpdateAsyncType DEF SetRadarSite
  <2>5. SiteIsFollowed' /\ ChainGoesOn' /\ NoSiteAtFirst' /\ DisablingIsDisabled'
    BY <1>6, <2>2, PlacefilesAssumption DEF SetRadarSite
  <2> QED
    BY <2>3, <2>4, <2>5
<1>7. CASE Refresh
  BY <1>7, UpdateAsyncType DEF Refresh
<1>8. CASE ScheduleByGui
  BY <1>8 DEF ScheduleByGui, MaySchedule
<1>9. CASE ArmByGui
  BY <1>9 DEF ArmByGui
<1>10. CASE RefreshTimerExpires
  BY <1>10, UpdateAsyncType DEF RefreshTimerExpires
<1>11. CASE RemoveUrl \/ Join
  BY <1>11 DEF RemoveUrl, Join
<1>12. CASE Destroy
  BY <1>12 DEF Destroy
<1> QED
  BY <1>1, <1>2, <1>3, <1>4, <1>5, <1>6, <1>7, <1>8, <1>9, <1>10, <1>11, <1>12 DEF GuiMoves

(* The steps of the pool.                                                   *)
LEMMA PoolKeeps ==
    ASSUME UpdateInv, PlacefilePoolStep, PlacefilesTypeOK'
    PROVE  UpdateInv'
<1> USE UpdateTypes DEF UpdateInv, record, RenamedIsQueued, MovedIsQueued, LabelIsTrue,
        SiteIsFollowed, ChainGoesOn, NoSiteAtFirst, DisablingIsDisabled, InFlight, FlightName,
        FlightSite, Busy, Threw, Retrying, Labelled, Updating, UnderWay, Current
<1>1. CASE BeginUpdate
  <2>1. ~InFlight /\ ~(update.at = "arm") /\ update.at # "failed"
    BY <1>1 DEF BeginUpdate, NoUpdate
  <2>2. CASE update' = NoUpdate
    <3>1. radarSite = NoSite /\ lastRadarSite = NoSite
      BY <1>1, <2>2 DEF BeginUpdate, NoUpdate
    <3> QED
      BY <1>1, <2>2, <3>1 DEF BeginUpdate, NoUpdate
  <2>3. CASE update' = [at |-> "download", name |-> name, site |-> radarSite]
    BY <1>1, <2>3 DEF BeginUpdate, NoUpdate
  <2> QED
    BY <1>1, <2>2, <2>3 DEF BeginUpdate
<1>2. ASSUME NEW refresh \in BOOLEAN, DownloadSucceeds(refresh)
      PROVE  UpdateInv'
  BY <1>2 DEF DownloadSucceeds, NoUpdate
<1>3. CASE DownloadFails
  BY <1>3 DEF DownloadFails, NoUpdate
<1>4. CASE UpdateThrows
  BY <1>4 DEF UpdateThrows, NoUpdate
<1>5. CASE Failed
  BY <1>5 DEF Failed, NoUpdate
<1>6. CASE CompareName
  BY <1>6 DEF CompareName, NoUpdate
<1>7. CASE InstallPlacefile
  <2>1. update'.at = "schedule" /\ update' # NoUpdate
    BY <1>7 DEF InstallPlacefile, NoUpdate
  <2>2. ASSUME radarSite # NoSite, ~Labelled'
        PROVE  updates > 0 \/ overtaken'
    <3>1. lastRadarSite' = radarSite /\ placefile' = update.new
      BY <1>7, <2>2 DEF InstallPlacefile
    <3>2. NoPlacefile.site = NoSite
      BY DEF NoPlacefile
    <3>3. update.new.name # name \/ update.new.site # radarSite
      BY <1>7, <2>2, <3>1, <3>2 DEF InstallPlacefile
    <3>4. updates > 0 \/ overtaken
      BY <1>7, <3>3 DEF InstallPlacefile
    <3> QED
      BY <1>7, <3>3, <3>4 DEF InstallPlacefile
  <2>3. LabelIsTrue'
    BY <1>7, <2>2 DEF InstallPlacefile
  <2> QED
    BY <1>7, <2>1, <2>3 DEF InstallPlacefile
<1>8. CASE ScheduleByUpdate
  BY <1>8 DEF ScheduleByUpdate, MaySchedule, NoUpdate
<1>9. CASE ArmByUpdate
  BY <1>9 DEF ArmByUpdate, NoUpdate
<1> QED
  BY <1>1, <1>2, <1>3, <1>4, <1>5, <1>6, <1>7, <1>8, <1>9 DEF PlacefilePoolStep

LEMMA UpdateInvInductive ==
    ASSUME UpdateInv, [PlacefilesNext]_placefileVars
    PROVE  UpdateInv'
<1>1. PlacefilesTypeOK'
  BY PlacefilesTypeOKInductive DEF UpdateInv
<1>2. CASE GuiMoves
  BY <1>1, <1>2, GuiKeeps
<1>3. CASE PlacefilePoolStep
  BY <1>1, <1>3, PoolKeeps
<1>4. CASE UNCHANGED placefileVars
  BY <1>4 DEF placefileVars, record, UpdateInv, PlacefilesTypeOK, RenamedIsQueued,
     MovedIsQueued, LabelIsTrue, SiteIsFollowed, ChainGoesOn, NoSiteAtFirst,
     DisablingIsDisabled, InFlight, FlightName, FlightSite, Busy, Threw,
     Retrying, Labelled, Updating, UnderWay, Current
<1> QED
  BY <1>2, <1>3, <1>4, PlacefilesNextCases DEF GuiMoves, PlacefilePoolStep

LEMMA UpdateInvImplies == UpdateInv => EnabledIsUpdated
<1> SUFFICES ASSUME UpdateInv, enabled, radarSite # NoSite, gui = "idle"
             PROVE  Updating \/ Threw \/ (Current /\ ~placefile.refresh)
                             \/ (overtaken /\ lastRadarSite = radarSite)
  BY DEF EnabledIsUpdated, Threw
<1>1. Busy \/ Retrying => Updating \/ Threw
  BY DEF Busy, Threw, Retrying, Updating, UnderWay, InFlight
<1>2. CASE lastRadarSite # radarSite
  BY <1>1, <1>2 DEF UpdateInv, SiteIsFollowed
<1>3. CASE lastRadarSite = radarSite /\ ~Labelled
  BY <1>1, <1>3 DEF UpdateInv, LabelIsTrue
<1>4. CASE lastRadarSite = radarSite /\ Labelled
  BY <1>4 DEF UpdateInv, ChainGoesOn, Labelled, Current
<1> QED
  BY <1>2, <1>3, <1>4

(* Whatever is renamed, disabled, enabled and selected while downloads are  *)
(* under way: an enabled placefile is current, or will be updated, with     *)
(* EnabledIsUpdated's exceptions.                                           *)
THEOREM EnabledUpdated == PlacefilesSpec => []EnabledIsUpdated
<1>1. PlacefilesInit => UpdateInv
  BY UpdateInvInit
<1>2. UpdateInv /\ [PlacefilesNext]_placefileVars => UpdateInv'
  BY UpdateInvInductive
<1>3. UpdateInv => EnabledIsUpdated
  BY UpdateInvImplies
<1> QED
  BY <1>1, <1>2, <1>3, PTL DEF PlacefilesSpec

(* An enabled placefile of its name and site that asks to be refreshed has  *)
(* its timer armed or an update that arms it, however downloads fail; only  *)
(* an exception ends its updates.                                           *)
THEOREM RefreshChainGoesOn == PlacefilesSpec => []ChainGoesOn
<1>1. PlacefilesInit => UpdateInv
  BY UpdateInvInit
<1>2. UpdateInv /\ [PlacefilesNext]_placefileVars => UpdateInv'
  BY UpdateInvInductive
<1>3. UpdateInv => ChainGoesOn
  BY DEF UpdateInv
<1> QED
  BY <1>1, <1>2, <1>3, PTL DEF PlacefilesSpec

----------------------------------------------------------------------------
(*****************************************************************************)
(* Lightning: a stopped provider has forgotten everything, no strike is kept *)
(* twice, and every strike reaches every layer, for any strikes, servers,    *)
(* layers and lifetimes.                                                     *)
(*****************************************************************************)

----------------------------------------------------------------------------
(* Stop: what could add a strike, or make a socket, runs only while the      *)
(* worker is joinable; the worker is joined before anything is cleared, and  *)
(* the timer whose tick prunes is off by then.                              *)

NothingKept ==
    /\ strikes = <<>> /\ \A k \in Strikes : recentKeys[k] = Absent

(* What runs only while the worker is joinable.                             *)
TicksWhileActive ==
    /\ updateTimer => IsActive
    /\ slot \in {"announce", "announcePending", "join"} => IsActive
    /\ slot = "join" => ~updateTimer

(* Between the join and the clearing: the worker has gone, and its socket.  *)
ClearingAlone == slot = "clear" => ~IsActive /\ ~connected /\ ~socketMade

StopInv == TicksWhileActive /\ ClearingAlone /\ StoppedIsEmpty

LEMMA WorkerWorks ==
    ASSUME WorkerStep
    PROVE  IsActive /\ IsActive' /\ UNCHANGED <<updateTimer, slot>>
  <1>1. CASE RunLoop
    BY <1>1 DEF RunLoop, WorkerGoes, IsActive
  <1>2. CASE ReadMessage
    BY <1>2 DEF ReadMessage, IsActive
  <1>3. CASE ReadFails
    BY <1>3 DEF ReadFails, WorkerGoes, IsActive
  <1>4. CASE BeginConnect
    BY <1>4 DEF BeginConnect, WorkerGoes, IsActive
  <1>5. CASE ConnectSucceeds \/ ConnectFails
    BY <1>5 DEF ConnectSucceeds, ConnectFails, WorkerGoes, IsActive
  <1>6. CASE OnNewStrike
    BY <1>6 DEF OnNewStrike, IsActive
  <1> QED  BY <1>1, <1>2, <1>3, <1>4, <1>5, <1>6 DEF WorkerStep

(* Whatever works, or prunes, does so while the worker is joinable.         *)
LEMMA ActiveKeeps ==
    ASSUME StopInv, IsActive, IsActive', updateTimer' = updateTimer, slot' # "clear",
           slot' = "join" => slot = "join"
    PROVE  StopInv'
  BY DEF StopInv, TicksWhileActive, ClearingAlone, StoppedIsEmpty

LEMMA TickKeeps ==
    ASSUME StopInv, Tick
    PROVE  StopInv'
  <1>1. UNCHANGED <<worker, connected, socketMade, updateTimer, slot>>
    BY DEF Tick, providerVars
  <1>2. IsActive' <=> IsActive
    BY <1>1 DEF IsActive
  <1>3. NothingKept => NothingKept'
    <2> SUFFICES ASSUME NothingKept PROVE NothingKept'
      OBVIOUS
    <2>1. Len(strikes) = 0 /\ strikes' = [i \in 1 .. 0 |-> [strikes[i] EXCEPT !.age = Older(@)]]
      BY DEF Tick, NothingKept
    <2>2. strikes' = <<>>
      BY <2>1
    <2>3. \A k \in Strikes : recentKeys'[k] = Absent
      BY DEF Tick, NothingKept, Older, Absent
    <2> QED  BY <2>2, <2>3 DEF NothingKept
  <1> QED
    BY <1>1, <1>2, <1>3
    DEF StopInv, TicksWhileActive, ClearingAlone, StoppedIsEmpty, NothingKept

LEMMA StopInvHolds == LightningSpec => []StopInv
  <1>1. LightningInit => StopInv
    BY DEF LightningInit, StopInv, TicksWhileActive, ClearingAlone, StoppedIsEmpty, IsActive
  <1>2. StopInv /\ [LightningNext]_lightningVars => StopInv'
    <2> SUFFICES ASSUME StopInv, [LightningNext]_lightningVars PROVE StopInv'
      OBVIOUS
    <2>1. CASE WorkerStep
      <3>1. slot # "clear"
        BY <2>1, WorkerWorks DEF StopInv, ClearingAlone
      <3> QED  BY <2>1, <3>1, WorkerWorks, ActiveKeeps
    <2>2. CASE Start
      BY <2>2 DEF Start, StopInv, TicksWhileActive, ClearingAlone, StoppedIsEmpty, IsActive
    <2>3. CASE RequestStop
      BY <2>3 DEF RequestStop, StopInv, TicksWhileActive, ClearingAlone, StoppedIsEmpty, IsActive
    <2>4. CASE JoinWorker
      <3>1. ~IsActive' /\ slot' = "clear" /\ ~connected' /\ ~socketMade' /\ updateTimer' = updateTimer
        BY <2>4 DEF JoinWorker, WorkerGoes, IsActive
      <3>2. ~updateTimer
        BY <2>4 DEF StopInv, JoinWorker, TicksWhileActive
      <3> QED  BY <3>1, <3>2 DEF StopInv, TicksWhileActive, ClearingAlone, StoppedIsEmpty
    <2>5. CASE ClearStrikes
      <3>1. /\ strikes' = <<>> /\ \A k \in Strikes : recentKeys'[k] = Absent
            /\ slot = "clear" /\ slot' = "none"
            /\ UNCHANGED <<worker, connected, socketMade, updateTimer>>
        BY <2>5 DEF ClearStrikes, providerVars
      <3>2. IsActive' <=> IsActive
        BY <3>1 DEF IsActive
      <3> QED
        BY <3>1, <3>2 DEF StopInv, TicksWhileActive, ClearingAlone, StoppedIsEmpty
    <2>6. CASE ConsumePendingUpdate \/ StrikesUpdated \/ \E l \in Layers : Render(l)
      <3>1. IsActive /\ slot # "clear"
        BY <2>6
        DEF ConsumePendingUpdate, StrikesUpdated, Render, StopInv, TicksWhileActive
      <3>2. UNCHANGED <<worker, updateTimer>> /\ slot' \notin {"clear", "join"}
        BY <2>6, <3>1
        DEF ConsumePendingUpdate, StrikesUpdated, Render, providerVars
      <3>3. IsActive'
        BY <3>1, <3>2 DEF IsActive
      <3> QED  BY <3>1, <3>2, <3>3, ActiveKeeps
    <2>7. CASE Tick
      BY <2>7, TickKeeps
    <2>8. CASE UNCHANGED lightningVars
      BY <2>8 DEF lightningVars, providerVars, StopInv, TicksWhileActive, ClearingAlone,
         StoppedIsEmpty, IsActive
    <2> QED
      BY <2>1, <2>2, <2>3, <2>4, <2>5, <2>6, <2>7, <2>8 DEF LightningNext, StopReturnsStep
  <1> QED  BY <1>1, <1>2, PTL DEF LightningSpec

(* After Stop nothing is left of what the servers sent, and no connection,   *)
(* whatever the worker was doing when stop was requested.                   *)
THEOREM StopForgets == LightningSpec => []StoppedIsEmpty
  <1>1. StopInv => StoppedIsEmpty
    BY DEF StopInv
  <1> QED  BY <1>1, StopInvHolds, PTL

----------------------------------------------------------------------------
(* What strikes, keys, layers and the flag are, and what pruning leaves.     *)

Strike == [key : Strikes, age : Ages]

LEMMA AgesAre ==
  /\ Oldest \in Nat /\ KeyLife \in Nat /\ StrikeLife \in Nat /\ StrikeLife <= KeyLife
  /\ Ages = 0 .. KeyLife + 1 /\ Absent \notin Ages
  /\ \A age \in Ages \cup {Absent} : Older(age) \in Ages \cup {Absent}
  /\ \A age \in Ages : Older(age) \in Ages /\ Older(age) >= age
  BY LightningAssumption DEF Ages, Oldest, Absent, Older

LEMMA StrikesAre ==
  ASSUME LightningTypeOK
  PROVE  /\ strikes \in Seq(Strike) /\ Len(strikes) \in Nat
         /\ \A i \in 1 .. Len(strikes) :
               /\ strikes[i] \in Strike
               /\ strikes[i].key \in Strikes /\ strikes[i].age \in Ages
<1>1. strikes \in Seq(Strike)
  BY DEF LightningTypeOK, Strike
<1>2. Len(strikes) \in Nat /\ \A i \in 1 .. Len(strikes) : strikes[i] \in Strike
  BY <1>1
<1>3. \A strike \in Strike : strike.key \in Strikes /\ strike.age \in Ages
  BY DEF Strike
<1> QED  BY <1>1, <1>2, <1>3

WorkerPlaces == {"none", "loop", "read", "sleep", "connect", "ended"}
WorkerStates == [at : WorkerPlaces] \cup [at : {"deliver"}, strike : Strikes]

LEMMA WorkerIs ==
  /\ \A place \in WorkerPlaces : [at |-> place] \in WorkerStates
  /\ \A state \in WorkerStates : state.at = "deliver" => state.strike \in Strikes
  BY DEF WorkerStates, WorkerPlaces

(* Pruning leaves strikes that were there, fresh ones, in their order.       *)
LEMMA PrunedStrikes ==
  ASSUME LightningTypeOK, Pruned
  PROVE  /\ strikes' \in Seq(Strike)
         /\ \E place : KeptAt(place, strikes', strikes, Fresh, Len(strikes))
  BY KeepingPlaces DEF LightningTypeOK, Pruned, Strike

LEMMA PrunedKeys ==
  ASSUME LightningTypeOK, Pruned
  PROVE  recentKeys' \in [Strikes -> Ages \cup {Absent}]
  BY DEF LightningTypeOK, Pruned

(* A tick leaves the strikes, each older.                                    *)
LEMMA TickedStrikes ==
  ASSUME LightningTypeOK, Tick
  PROVE  /\ strikes' \in Seq(Strike) /\ Len(strikes') = Len(strikes)
         /\ \A i \in 1 .. Len(strikes) :
               strikes'[i] = [key |-> strikes[i].key, age |-> Older(strikes[i].age)]
         /\ recentKeys' = [k \in Strikes |-> Older(recentKeys[k])]
         /\ recentKeys' \in [Strikes -> Ages \cup {Absent}]
<1> DEFINE older == [i \in 1 .. Len(strikes) |-> [strikes[i] EXCEPT !.age = Older(@)]]
<1>1. strikes \in Seq(Strike) /\ Len(strikes) \in Nat
  BY StrikesAre
<1>2. ASSUME NEW i \in 1 .. Len(strikes)
      PROVE  /\ older[i] = [key |-> strikes[i].key, age |-> Older(strikes[i].age)]
             /\ older[i] \in Strike
  <2>1. strikes[i] \in Strike
    BY <1>1
  <2>2. Older(strikes[i].age) \in Ages
    BY <2>1, AgesAre DEF Strike
  <2> QED  BY <2>1, <2>2 DEF Strike
<1>3. older \in Seq(Strike) /\ Len(older) = Len(strikes)
  <2>1. older \in [1 .. Len(strikes) -> Strike]
    BY <1>2
  <2> HIDE DEF older
  <2> QED  BY <1>1, <2>1, IsAList
<1>4. strikes' = older /\ recentKeys' = [k \in Strikes |-> Older(recentKeys[k])]
  BY DEF Tick
<1>5. recentKeys' \in [Strikes -> Ages \cup {Absent}]
  BY <1>4, AgesAre DEF LightningTypeOK
<1> QED  BY <1>2, <1>3, <1>4, <1>5

LEMMA LightningTypeStep ==
  ASSUME LightningTypeOK, [LightningNext]_lightningVars
  PROVE  LightningTypeOK'
<1> DEFINE OthersOK ==
             /\ stopRequested \in BOOLEAN /\ connected \in BOOLEAN /\ socketMade \in BOOLEAN
             /\ serverIndex \in 0 .. NumLightningServers - 1
             /\ updateTimer \in BOOLEAN
             /\ pendingUpdate \in BOOLEAN
             /\ dirty \in [Layers -> BOOLEAN]
             /\ visuals \in [Layers -> SUBSET Strikes]
             /\ slot \in {"none", "announce", "announcePending", "join", "clear"}
           KeptOK == strikes \in Seq(Strike) /\ recentKeys \in [Strikes -> Ages \cup {Absent}]
<1>1. worker \in WorkerStates /\ KeptOK /\ OthersOK
  BY DEF LightningTypeOK, WorkerStates, WorkerPlaces, Strike
<1>2. worker' \in WorkerStates /\ KeptOK' /\ OthersOK'
  <2>1. CASE RunLoop
    <3>1. worker' \in WorkerStates
      BY <2>1, WorkerIs DEF RunLoop, WorkerGoes, WorkerPlaces
    <3> QED  BY <1>1, <2>1, <3>1 DEF RunLoop
  <2>2. CASE ReadMessage
    <3>1. worker' \in WorkerStates
      BY <2>2 DEF ReadMessage, WorkerStates, WorkerPlaces
    <3> QED  BY <1>1, <2>2, <3>1 DEF ReadMessage
  <2>3. CASE ReadFails
    <3>1. worker' \in WorkerStates
      BY <2>3, WorkerIs DEF ReadFails, WorkerGoes, WorkerPlaces
    <3> QED  BY <1>1, <2>3, <3>1 DEF ReadFails
  <2>4. CASE BeginConnect
    <3>1. worker' \in WorkerStates
      BY <2>4, WorkerIs DEF BeginConnect, WorkerGoes, WorkerPlaces
    <3>2. socketMade' \in BOOLEAN
      BY <2>4 DEF BeginConnect
    <3> QED  BY <1>1, <2>4, <3>1, <3>2 DEF BeginConnect
  <2>5. CASE ConnectSucceeds \/ ConnectFails
    <3>1. worker' \in WorkerStates
      BY <2>5, WorkerIs DEF ConnectSucceeds, ConnectFails, WorkerGoes, WorkerPlaces
    <3>2. FollowingServer \in 0 .. NumLightningServers - 1
      BY <1>1, LightningAssumption DEF FollowingServer
    <3> QED  BY <1>1, <2>5, <3>1, <3>2 DEF ConnectSucceeds, ConnectFails
  <2>6. CASE OnNewStrike
    <3>1. worker.strike \in Strikes /\ worker' \in WorkerStates
      BY <1>1, <2>6, WorkerIs DEF OnNewStrike, WorkerPlaces
    <3>2. 0 \in Ages
      BY AgesAre
    <3>3. [key |-> worker.strike, age |-> 0] \in Strike
      BY <3>1, <3>2 DEF Strike
    <3>4. KeptOK'
      <4>1. CASE UNCHANGED <<strikes, recentKeys>>
        BY <1>1, <4>1
      <4>2. CASE /\ recentKeys' = [recentKeys EXCEPT ![worker.strike] = 0]
                 /\ strikes' = Append(strikes, [key |-> worker.strike, age |-> 0])
        <5>1. strikes' \in Seq(Strike)
          BY <1>1, <3>3, <4>2
        <5>2. recentKeys' \in [Strikes -> Ages \cup {Absent}]
          BY <1>1, <3>2, <4>2
        <5> QED  BY <5>1, <5>2
      <4> QED  BY <2>6, <4>1, <4>2 DEF OnNewStrike
    <3>5. pendingUpdate' \in BOOLEAN
      BY <1>1, <2>6 DEF OnNewStrike
    <3> QED  BY <1>1, <2>6, <3>1, <3>4, <3>5 DEF OnNewStrike
  <2>7. CASE Start
    <3>1. worker' \in WorkerStates
      BY <2>7, WorkerIs DEF Start, WorkerPlaces
    <3>2. serverIndex' \in 0 .. NumLightningServers - 1
      BY <2>7, LightningAssumption DEF Start
    <3> QED  BY <1>1, <2>7, <3>1, <3>2 DEF Start
  <2>8. CASE JoinWorker
    <3>1. worker' \in WorkerStates
      BY <2>8, WorkerIs DEF JoinWorker, WorkerGoes, WorkerPlaces
    <3> QED  BY <1>1, <2>8, <3>1 DEF JoinWorker
  <2>9. CASE RequestStop \/ ConsumePendingUpdate
    BY <1>1, <2>9 DEF RequestStop, ConsumePendingUpdate, providerVars
  <2>10. CASE ClearStrikes
    BY <1>1, <2>10 DEF ClearStrikes, providerVars
  <2>11. CASE StrikesUpdated
    BY <1>1, <2>11, PrunedStrikes, PrunedKeys DEF StrikesUpdated, providerVars
  <2>12. CASE \E l \in Layers : Render(l)
    <3>1. PICK l \in Layers : Render(l)
      BY <2>12
    <3>2. {strikes[i].key : i \in Active} \in SUBSET Strikes
      BY StrikesAre DEF Active
    <3> QED  BY <1>1, <3>1, <3>2, PrunedStrikes, PrunedKeys DEF Render, providerVars
  <2>13. CASE Tick
    BY <1>1, <2>13, TickedStrikes DEF Tick, providerVars
  <2>14. CASE UNCHANGED lightningVars
    BY <1>1, <2>14 DEF lightningVars, providerVars
  <2> QED
    BY <2>1, <2>2, <2>3, <2>4, <2>5, <2>6, <2>7, <2>8, <2>9, <2>10, <2>11, <2>12, <2>13, <2>14
    DEF LightningNext, WorkerStep, StopReturnsStep
<1> QED  BY <1>2 DEF LightningTypeOK, WorkerStates, WorkerPlaces, Strike

LEMMA LightningTypeInit == LightningInit => LightningTypeOK
<1> SUFFICES ASSUME LightningInit PROVE LightningTypeOK
  OBVIOUS
<1>1. 0 \in 0 .. NumLightningServers - 1
  BY LightningAssumption
<1>2. strikes \in Seq([key : Strikes, age : Ages])
  BY DEF LightningInit
<1> QED  BY <1>1, <1>2 DEF LightningInit, LightningTypeOK

(* Every variable keeps to its type.                                         *)
THEOREM LightningTypes == LightningSpec => []LightningTypeOK
<1>1. LightningTypeOK /\ [LightningNext]_lightningVars => LightningTypeOK'
  BY LightningTypeStep
<1> QED  BY <1>1, LightningTypeInit, PTL DEF LightningSpec

----------------------------------------------------------------------------
(* No strike twice: each has its key, which is as old, and so is not pruned  *)
(* before it.                                                               *)

KeyIsAsOld == \A i \in 1 .. Len(strikes) : recentKeys[strikes[i].key] = strikes[i].age

StrikeInv == KeyIsAsOld /\ NoStrikeTwice

LEMMA PruningKeepsKeys ==
  ASSUME LightningTypeOK, StrikeInv, Pruned
  PROVE  StrikeInv'
<1>1. PICK place : KeptAt(place, strikes', strikes, Fresh, Len(strikes))
  BY PrunedStrikes
<1>2. ASSUME NEW i \in 1 .. Len(strikes')
      PROVE  /\ place[i] \in 1 .. Len(strikes) /\ strikes'[i] = strikes[place[i]]
             /\ strikes'[i] \in Fresh
  BY <1>1 DEF KeptAt
<1>3. ASSUME NEW i \in 1 .. Len(strikes')
      PROVE  recentKeys'[strikes'[i].key] = strikes'[i].age
  <2>1. recentKeys[strikes'[i].key] = strikes'[i].age
    BY <1>2 DEF StrikeInv, KeyIsAsOld
  <2>2. strikes'[i].key \in Strikes /\ strikes'[i].age \in 0 .. StrikeLife
    BY <1>2 DEF Fresh
  <2>3. ~(recentKeys[strikes'[i].key] > KeyLife)
    BY <2>1, <2>2, AgesAre
  <2> QED  BY <2>1, <2>2, <2>3 DEF Pruned
<1>4. ASSUME NEW i \in 1 .. Len(strikes'), NEW j \in 1 .. Len(strikes'),
             strikes'[i].key = strikes'[j].key
      PROVE  i = j
  <2>1. place[i] = place[j]
    BY <1>2, <1>4 DEF StrikeInv, NoStrikeTwice
  <2>2. ~(i < j) /\ ~(j < i)
    BY <1>1, <1>2, <2>1 DEF KeptAt
  <2>3. i \in Int /\ j \in Int
    BY PrunedStrikes
  <2> QED  BY <2>2, <2>3
<1> QED  BY <1>3, <1>4 DEF StrikeInv, KeyIsAsOld, NoStrikeTwice

LEMMA StrikeInvStep ==
  ASSUME LightningTypeOK, StrikeInv, [LightningNext]_lightningVars
  PROVE  StrikeInv'
<1>1. CASE UNCHANGED <<strikes, recentKeys>>
  BY <1>1 DEF StrikeInv, KeyIsAsOld, NoStrikeTwice
<1>2. CASE OnNewStrike /\ recentKeys[worker.strike] = Absent
  <2> DEFINE key == worker.strike
             new == [key |-> key, age |-> 0]
  <2>1. key \in Strikes /\ recentKeys' = [recentKeys EXCEPT ![key] = 0]
        /\ strikes' = Append(strikes, new)
    BY <1>2 DEF OnNewStrike, LightningTypeOK
  <2>2. strikes \in Seq(Strike) /\ Len(strikes) \in Nat /\ new \in Strike
    BY <2>1, StrikesAre, AgesAre DEF Strike
  <2>3. ASSUME NEW i \in 1 .. Len(strikes) PROVE strikes[i].key # key
    <3>1. strikes[i].age # Absent
      BY StrikesAre, AgesAre
    <3> QED  BY <3>1, <1>2 DEF StrikeInv, KeyIsAsOld
  <2>4. /\ Len(strikes') = Len(strikes) + 1 /\ strikes'[Len(strikes) + 1] = new
        /\ \A i \in 1 .. Len(strikes) : strikes'[i] = strikes[i]
    BY <2>1, <2>2
  <2>5. \A i \in 1 .. Len(strikes) : recentKeys'[strikes[i].key] = strikes[i].age
    <3>1. \A i \in 1 .. Len(strikes) : strikes[i].key \in Strikes
      BY StrikesAre
    <3> QED  BY <2>1, <2>3, <3>1 DEF StrikeInv, KeyIsAsOld, LightningTypeOK
  <2>6. recentKeys'[key] = 0
    BY <2>1 DEF LightningTypeOK
  <2> HIDE DEF new
  <2>7. new.key = key /\ new.age = 0
    BY DEF new
  <2> QED
    BY <2>2, <2>3, <2>4, <2>5, <2>6, <2>7 DEF StrikeInv, KeyIsAsOld, NoStrikeTwice
<1>3. CASE ClearStrikes
  BY <1>3 DEF ClearStrikes, StrikeInv, KeyIsAsOld, NoStrikeTwice
<1>4. CASE Pruned
  BY <1>4, PruningKeepsKeys
<1>5. CASE Tick
  <2>1. Len(strikes') = Len(strikes)
    BY <1>5, TickedStrikes
  <2>2. ASSUME NEW i \in 1 .. Len(strikes)
        PROVE  strikes'[i].key = strikes[i].key /\ strikes'[i].age = Older(strikes[i].age)
    <3>1. strikes'[i] = [key |-> strikes[i].key, age |-> Older(strikes[i].age)]
      BY <1>5, TickedStrikes
    <3> QED  BY <3>1
  <2>3. \A i \in 1 .. Len(strikes) : recentKeys'[strikes[i].key]
                                     = Older(recentKeys[strikes[i].key])
    BY <1>5, TickedStrikes, StrikesAre
  <2> QED  BY <2>1, <2>2, <2>3 DEF StrikeInv, KeyIsAsOld, NoStrikeTwice
<1> QED
  BY <1>1, <1>2, <1>3, <1>4, <1>5
  DEF LightningNext, WorkerStep, StopReturnsStep, RunLoop, ReadMessage, ReadFails, BeginConnect,
      ConnectSucceeds, ConnectFails, OnNewStrike, Start, RequestStop, JoinWorker,
      ConsumePendingUpdate, StrikesUpdated, Render, lightningVars, providerVars

(* A strike is kept once, however often the servers send it and whoever      *)
(* prunes, the timer or a layer that is drawn.                              *)
THEOREM NoneTwice == LightningSpec => []NoStrikeTwice
<1>1. LightningInit => StrikeInv
  BY DEF LightningInit, StrikeInv, KeyIsAsOld, NoStrikeTwice
<1>2. LightningTypeOK /\ StrikeInv /\ [LightningNext]_lightningVars => StrikeInv'
  BY StrikeInvStep
<1>3. StrikeInv => NoStrikeTwice
  BY DEF StrikeInv
<1> QED  BY <1>1, <1>2, <1>3, LightningTypes, PTL DEF LightningSpec

----------------------------------------------------------------------------
(* Strikes reach the layers: what is active only loses strikes, except by a  *)
(* new one, which sets the flag.                                            *)

ActiveKeys == {strikes[i].key : i \in Active}

LEMMA PruningActivatesNone ==
  ASSUME LightningTypeOK, Pruned
  PROVE  ActiveKeys' \subseteq ActiveKeys
<1>1. PICK place : KeptAt(place, strikes', strikes, Fresh, Len(strikes))
  BY PrunedStrikes
<1>2. ASSUME NEW i \in Active'
      PROVE  place[i] \in Active /\ strikes'[i].key = strikes[place[i]].key
  <2>1. i \in 1 .. Len(strikes') /\ strikes'[i].age < StrikeLife
    BY DEF Active
  <2>2. place[i] \in 1 .. Len(strikes) /\ strikes'[i] = strikes[place[i]]
    BY <1>1, <2>1 DEF KeptAt
  <2> QED  BY <2>1, <2>2 DEF Active
<1> QED  BY <1>2 DEF ActiveKeys

LEMMA TickActivatesNone ==
  ASSUME LightningTypeOK, Tick
  PROVE  ActiveKeys' \subseteq ActiveKeys
<1>1. ASSUME NEW i \in Active'
      PROVE  i \in Active /\ strikes'[i].key = strikes[i].key
  <2>1. i \in 1 .. Len(strikes) /\ strikes'[i].age < StrikeLife
    BY TickedStrikes DEF Active
  <2>3. strikes[i].age \in Ages /\ strikes'[i].key = strikes[i].key
        /\ strikes'[i].age = Older(strikes[i].age)
    <3>1. strikes'[i] = [key |-> strikes[i].key, age |-> Older(strikes[i].age)]
      BY <2>1, TickedStrikes
    <3> QED  BY <2>1, <3>1, StrikesAre
  <2>4. strikes[i].age < StrikeLife
    BY <2>1, <2>3, AgesAre
  <2> QED  BY <2>1, <2>3, <2>4 DEF Active
<1> QED  BY <1>1 DEF ActiveKeys

LEMMA ReachesByKeys ==
  StrikesReachLayers <=>
    \A l \in Layers : \/ dirty[l] \/ pendingUpdate \/ slot = "announcePending"
                     \/ ActiveKeys \subseteq visuals[l]
  BY DEF StrikesReachLayers, ActiveKeys

LEMMA ReachesByKeysNext ==
  StrikesReachLayers' <=>
    \A l \in Layers : \/ dirty'[l] \/ pendingUpdate' \/ slot' = "announcePending"
                     \/ ActiveKeys' \subseteq visuals'[l]
  BY DEF StrikesReachLayers, ActiveKeys

LEMMA StrikesReachStep ==
  ASSUME LightningTypeOK, StrikesReachLayers, [LightningNext]_lightningVars
  PROVE  StrikesReachLayers'
<1>1. CASE /\ UNCHANGED <<strikes, pendingUpdate, dirty, visuals>>
           /\ slot' # slot => slot # "announcePending"
  BY <1>1 DEF StrikesReachLayers, Active
<1>2. CASE OnNewStrike
  BY <1>2 DEF OnNewStrike, StrikesReachLayers, Active
<1>3. CASE ClearStrikes
  <2>1. Len(strikes') = 0
    BY <1>3 DEF ClearStrikes
  <2> QED  BY <2>1 DEF StrikesReachLayers, Active
<1>4. CASE ConsumePendingUpdate
  BY <1>4 DEF ConsumePendingUpdate, StrikesReachLayers, Active
<1>5. CASE StrikesUpdated
  <2>1. CASE slot = "announcePending"
    BY <1>5, <2>1 DEF StrikesUpdated, StrikesReachLayers
  <2>2. CASE slot # "announcePending"
    <3>1. ActiveKeys' \subseteq ActiveKeys
      BY <1>5, PruningActivatesNone DEF StrikesUpdated
    <3>2. UNCHANGED <<pendingUpdate, visuals>> /\ \A l \in Layers : dirty[l] => dirty'[l]
      BY <1>5 DEF StrikesUpdated
    <3> QED  BY <2>2, <3>1, <3>2, ReachesByKeys, ReachesByKeysNext
  <2> QED  BY <2>1, <2>2
<1>6. CASE \E l \in Layers : Render(l)
  <2>1. PICK l \in Layers : Render(l)
    BY <1>6
  <2>2. ActiveKeys' \subseteq ActiveKeys
    BY <2>1, PruningActivatesNone DEF Render
  <2>3. UNCHANGED <<pendingUpdate, slot>> /\ visuals'[l] = ActiveKeys
        /\ \A k \in Layers : k # l => dirty'[k] = dirty[k] /\ visuals'[k] = visuals[k]
    BY <2>1 DEF Render, ActiveKeys, LightningTypeOK
  <2> QED  BY <2>2, <2>3, ReachesByKeys, ReachesByKeysNext
<1>7. CASE Tick
  <2>1. ActiveKeys' \subseteq ActiveKeys
    BY <1>7, TickActivatesNone
  <2>2. UNCHANGED <<pendingUpdate, slot, dirty, visuals>>
    BY <1>7 DEF Tick
  <2> QED  BY <2>1, <2>2, ReachesByKeys, ReachesByKeysNext
<1> QED
  BY <1>1, <1>2, <1>3, <1>4, <1>5, <1>6, <1>7
  DEF LightningNext, WorkerStep, StopReturnsStep, RunLoop, ReadMessage, ReadFails, BeginConnect,
      ConnectSucceeds, ConnectFails, Start, RequestStop, JoinWorker, lightningVars, providerVars

(* A layer that does not show an active strike will fetch it, or is going to *)
(* be told, although the flag is taken before the layers are told and every  *)
(* layer prunes what the others have yet to fetch.                          *)
THEOREM StrikesReach == LightningSpec => []StrikesReachLayers
<1>1. LightningInit => StrikesReachLayers
  BY DEF LightningInit, StrikesReachLayers
<1>2. LightningTypeOK /\ StrikesReachLayers /\ [LightningNext]_lightningVars
        => StrikesReachLayers'
  BY StrikesReachStep
<1> QED  BY <1>1, <1>2, LightningTypes, PTL DEF LightningSpec

----------------------------------------------------------------------------
(*****************************************************************************)
(* The chunks of Level 2, for every number of scans and of chunks, however   *)
(* often the numbers go round.                                               *)
(*****************************************************************************)

(* Division with a remainder: of numbers less than a round apart only equal *)
(* ones have the same remainder.                                            *)

LEMMA Multiples ==
    ASSUME NEW n \in Nat, NEW k \in Int, k >= 1
    PROVE  n * k >= n
  <1>1. n * k = n + n * (k - 1) /\ n * (k - 1) >= 0
    OBVIOUS
  <1> QED  BY <1>1

LEMMA Remainder ==
    ASSUME NEW a \in Nat, NEW n \in Nat, n > 0
    PROVE  a % n \in 0 .. n - 1 /\ a \div n \in Int /\ a = n * (a \div n) + (a % n)
  OBVIOUS

LEMMA OneRemainder ==
    ASSUME NEW a \in Nat, NEW n \in Nat, n > 0,
           NEW q \in Int, NEW r \in 0 .. n - 1, a = n * q + r
    PROVE  a % n = r
  OBVIOUS

LEMMA SameRemainder ==
    ASSUME NEW a \in Nat, NEW b \in Nat, NEW n \in Nat, n > 0,
           a % n = b % n, a - b < n, b - a < n
    PROVE  a = b
  <1> DEFINE k == (a \div n) - (b \div n)
  <1>1. k \in Int /\ a - b = n * k
    BY Remainder
  <1>2. ~(k >= 1)
    BY <1>1, Multiples
  <1>3. ~(-k >= 1)
    <2>1. b - a = n * (-k)
      BY <1>1
    <2> HIDE DEF k
    <2> QED  BY <1>1, <2>1, Multiples
  <1> QED  BY <1>1, <1>2, <1>3

LEMMA NextRemainder ==
    ASSUME NEW a \in Nat, NEW n \in Nat, n > 0
    PROVE  (a + 1) % n = IF a % n = n - 1 THEN 0 ELSE (a % n) + 1
  <1>1. /\ a % n \in 0 .. n - 1 /\ a \div n \in Int
        /\ a = n * (a \div n) + (a % n)
    BY Remainder
  <1>2. CASE a % n = n - 1
    <2>1. a + 1 = n * ((a \div n) + 1) + 0
      <3>1. n * ((a \div n) + 1) = n * (a \div n) + n
        BY <1>1
      <3> QED  BY <1>1, <1>2, <3>1
    <2>2. (a \div n) + 1 \in Int /\ 0 \in 0 .. n - 1 /\ a + 1 \in Nat
      BY <1>1
    <2>3. (a + 1) % n = 0
      BY <2>1, <2>2, OneRemainder
    <2> QED  BY <1>2, <2>3
  <1>3. CASE a % n # n - 1
    <2>1. a + 1 = n * (a \div n) + ((a % n) + 1) /\ (a % n) + 1 \in 0 .. n - 1
      BY <1>1, <1>3
    <2>2. (a + 1) % n = (a % n) + 1
      <3>1. a + 1 \in Nat
        OBVIOUS
      <3> QED  BY <1>1, <2>1, <3>1, OneRemainder
    <2> QED  BY <1>3, <2>2
  <1> QED  BY <1>2, <1>3

(* The numbers of scans.                                                    *)
LEMMA Numbers ==
    ASSUME NEW s \in Nat \ {0}
    PROVE  /\ NumberOf(s) \in 1 .. LastNumber
           /\ NumberOf(s + 1) = (NumberOf(s) % LastNumber) + 1
           /\ NumberOf(s) = IF NumberOf(s + 1) = 1 THEN LastNumber ELSE NumberOf(s + 1) - 1
  <1> DEFINE r == (s - 1) % LastNumber
  <1>1. LastNumber \in Nat /\ LastNumber > 2 /\ s - 1 \in Nat
    BY Level2ChunksAssumption
  <1>2. r \in 0 .. LastNumber - 1
    BY <1>1, Remainder
  <1>3. s % LastNumber = IF r = LastNumber - 1 THEN 0 ELSE r + 1
    <2>1. PICK a \in Nat : a = s - 1 /\ a + 1 = s
      BY <1>1
    <2>2. (a + 1) % LastNumber = IF a % LastNumber = LastNumber - 1 THEN 0 ELSE (a % LastNumber) + 1
      <3>1. LastNumber > 0
        BY <1>1
      <3> QED  BY <1>1, <3>1, NextRemainder, Zenon
    <2> QED  BY <2>1, <2>2
  <1>4. (s + 1) - 1 = s
    OBVIOUS
  <1>5. NumberOf(s) = r + 1 /\ NumberOf(s + 1) = (IF r = LastNumber - 1 THEN 0 ELSE r + 1) + 1
    BY <1>3, <1>4 DEF NumberOf
  <1>6. NumberOf(s) % LastNumber = IF r = LastNumber - 1 THEN 0 ELSE r + 1
    <2>1. CASE r = LastNumber - 1
      <3>1. r + 1 = LastNumber * 1 + 0 /\ 0 \in 0 .. LastNumber - 1 /\ r + 1 \in Nat
        BY <1>1, <2>1
      <3>2. (r + 1) % LastNumber = 0
        BY <1>1, <3>1, OneRemainder
      <3> QED  BY <1>5, <2>1, <3>2
    <2>2. CASE r # LastNumber - 1
      <3>1. r + 1 = LastNumber * 0 + (r + 1) /\ r + 1 \in 0 .. LastNumber - 1 /\ r + 1 \in Nat
        BY <1>1, <1>2, <2>2
      <3>2. (r + 1) % LastNumber = r + 1
        BY <1>1, <3>1, OneRemainder
      <3> QED  BY <1>5, <2>2, <3>2
    <2> QED  BY <2>1, <2>2
  <1> HIDE DEF r
  <1> QED  BY <1>1, <1>2, <1>5, <1>6

LEMMA SameNumber ==
    ASSUME NEW s \in Nat \ {0}, NEW x \in Nat \ {0},
           NumberOf(s) = NumberOf(x), s - x < LastNumber, x - s < LastNumber
    PROVE  s = x
  <1>1. LastNumber \in Nat /\ LastNumber > 0 /\ s - 1 \in Nat /\ x - 1 \in Nat
    BY Level2ChunksAssumption
  <1>2. (s - 1) % LastNumber \in 0 .. LastNumber - 1 /\ (x - 1) % LastNumber \in 0 .. LastNumber - 1
    BY <1>1, Remainder
  <1>3. (s - 1) % LastNumber = (x - 1) % LastNumber
    BY <1>2 DEF NumberOf
  <1>4. (s - 1) - (x - 1) < LastNumber /\ (x - 1) - (s - 1) < LastNumber
    BY <1>1
  <1>5. s - 1 = x - 1
    BY <1>1, <1>3, <1>4, SameRemainder
  <1> QED  BY <1>5

----------------------------------------------------------------------------
(* What is stored are scans of less than a round, the cached times are of   *)
(* the scans that had the numbers, and a current record without a last one  *)
(* is of a scan of which the one before is not stored.                      *)
Window == \A s \in stored : s <= newest /\ newest - s < LastNumber - 1

TimesTrue ==
    \A n \in 1 .. LastNumber :
        scanTimes[n] # NoScan => NumberOf(scanTimes[n]) = n /\ scanTimes[n] <= newest

LastFollows ==
    currentScan.valid =>
        currentScan.scan <= newest /\ (lastScan.valid \/ currentScan.scan - 1 \notin stored)

ScansInv == ChunksTypeOK /\ newest >= FirstSerial /\ Window /\ TimesTrue /\ LastFollows

LEMMA StoredAre ==
    ASSUME ScansInv, NEW s \in stored
    PROVE  s \in Serials /\ s \in Nat \ {0} /\ s <= newest /\ newest - s < LastNumber - 1
  <1>1. s \in Serials
    BY DEF ScansInv, ChunksTypeOK
  <1> QED  BY <1>1, Level2ChunksAssumption DEF ScansInv, Window, Serials

(* The time that is found for a scan is its own, though its number had been *)
(* another's.                                                               *)
LEMMA TimeIsOwn ==
    ASSUME ScansInv, NEW s \in stored
    PROVE  GetScanTime(s) = s
  <1> DEFINE t == scanTimes[NumberOf(s)]
  <1>1. CASE AsksForTime(s)
    BY <1>1 DEF GetScanTime
  <1>2. CASE ~AsksForTime(s)
    <2>1. s \in Nat \ {0} /\ s <= newest /\ newest - s < LastNumber - 1 /\ newest \in Nat
      BY StoredAre DEF ScansInv, ChunksTypeOK, Serials
    <2>2. NumberOf(s) \in 1 .. LastNumber
      BY <2>1, Numbers
    <2>3. t \in Serials \cup {NoScan}
      BY <2>2 DEF ScansInv, ChunksTypeOK
    <2>4. t \in Nat
      BY <2>3, Level2ChunksAssumption DEF Serials, NoScan
    <2>5. RecentScans \in Nat /\ RecentScans <= LastNumber - 1 /\ LastNumber \in Nat
      BY Level2ChunksAssumption
    <2>6. t > newest - RecentScans
      BY <1>2, <2>1, <2>4, <2>5 DEF AsksForTime
    <2>7. newest >= RecentScans
      BY <2>1, <2>5, Level2ChunksAssumption DEF ScansInv
    <2>8. t # NoScan /\ t \in Nat \ {0}
      BY <2>1, <2>4, <2>5, <2>6, <2>7 DEF NoScan
    <2>9. NumberOf(t) = NumberOf(s) /\ t <= newest
      BY <2>2, <2>8 DEF ScansInv, TimesTrue
    <2> HIDE DEF t
    <2>10. t - s < LastNumber /\ s - t < LastNumber
      BY <2>1, <2>4, <2>5, <2>6, <2>9
    <2>11. t = s
      BY <2>1, <2>8, <2>9, <2>10, SameNumber
    <2> QED  BY <1>2, <2>11 DEF GetScanTime, t
  <1> QED  BY <1>1, <1>2

LEMMA StoredIsFinite ==
    ASSUME ScansInv, NEW S \in SUBSET stored
    PROVE  IsFiniteSet(S) /\ Cardinality(S) \in Nat
  <1>1. LastSerial \in Int /\ 1 \in Int
    BY Level2ChunksAssumption
  <1>2. IsFiniteSet(Serials)
    BY <1>1, FS_Interval DEF Serials
  <1>3. S \in SUBSET Serials
    BY DEF ScansInv, ChunksTypeOK
  <1>4. IsFiniteSet(S)
    BY <1>2, <1>3, FS_Subset
  <1> QED  BY <1>4, FS_CardinalityType

LEMMA LatestIs ==
    ASSUME ScansInv, NEW S \in SUBSET stored, S # {}
    PROVE  LatestOf(S) \in S /\ \A x \in S : x <= LatestOf(S)
  <1> DEFINE f == [s \in S |-> s]
  <1>1. f \in [S -> Nat] /\ IsFiniteSet(S)
    BY StoredAre, StoredIsFinite
  <1>2. PICK m \in S : \A k \in S : f[k] <= f[m]
    <2> HIDE DEF f
    <2> QED  BY <1>1, GreatestOfFinite
  <1>3. \A x \in S : GetScanTime(x) = x
    BY TimeIsOwn
  <1>4. \A x \in S : GetScanTime(x) <= GetScanTime(m)
    BY <1>2, <1>3
  <1>5. LatestOf(S) \in S /\ \A x \in S : GetScanTime(x) <= GetScanTime(LatestOf(S))
    BY <1>4 DEF LatestOf
  <1> QED  BY <1>3, <1>5

LEMMA LastScanIs ==
    ASSUME ScansInv, NEW fails
    PROVE  LastScanOf(fails) \in stored \cup {NoScan}
  <1>1. PossibleLast \ fails \in SUBSET stored
    BY DEF PossibleLast
  <1> QED  BY <1>1, LatestIs DEF LastScanOf

(* The number after the newest scan's is free, so that it may be the latest, *)
(* and of those that may be it is.                                          *)
LEMMA NewestIsLast ==
    ASSUME ScansInv
    PROVE  newest \in stored /\ LastScanOf({}) = newest
  <1>1. newest \in stored /\ newest \in Nat \ {0}
    BY DEF ScansInv, ChunksTypeOK, Serials
  <1>2. ASSUME NEW x \in stored, NumberOf(x) = (NumberOf(newest) % LastNumber) + 1
        PROVE  FALSE
    <2>1. NumberOf(x) = NumberOf(newest + 1)
      BY <1>1, <1>2, Numbers
    <2>2. x \in Nat \ {0} /\ x <= newest /\ newest - x < LastNumber - 1 /\ LastNumber \in Nat
      BY StoredAre, Level2ChunksAssumption
    <2>3. newest + 1 \in Nat \ {0} /\ x - (newest + 1) < LastNumber /\ (newest + 1) - x < LastNumber
      BY <1>1, <2>2
    <2>4. x = newest + 1
      BY <2>1, <2>2, <2>3, SameNumber
    <2> QED  BY <1>1, <2>2, <2>4
  <1>3. newest \in PossibleLast
    BY <1>1, <1>2 DEF PossibleLast
  <1>4. PossibleLast \in SUBSET stored /\ PossibleLast # {} /\ PossibleLast \ {} = PossibleLast
    BY <1>3 DEF PossibleLast
  <1>5. LatestOf(PossibleLast) \in PossibleLast /\ newest <= LatestOf(PossibleLast)
    BY <1>3, <1>4, LatestIs
  <1>6. LatestOf(PossibleLast) = newest
    <2>1. LatestOf(PossibleLast) \in stored
      BY <1>4, <1>5
    <2>2. LatestOf(PossibleLast) \in Nat /\ LatestOf(PossibleLast) <= newest
      BY <2>1, StoredAre
    <2> QED  BY <1>1, <1>5, <2>2
  <1> QED  BY <1>1, <1>4, <1>6 DEF LastScanOf

LEMMA NumberBefore ==
    ASSUME NEW s \in Nat \ {0, 1}
    PROVE  /\ s - 1 \in Nat \ {0}
           /\ NumberOf(s - 1) = IF NumberOf(s) = 1 THEN LastNumber ELSE NumberOf(s) - 1
  <1>1. PICK x \in Nat \ {0} : x = s - 1 /\ x + 1 = s
    OBVIOUS
  <1> QED  BY <1>1, Numbers

LEMMA SecondLastHas ==
    ASSUME ScansInv, NEW s \in stored \cup {NoScan}, s - 1 \in stored
    PROVE  s - 1 \in SecondLast(s)
  <1>1. s \in Nat \ {0, 1}
    <2>1. s - 1 \in Nat \ {0}
      BY StoredAre
    <2>2. s \in Nat
      BY StoredAre DEF NoScan
    <2> QED  BY <2>1, <2>2
  <1> QED  BY <1>1, NumberBefore DEF SecondLast, NoScan

LEMMA SecondLastOfNewest ==
    ASSUME ScansInv
    PROVE  SecondLast(newest) = {newest - 1} \cap stored
  <1>1. newest \in stored /\ newest \in Nat \ {0}
    BY StoredAre, NewestIsLast
  <1>2. ASSUME NEW x \in SecondLast(newest) PROVE x = newest - 1
    <2>1. /\ x \in stored
          /\ NumberOf(x) = IF NumberOf(newest) = 1 THEN LastNumber ELSE NumberOf(newest) - 1
      BY <1>1 DEF SecondLast, NoScan
    <2>2. x \in Nat \ {0} /\ x <= newest /\ newest - x < LastNumber - 1
          /\ LastNumber \in Nat /\ LastNumber > 2
      BY <2>1, StoredAre, Level2ChunksAssumption
    <2>3. CASE newest = 1
      <3>1. x = 1
        BY <2>2, <2>3
      <3>2. NumberOf(1) \in 1 .. LastNumber
        BY Numbers
      <3> QED  BY <2>1, <2>2, <2>3, <3>1, <3>2
    <2>4. CASE newest # 1
      <3>1. newest - 1 \in Nat \ {0} /\ NumberOf(x) = NumberOf(newest - 1)
        BY <1>1, <2>1, <2>4, NumberBefore
      <3>2. x - (newest - 1) < LastNumber /\ (newest - 1) - x < LastNumber
        BY <1>1, <2>2
      <3> QED  BY <2>2, <3>1, <3>2, SameNumber
    <2> QED  BY <2>3, <2>4
  <1>3. newest - 1 \in stored => newest - 1 \in SecondLast(newest)
    BY <1>1, SecondLastHas
  <1>4. SecondLast(newest) \subseteq stored
    BY DEF SecondLast
  <1> QED  BY <1>2, <1>3, <1>4

----------------------------------------------------------------------------
(* A scan of a round later has the same number.                             *)
LEMMA NumberComesRound ==
    ASSUME NEW s \in Nat \ {0}
    PROVE  NumberOf(s + LastNumber) = NumberOf(s)
  <1>1. LastNumber \in Nat /\ LastNumber > 0 /\ s - 1 \in Nat
    BY Level2ChunksAssumption
  <1>2. PICK a \in Nat : a = s - 1
    BY <1>1
  <1>3. /\ a % LastNumber \in 0 .. LastNumber - 1 /\ a \div LastNumber \in Int
        /\ a = LastNumber * (a \div LastNumber) + (a % LastNumber)
    BY <1>1, Remainder
  <1>4. PICK q \in Int, r \in 0 .. LastNumber - 1 :
            q = a \div LastNumber /\ r = a % LastNumber /\ a = LastNumber * q + r
    BY <1>3
  <1>5. LastNumber * (q + 1) = LastNumber * q + LastNumber
    BY <1>1
  <1>6. PICK b \in Nat, k \in Int : b = a + LastNumber /\ k = q + 1
    BY <1>1
  <1>7. b = LastNumber * k + r
    BY <1>1, <1>4, <1>5, <1>6
  <1>8. b % LastNumber = r
    BY <1>1, <1>7, OneRemainder
  <1>9. (s + LastNumber) - 1 = b
    BY <1>1, <1>2, <1>6
  <1> QED  BY <1>2, <1>4, <1>8, <1>9 DEF NumberOf

LEMMA ScansInit == ChunksInit => ScansInv
  <1> SUFFICES ASSUME ChunksInit PROVE ScansInv
    OBVIOUS
  <1> USE Level2ChunksAssumption
  <1>1. FirstSerial \in Serials /\ FirstSerial \in stored /\ stored \in SUBSET Serials
    BY DEF ChunksInit, Serials
  <1>2. InvalidRecord \in ScanRecords
    BY DEF InvalidRecord, ScanRecords
  <1>3. chunks \in [Serials -> SUBSET (1 .. LastChunk)]
    <2>1. 1 \in 1 .. LastChunk
      OBVIOUS
    <2> QED  BY <2>1 DEF ChunksInit
  <1>4. ChunksTypeOK
    <2>1. newest \in Serials /\ newest \in stored /\ seen \in Serials
      BY <1>1 DEF ChunksInit
    <2>2. 0 \in 0 .. MaxChunkFails
      OBVIOUS
    <2> QED  BY <1>1, <1>2, <1>3, <2>1, <2>2 DEF ChunksInit, ChunksTypeOK
  <1>5. Window
    BY DEF ChunksInit, Window
  <1>6. TimesTrue
    BY DEF ChunksInit, TimesTrue
  <1>7. LastFollows
    BY DEF ChunksInit, LastFollows, InvalidRecord
  <1>8. newest >= FirstSerial
    BY DEF ChunksInit
  <1> QED  BY <1>4, <1>5, <1>6, <1>7, <1>8 DEF ScansInv

LEMMA ScansBegin ==
    ASSUME ScansInv, NEW removed \in SUBSET stored, BeginScan(removed)
    PROVE  ScansInv'
  <1> DEFINE s == newest + 1
  <1>1. /\ newest < LastSerial /\ newest' = s /\ stored' = (stored \ removed) \cup {s}
        /\ newest \notin removed
        /\ \A x \in stored \ removed : NumberOf(x) # NumberOf(s) /\ NumberOf(x) # NumberOf(s + 1)
        /\ chunks' = [x \in Serials |-> IF x = s THEN {1}
                                        ELSE IF x \in removed THEN {} ELSE chunks[x]]
        /\ UNCHANGED <<times, scans, loads, refreshing, chunkFails>>
    BY DEF BeginScan
  <1>2. /\ newest \in Nat \ {0} /\ s \in Serials /\ LastNumber \in Nat /\ LastNumber > 2
        /\ LastChunk \in Nat \ {0}
    BY <1>1, Level2ChunksAssumption DEF ScansInv, ChunksTypeOK, Serials
  <1>3. chunks' \in [Serials -> SUBSET (1 .. LastChunk)]
    <2>1. 1 \in 1 .. LastChunk /\ chunks \in [Serials -> SUBSET (1 .. LastChunk)]
      BY <1>2 DEF ScansInv, ChunksTypeOK
    <2> HIDE DEF s
    <2> QED  BY <1>1, <2>1
  <1>4. ChunksTypeOK'
    <2> HIDE DEF s
    <2> QED  BY <1>1, <1>2, <1>3 DEF ScansInv, ChunksTypeOK, times, scans
  <1>5. Window'
    <2> SUFFICES ASSUME NEW x \in stored' PROVE x <= s /\ s - x < LastNumber - 1
      BY <1>1 DEF Window
    <2>1. CASE x = s
      BY <1>2, <2>1
    <2>2. CASE x \in stored \ removed
      <3>1. x \in Nat \ {0} /\ x <= newest /\ newest - x < LastNumber - 1
        BY <2>2, StoredAre
      <3>2. ASSUME s - x >= LastNumber - 1 PROVE FALSE
        <4>1. s + 1 = x + LastNumber
          BY <1>2, <3>1, <3>2
        <4>2. NumberOf(s + 1) = NumberOf(x)
          BY <3>1, <4>1, NumberComesRound
        <4> QED  BY <1>1, <2>2, <4>2
      <3> QED  BY <1>2, <3>1, <3>2
    <2> QED  BY <1>1, <2>1, <2>2
  <1>6. TimesTrue'
    <2> SUFFICES ASSUME NEW n \in 1 .. LastNumber, scanTimes[n] # NoScan
                 PROVE  NumberOf(scanTimes[n]) = n /\ scanTimes[n] <= s
      BY <1>1 DEF TimesTrue, times
    <2>1. NumberOf(scanTimes[n]) = n /\ scanTimes[n] <= newest
      BY DEF ScansInv, TimesTrue
    <2>2. scanTimes[n] \in Int
      BY Level2ChunksAssumption DEF ScansInv, ChunksTypeOK, Serials, NoScan
    <2> QED  BY <1>2, <2>1, <2>2
  <1>7. LastFollows'
    <2> SUFFICES ASSUME currentScan.valid
                 PROVE  currentScan.scan <= s /\ (lastScan.valid \/ currentScan.scan - 1 \notin stored')
      BY <1>1 DEF LastFollows, scans
    <2>1. currentScan.scan <= newest /\ (lastScan.valid \/ currentScan.scan - 1 \notin stored)
      BY DEF ScansInv, LastFollows
    <2>2. currentScan.scan \in Int
      BY Level2ChunksAssumption DEF ScansInv, ChunksTypeOK, ScanRecords, Serials, NoScan
    <2>3. currentScan.scan <= s /\ currentScan.scan - 1 # s
      BY <1>2, <2>1, <2>2
    <2> HIDE DEF s
    <2> QED  BY <1>1, <2>1, <2>3
  <1>8. newest' >= FirstSerial
    BY <1>1, <1>2, Level2ChunksAssumption DEF ScansInv
  <1> QED  BY <1>4, <1>5, <1>6, <1>7, <1>8 DEF ScansInv

LEMMA ScansUpload ==
    ASSUME ScansInv, NEW s \in Serials, NEW c \in 1 .. LastChunk, UploadChunk(s, c)
    PROVE  ScansInv'
  <1>1. chunks' = [chunks EXCEPT ![s] = @ \cup {c}]
        /\ UNCHANGED <<newest, stored, times, scans, loads, refreshing, chunkFails>>
    BY DEF UploadChunk
  <1>2. chunks' \in [Serials -> SUBSET (1 .. LastChunk)]
    BY <1>1 DEF ScansInv, ChunksTypeOK
  <1>3. ChunksTypeOK'
    BY <1>1, <1>2 DEF ScansInv, ChunksTypeOK, times, scans
  <1> QED  BY <1>1, <1>3 DEF ScansInv, Window, TimesTrue, LastFollows, times, scans

(* A record that is a part of a listing is of a scan that was stored.       *)
LEMMA NewRecordIs ==
    ASSUME NEW s \in Serials \cup {NoScan}
    PROVE  /\ NewRecord(s) \in ScanRecords /\ NewRecord(s).valid /\ NewRecord(s).scan = s
  BY Level2ChunksAssumption DEF NewRecord, ScanRecords

(* What a listing leaves in the records.                                    *)
LEMMA RotateGives ==
    ASSUME ScansInv, NEW latest \in stored \cup {NoScan}, Rotate(latest)
    PROVE  /\ currentScan' \in ScanRecords /\ lastScan' \in ScanRecords
           /\ currentScan'.valid
           /\ currentScan'.scan <= newest
           /\ lastScan'.valid \/ currentScan'.scan - 1 \notin stored
  <1>1. currentScan \in ScanRecords /\ lastScan \in ScanRecords /\ newest \in Nat \ {0}
    BY DEF ScansInv, ChunksTypeOK, Serials
  <1>2. CASE IsNewLatest(latest)
    <2>1. latest \in Serials \cup {NoScan} /\ latest <= newest
      BY <1>1, StoredAre DEF NoScan
    <2>2. currentScan' = NewRecord(latest)
      BY <1>2 DEF Rotate
    <2>3. currentScan' \in ScanRecords /\ currentScan'.valid /\ currentScan'.scan = latest
      BY <2>1, <2>2, NewRecordIs
    <2>4. CASE CurrentPrecedes(latest)
      <3>1. lastScan' = currentScan /\ currentScan.valid
        BY <1>2, <2>4 DEF Rotate, CurrentPrecedes
      <3> QED  BY <1>1, <2>1, <2>3, <3>1
    <2>5. CASE ~CurrentPrecedes(latest) /\ NewLast(latest) # {}
      <3>1. lastScan' = NewRecord(CHOOSE x \in NewLast(latest) : TRUE)
        BY <1>2, <2>5 DEF Rotate
      <3>2. (CHOOSE x \in NewLast(latest) : TRUE) \in NewLast(latest)
        BY <2>5
      <3>3. NewLast(latest) \subseteq Serials
        BY DEF NewLast, SecondLast, ScansInv, ChunksTypeOK
      <3> QED  BY <2>1, <2>3, <3>1, <3>2, <3>3, NewRecordIs
    <2>6. CASE ~CurrentPrecedes(latest) /\ NewLast(latest) = {}
      <3>1. lastScan' = lastScan
        BY <1>2, <2>6 DEF Rotate
      <3>2. SecondLast(latest) = {}
        BY <1>2, <2>6 DEF NewLast
      <3>3. latest - 1 \notin stored
        BY <3>2, SecondLastHas
      <3> QED  BY <1>1, <2>1, <2>3, <3>1, <3>3
    <2> QED  BY <2>4, <2>5, <2>6
  <1>3. CASE ~IsNewLatest(latest)
    <2>1. currentScan' = currentScan /\ lastScan' = lastScan
      BY <1>3 DEF Rotate, scans
    <2>2. currentScan.valid
      BY <1>3 DEF IsNewLatest
    <2> QED  BY <1>1, <2>1, <2>2 DEF ScansInv, LastFollows
  <1> QED  BY <1>2, <1>3

(* What a listing leaves in the times.                                      *)
LEMMA ListedTimes ==
    ASSUME ScansInv, NEW fails, ScansListed(fails)
    PROVE  /\ scanTimes' \in [1 .. LastNumber -> Serials \cup {NoScan}]
           /\ \A n \in 1 .. LastNumber :
                 scanTimes'[n] # NoScan => NumberOf(scanTimes'[n]) = n /\ scanTimes'[n] <= newest
  <1> DEFINE timed == (PossibleLast \cup NewLast(LastScanOf(fails))) \ fails
             one(n) == CHOOSE s \in timed : NumberOf(s) = n
  <1>1. scanTimes' = [n \in 1 .. LastNumber |-> IF \E s \in timed : NumberOf(s) = n
                        THEN GetScanTime(one(n)) ELSE scanTimes[n]]
    BY DEF ScansListed
  <1>2. timed \subseteq stored
    BY DEF PossibleLast, NewLast, SecondLast
  <1> HIDE DEF timed
  <1>3. ASSUME NEW n \in 1 .. LastNumber, \E s \in timed : NumberOf(s) = n
        PROVE  /\ GetScanTime(one(n)) \in Serials /\ NumberOf(GetScanTime(one(n))) = n
               /\ GetScanTime(one(n)) <= newest
    <2>1. one(n) \in timed /\ NumberOf(one(n)) = n
      BY <1>3
    <2> HIDE DEF one
    <2>2. GetScanTime(one(n)) = one(n)
      BY <1>2, <2>1, TimeIsOwn
    <2> QED  BY <1>2, <2>1, <2>2, StoredAre
  <1>4. scanTimes \in [1 .. LastNumber -> Serials \cup {NoScan}] /\ TimesTrue
    BY DEF ScansInv, ChunksTypeOK
  <1> HIDE DEF one
  <1>5. scanTimes' \in [1 .. LastNumber -> Serials \cup {NoScan}]
    BY <1>1, <1>3, <1>4
  <1>6. ASSUME NEW n \in 1 .. LastNumber, scanTimes'[n] # NoScan
        PROVE  NumberOf(scanTimes'[n]) = n /\ scanTimes'[n] <= newest
    <2>1. CASE \E s \in timed : NumberOf(s) = n
      <3>1. scanTimes'[n] = GetScanTime(one(n))
        BY <1>1, <2>1
      <3> QED  BY <1>3, <2>1, <3>1
    <2>2. CASE ~\E s \in timed : NumberOf(s) = n
      <3>1. scanTimes'[n] = scanTimes[n]
        BY <1>1, <2>2
      <3> QED  BY <1>4, <1>6, <3>1 DEF TimesTrue
    <2> QED  BY <2>1, <2>2
  <1> QED  BY <1>5, <1>6

(* The requests that failed are counted.                                    *)
LEMMA FailsCounted ==
    ASSUME ScansInv, NEW n \in Nat, FailRequests(n)
    PROVE  chunkFails' \in 0 .. MaxChunkFails
  BY Level2ChunksAssumption DEF ScansInv, ChunksTypeOK, FailRequests

LEMMA ScansBeginRefresh ==
    ASSUME ScansInv, NEW fails, BeginChunkRefresh(fails)
    PROVE  ScansInv'
  <1>1. /\ refreshing' = TRUE /\ loads' \in SUBSET {"current", "last"}
        /\ UNCHANGED <<newest, stored, chunks>>
    BY DEF BeginChunkRefresh, bucket
  <1>2. CASE \/ NothingListed /\ UNCHANGED <<listedLately, chunkFails>>
             \/ NothingListed /\ listedLately' = TRUE /\ FailRequests(1)
    <2>1. UNCHANGED <<seen, scanTimes, currentScan, lastScan>>
      BY <1>2 DEF NothingListed, scans
    <2>2. listedLately' \in BOOLEAN
      BY <1>2 DEF ScansInv, ChunksTypeOK
    <2>3. chunkFails' \in 0 .. MaxChunkFails
      <3>1. CASE UNCHANGED chunkFails
        BY <3>1 DEF ScansInv, ChunksTypeOK
      <3>2. CASE FailRequests(1)
        BY <3>2, FailsCounted
      <3> QED  BY <1>2, <3>1, <3>2
    <2>4. ChunksTypeOK'
      BY <1>1, <2>1, <2>2, <2>3 DEF ScansInv, ChunksTypeOK
    <2> QED  BY <1>1, <2>1, <2>4 DEF ScansInv, Window, TimesTrue, LastFollows
  <1>3. CASE listedLately' = TRUE /\ ScansListed(fails) /\ FailRequests(Cardinality(fails))
    <2>1. PICK latest : latest = LastScanOf(fails)
      OBVIOUS
    <2>2. latest \in stored \cup {NoScan}
      BY <2>1, LastScanIs
    <2>3. seen' = newest /\ Rotate(latest) /\ fails \subseteq PossibleLast \cup NewLast(latest)
      BY <1>3, <2>1 DEF ScansListed
    <2>4. /\ currentScan' \in ScanRecords /\ lastScan' \in ScanRecords
          /\ currentScan'.scan <= newest
          /\ lastScan'.valid \/ currentScan'.scan - 1 \notin stored
      BY <2>2, <2>3, RotateGives
    <2>5. /\ scanTimes' \in [1 .. LastNumber -> Serials \cup {NoScan}]
          /\ \A n \in 1 .. LastNumber :
                scanTimes'[n] # NoScan => NumberOf(scanTimes'[n]) = n /\ scanTimes'[n] <= newest
      BY <1>3, ListedTimes
    <2>6. fails \in SUBSET stored
      BY <2>3 DEF PossibleLast, NewLast, SecondLast
    <2>7. chunkFails' \in 0 .. MaxChunkFails
      BY <1>3, <2>6, StoredIsFinite, FailsCounted
    <2>8. ChunksTypeOK'
      BY <1>1, <1>3, <2>3, <2>4, <2>5, <2>7 DEF ScansInv, ChunksTypeOK
    <2>9. Window' /\ LastFollows'
      BY <1>1, <2>4 DEF ScansInv, Window, LastFollows
    <2>10. TimesTrue'
      BY <1>1, <2>5 DEF TimesTrue
    <2>11. newest' >= FirstSerial
      BY <1>1 DEF ScansInv
    <2> QED  BY <2>8, <2>9, <2>10, <2>11 DEF ScansInv
  <1> QED  BY <1>2, <1>3 DEF BeginChunkRefresh

(* What is loaded of a scan keeps its record that scan's.                   *)
LEMMA LoadedIs ==
    ASSUME ScansInv, NEW r \in ScanRecords, NEW result \in LoadScan(r)
    PROVE  /\ result[1] \in ScanRecords /\ result[2] \in {0, 1}
           /\ result[1].valid = r.valid /\ result[1].scan = r.scan
  <1>1. NewChunks(r) \subseteq 1 .. LastChunk
    <2>1. stored \subseteq Serials /\ chunks \in [Serials -> SUBSET (1 .. LastChunk)]
      BY DEF ScansInv, ChunksTypeOK
    <2> QED  BY <2>1 DEF NewChunks
  <1>2. ASSUME NEW some \in SUBSET (1 .. LastChunk)
        PROVE  /\ Loaded(r, some) \in ScanRecords
               /\ Loaded(r, some).valid = r.valid /\ Loaded(r, some).scan = r.scan
    <2>1. CASE some = {}
      BY <2>1 DEF Loaded
    <2>2. CASE some # {}
      <3> DEFINE f == [c \in some |-> c]
      <3>1. LastChunk \in Nat /\ 1 \in Int /\ IsFiniteSet(1 .. LastChunk)
        BY Level2ChunksAssumption, FS_Interval
      <3>2. f \in [some -> Nat] /\ IsFiniteSet(some)
        <4>1. some \subseteq Nat
          BY <3>1
        <4>2. IsFiniteSet(some)
          BY <3>1, FS_Subset
        <4> QED  BY <4>1, <4>2
      <3>3. PICK m \in some : \A k \in some : f[k] <= f[m]
        <4> HIDE DEF f
        <4> QED  BY <2>2, <3>2, GreatestOfFinite
      <3>4. \A k \in some : m >= k
        BY <3>1, <3>3
      <3>5. Max(some) \in some
        <4>1. \E x \in some : \A y \in some : x >= y
          BY <3>4
        <4> QED  BY <4>1, Zenon DEF Max
      <3>6. Max(some) \in 0 .. LastChunk
        <4>1. \A x \in some : x \in 0 .. LastChunk
          BY <3>1
        <4> QED  BY <3>5, <4>1, Zenon
      <3>7. Loaded(r, some) =
              [valid |-> r.valid, scan |-> r.scan, lastKey |-> Max(some),
               hasAllFiles |-> LastChunk \in some]
        <4>1. r = [valid |-> r.valid, scan |-> r.scan, lastKey |-> r.lastKey,
                   hasAllFiles |-> r.hasAllFiles]
          BY DEF ScanRecords
        <4> QED  BY <2>2, <4>1 DEF Loaded
      <3> QED  BY <3>6, <3>7 DEF ScanRecords
    <2> QED  BY <2>1, <2>2
  <1>3. CASE result = <<r, 0>>
    BY <1>3
  <1>4. CASE result = <<Loaded(r, NewChunks(r)), 0>>
    BY <1>1, <1>2, <1>4
  <1>5. CASE \E c \in NewChunks(r) : result = <<Loaded(r, {x \in NewChunks(r) : x < c}), 1>>
    <2>1. PICK c \in NewChunks(r) : result = <<Loaded(r, {x \in NewChunks(r) : x < c}), 1>>
      BY <1>5
    <2>2. {x \in NewChunks(r) : x < c} \in SUBSET (1 .. LastChunk)
      BY <1>1
    <2> QED  BY <1>2, <2>1, <2>2
  <1> QED  BY <1>3, <1>4, <1>5 DEF LoadScan

LEMMA ScansLoadCurrent ==
    ASSUME ScansInv, LoadCurrentScan
    PROVE  ScansInv'
  <1>1. currentScan \in ScanRecords
    BY DEF ScansInv, ChunksTypeOK
  <1>2. PICK result \in LoadScan(currentScan) :
            currentScan' = result[1] /\ FailRequests(result[2])
    BY DEF LoadCurrentScan
  <1>3. UNCHANGED <<newest, stored, chunks, seen, listedLately, scanTimes, lastScan, refreshing>>
        /\ loads' = loads \ {"current"}
    BY DEF LoadCurrentScan, bucket, times
  <1>4. /\ currentScan' \in ScanRecords /\ result[2] \in Nat
        /\ currentScan'.valid = currentScan.valid /\ currentScan'.scan = currentScan.scan
    BY <1>1, <1>2, LoadedIs
  <1>5. chunkFails' \in 0 .. MaxChunkFails
    BY <1>2, <1>4, FailsCounted
  <1>6. ChunksTypeOK'
    BY <1>3, <1>4, <1>5 DEF ScansInv, ChunksTypeOK
  <1> QED  BY <1>3, <1>4, <1>6 DEF ScansInv, Window, TimesTrue, LastFollows

LEMMA ScansLoadLast ==
    ASSUME ScansInv, NEW inArchive \in BOOLEAN, LoadLastScan(inArchive)
    PROVE  ScansInv'
  <1>1. lastScan \in ScanRecords
    BY DEF ScansInv, ChunksTypeOK
  <1>2. UNCHANGED <<newest, stored, chunks, seen, listedLately, scanTimes, currentScan, refreshing>>
        /\ loads' = loads \ {"last"}
    BY DEF LoadLastScan, bucket, times
  <1>3. /\ lastScan' \in ScanRecords /\ chunkFails' \in 0 .. MaxChunkFails
        /\ lastScan'.valid = lastScan.valid
    <2>1. CASE lastScan' = [lastScan EXCEPT !.hasAllFiles = TRUE] /\ UNCHANGED chunkFails
      <3>1. lastScan = [valid |-> lastScan.valid, scan |-> lastScan.scan,
                        lastKey |-> lastScan.lastKey, hasAllFiles |-> lastScan.hasAllFiles]
        BY <1>1 DEF ScanRecords
      <3>2. lastScan' = [valid |-> lastScan.valid, scan |-> lastScan.scan,
                         lastKey |-> lastScan.lastKey, hasAllFiles |-> TRUE]
        BY <2>1, <3>1
      <3> QED  BY <1>1, <2>1, <3>2 DEF ScanRecords, ScansInv, ChunksTypeOK
    <2>2. CASE \E result \in LoadScan(lastScan) :
                   lastScan' = result[1] /\ FailRequests(result[2])
      <3>1. PICK result \in LoadScan(lastScan) :
                lastScan' = result[1] /\ FailRequests(result[2])
        BY <2>2
      <3>2. /\ lastScan' \in ScanRecords /\ result[2] \in Nat
            /\ lastScan'.valid = lastScan.valid
        BY <1>1, <3>1, LoadedIs
      <3> QED  BY <3>1, <3>2, FailsCounted
    <2> QED  BY <2>1, <2>2 DEF LoadLastScan
  <1>4. ChunksTypeOK'
    BY <1>2, <1>3 DEF ScansInv, ChunksTypeOK
  <1> QED  BY <1>2, <1>3, <1>4 DEF ScansInv, Window, TimesTrue, LastFollows

LEMMA ScansStep == ScansInv /\ [ChunksNext]_chunkVars => ScansInv'
  <1> SUFFICES ASSUME ScansInv, [ChunksNext]_chunkVars PROVE ScansInv'
    OBVIOUS
  <1>1. CASE \E removed \in SUBSET stored : BeginScan(removed)
    BY <1>1, ScansBegin
  <1>2. CASE \E s \in Serials, c \in 1 .. LastChunk : UploadChunk(s, c)
    BY <1>2, ScansUpload
  <1>3. CASE TwoMinutesPass
    <2>1. ChunksTypeOK'
      BY <1>3 DEF TwoMinutesPass, ScansInv, ChunksTypeOK, bucket, scans
    <2> QED  BY <1>3, <2>1 DEF TwoMinutesPass, ScansInv, Window, TimesTrue, LastFollows, bucket, scans
  <1>4. CASE \E fails \in SUBSET TimesToAsk : BeginChunkRefresh(fails)
    BY <1>4, ScansBeginRefresh
  <1>5. CASE LoadCurrentScan
    BY <1>5, ScansLoadCurrent
  <1>6. CASE \E inArchive \in BOOLEAN : LoadLastScan(inArchive)
    BY <1>6, ScansLoadLast
  <1>7. CASE EndChunkRefresh
    <2>1. ChunksTypeOK'
      BY <1>7 DEF EndChunkRefresh, ScansInv, ChunksTypeOK, bucket, times, scans
    <2> QED  BY <1>7, <2>1 DEF EndChunkRefresh, ScansInv, Window, TimesTrue, LastFollows,
                bucket, times, scans
  <1>8. CASE UNCHANGED chunkVars
    <2>1. ChunksTypeOK'
      BY <1>8 DEF chunkVars, ScansInv, ChunksTypeOK, bucket, times, scans
    <2> QED  BY <1>8, <2>1 DEF chunkVars, ScansInv, Window, TimesTrue, LastFollows,
                bucket, times, scans
  <1> QED  BY <1>1, <1>2, <1>3, <1>4, <1>5, <1>6, <1>7, <1>8 DEF ChunksNext, ChunkRefreshStep

(* The scans of the provider have their types: the records, the times and   *)
(* the chunks, whatever is removed and whatever fails.                      *)
THEOREM ChunksTypes == ChunksSpec => []ChunksTypeOK
  <1>1. ScansInv => ChunksTypeOK
    BY DEF ScansInv
  <1> QED  BY <1>1, ScansInit, ScansStep, PTL DEF ChunksSpec

(* A record of this round that has the newest scan's prefix is its record.  *)
LEMMA PrefixOfRound ==
    ASSUME ScansInv, CurrentIsOfRound, currentScan.valid,
           NEW s \in stored, newest - s < LastNumber - 1, SamePrefix(currentScan, s)
    PROVE  currentScan.scan = s
  <1>1. /\ s \in Nat \ {0} /\ s <= newest /\ newest \in Nat /\ LastNumber \in Nat
        /\ LastNumber > 0
    BY StoredAre, Level2ChunksAssumption DEF ScansInv, ChunksTypeOK, Serials
  <1>2. currentScan.scan \in Serials \cup {NoScan} /\ currentScan.scan <= newest
    BY DEF ScansInv, ChunksTypeOK, ScanRecords, LastFollows
  <1>3. CASE currentScan.scan = NoScan
    BY <1>3 DEF SamePrefix
  <1>4. CASE currentScan.scan # NoScan
    <2>1. currentScan.scan \in Nat \ {0}
      BY <1>2, <1>4, Level2ChunksAssumption DEF Serials
    <2>2. NumberOf(currentScan.scan) = NumberOf(s)
      BY <1>1, <1>4 DEF SamePrefix, NoScan
    <2>3. newest - currentScan.scan < LastNumber
      BY <1>4 DEF CurrentIsOfRound
    <2>4. currentScan.scan - s < LastNumber /\ s - currentScan.scan < LastNumber
      BY <1>1, <1>2, <2>1, <2>3
    <2> QED  BY <1>1, <2>1, <2>2, <2>4, SameNumber
  <1> QED  BY <1>3, <1>4

(* A listing, of which no request fails, finds the latest scan and the one  *)
(* before it, wherever the numbers go round and whatever is removed.        *)
THEOREM ListingFinds == ChunksSpec => ListingFindsNewest
  <1> DEFINE Lists == /\ ~refreshing /\ refreshing' /\ listedLately' /\ ~Throttled
                      /\ chunkFails' = chunkFails /\ CurrentIsOfRound
             Finds == /\ currentScan'.valid /\ currentScan'.scan = newest
                      /\ (newest - 1 \in stored
                           => /\ lastScan'.valid
                              /\ lastScan'.scan = newest - 1 \/ currentScan'.scan = currentScan.scan)
  <1>1. ASSUME ScansInv, ChunksNext, Lists
        PROVE  Finds
    <2>1. PICK fails : BeginChunkRefresh(fails)
      BY <1>1 DEF ChunksNext, ChunkRefreshStep, BeginScan, UploadChunk, TwoMinutesPass,
         LoadCurrentScan, LoadLastScan, EndChunkRefresh
    <2>2. chunkFails \in Nat /\ chunkFails' = chunkFails
      BY <1>1, Level2ChunksAssumption DEF ScansInv, ChunksTypeOK
    <2>3. ~FailRequests(1)
      BY <2>2 DEF FailRequests
    <2>4. ScansListed(fails) /\ FailRequests(Cardinality(fails))
      BY <1>1, <2>1, <2>3 DEF BeginChunkRefresh
    <2>5. fails \in SUBSET stored
      BY <2>4 DEF ScansListed, PossibleLast, NewLast, SecondLast
    <2>6. IsFiniteSet(fails) /\ Cardinality(fails) \in Nat
      BY <1>1, <2>5, StoredIsFinite
    <2>7. Cardinality(fails) = 0
      BY <2>2, <2>4, <2>6 DEF FailRequests
    <2>8. fails = {}
      BY <2>6, <2>7, FS_EmptySet
    <2>9. newest \in stored /\ Rotate(newest)
      <3>1. Rotate(LastScanOf(fails))
        BY <2>4 DEF ScansListed
      <3> QED  BY <1>1, <2>8, <3>1, NewestIsLast
    <2>10. newest \in Nat \ {0} /\ newest \in Serials /\ LastNumber \in Nat /\ LastNumber > 2
      BY <1>1, <2>9, StoredAre, Level2ChunksAssumption
    <2>11. CASE IsNewLatest(newest)
      <3>1. currentScan' = NewRecord(newest)
        BY <2>9, <2>11 DEF Rotate
      <3>2. currentScan'.valid /\ currentScan'.scan = newest
        BY <2>10, <3>1, NewRecordIs
      <3>3. ASSUME newest - 1 \in stored
            PROVE  lastScan'.valid /\ lastScan'.scan = newest - 1
        <4>1. SecondLast(newest) = {newest - 1} /\ newest - 1 \in Serials
          BY <1>1, <3>3, SecondLastOfNewest, StoredAre
        <4>2. CASE CurrentPrecedes(newest)
          <5>1. lastScan' = currentScan /\ currentScan.valid /\ SamePrefix(currentScan, newest - 1)
            BY <2>9, <2>11, <4>1, <4>2 DEF Rotate, CurrentPrecedes
          <5>2. newest - (newest - 1) < LastNumber - 1
            BY <2>10
          <5>3. currentScan.scan = newest - 1
            BY <1>1, <3>3, <5>1, <5>2, PrefixOfRound
          <5> QED  BY <5>1, <5>3
        <4>3. CASE ~CurrentPrecedes(newest)
          <5>1. NewLast(newest) = {newest - 1}
            BY <2>11, <4>1, <4>3 DEF NewLast
          <5>2. lastScan' = NewRecord(CHOOSE x \in NewLast(newest) : TRUE)
            BY <2>9, <2>11, <4>3, <5>1 DEF Rotate
          <5>3. lastScan' = NewRecord(newest - 1)
            BY <5>1, <5>2
          <5> QED  BY <4>1, <5>3, NewRecordIs
        <4> QED  BY <4>2, <4>3
      <3> QED  BY <3>2, <3>3
    <2>12. CASE ~IsNewLatest(newest)
      <3>1. currentScan' = currentScan /\ lastScan' = lastScan
        BY <2>9, <2>12 DEF Rotate, scans
      <3>2. currentScan.valid /\ SamePrefix(currentScan, newest)
        BY <2>12 DEF IsNewLatest
      <3>3. newest - newest < LastNumber - 1
        BY <2>10
      <3>4. currentScan.scan = newest
        BY <1>1, <2>9, <3>2, <3>3, PrefixOfRound
      <3>5. newest - 1 \in stored => lastScan.valid
        BY <1>1, <3>2, <3>4 DEF ScansInv, LastFollows
      <3> QED  BY <3>1, <3>2, <3>4, <3>5
    <2> QED  BY <2>11, <2>12
  <1>2. ScansInv /\ [ChunksNext]_chunkVars => [Lists => Finds]_chunkVars
    BY <1>1
  <1>3. [][Lists => Finds]_chunkVars => ListingFindsNewest
    BY DEF ListingFindsNewest
  <1> HIDE DEF Lists, Finds
  <1> QED  BY <1>2, <1>3, ScansInit, ScansStep, PTL DEF ChunksSpec

----------------------------------------------------------------------------
(* The composition that is checked: one of the four moves.                  *)

LEMMA FeedsStep ==
    [MCNext]_<<chosen, vars, chunkVars, placefileVars, lightningVars>>
        => /\ [Next]_vars /\ [ChunksNext]_chunkVars
           /\ [PlacefilesNext]_placefileVars /\ [LightningNext]_lightningVars
  BY DEF MCNext, RefreshesMove, ChunksMove, PlacefilesMove, LightningMoves

(* Side by side all keep their types, so what is proved of each of them     *)
(* holds in the composition.                                                *)
THEOREM FeedsTypes == MCSpec => []FeedsTypeOK
  <1>1. MCInit => TypeOK /\ ScansInv /\ PlacefilesTypeOK /\ LightningTypeOK
    BY TypeOKInit, ScansInit, PlacefilesTypeOKInit, LightningTypeInit DEF MCInit
  <1>2. TypeOK /\ [Next]_vars => TypeOK'
    BY TypeOKInductive
  <1>3. ScansInv /\ [ChunksNext]_chunkVars => ScansInv'
    BY ScansStep
  <1>4. PlacefilesTypeOK /\ [PlacefilesNext]_placefileVars => PlacefilesTypeOK'
    BY PlacefilesTypeOKInductive
  <1>5. LightningTypeOK /\ [LightningNext]_lightningVars => LightningTypeOK'
    BY LightningTypeStep
  <1>6. TypeOK /\ ScansInv /\ PlacefilesTypeOK /\ LightningTypeOK => FeedsTypeOK
    BY DEF ScansInv, FeedsTypeOK
  <1> QED  BY <1>1, <1>2, <1>3, <1>4, <1>5, <1>6, FeedsStep, PTL DEF MCSpec
=============================================================================
