------------------------------- MODULE Level2View -------------------------------
(***************************************************************************)
(* How a Level 2 radar product view comes to show an elevation at a time:   *)
(* RadarProductView and Level2ProductView on one side, on the other         *)
(* RadarProductManager::GetLevel2Data, which looks first at the volumes     *)
(* that the chunks provider puts together and then at those of the archive, *)
(* lists and loads what is missing there in the background.                 *)
(*                                                                          *)
(* The GUI thread selects times and elevations and handles queued signals;  *)
(* the view's pool (one thread, under sweepMutex_) computes sweeps and      *)
(* reads the selection without a lock; the manager's threadPool_ lists and  *)
(* loads.  The chunks provider, other views and the cache are environment.  *)
(*                                                                          *)
(* A volume is a set of scans of elevation cuts, each with its time; low    *)
(* cuts may be scanned again.  All have the data of the view's product.     *)
(* The days that a query covers are one, as in Level3View.                  *)
(***************************************************************************)
EXTENDS Integers, Sequences, FiniteSets, Functions

CONSTANTS
    Volumes,      \* times at which the radar's volume scans begin
    ScansOf,      \* volume -> its scans
    Archived,     \* the volumes the archive lists when it is first asked
    VolumeTimes,  \* the times that may be selected, beside the latest
    Elevations,   \* the elevations that may be selected
    Reach,        \* how far from its request a volume of the archive may be
    MaxChunkDelay, \* how old a scan of the chunks may be: maxChunkDelay
    Clock,        \* the time of the clock
    MaxPending    \* bound: updates, listings, loads and signals under way
                  \* when the environment adds another

Epoch == 0    \* the default time point: whatever is the latest

(* A scan of a cut; radarData when there is none.                           *)
NoScan == [cut |-> 0, time |-> Epoch]

ASSUME Level2Assumption ==
    /\ Volumes \subseteq Nat \ {Epoch} /\ Archived \subseteq Volumes
    /\ VolumeTimes \subseteq Nat \ {Epoch} /\ Elevations \subseteq Nat
    /\ \A v \in Volumes : ScansOf[v] \subseteq [cut : Nat, time : {t \in Nat : t >= v}]
    /\ Reach \in Nat /\ MaxChunkDelay \in Nat /\ Clock \in Nat /\ MaxPending \in Nat

(* A volume has scans, which are made before the next volume begins.        *)
ASSUME VolumesFollow ==
    /\ IsFiniteSet(Volumes)
    /\ \A v \in Volumes : ScansOf[v] # {} /\ IsFiniteSet(ScansOf[v])
    /\ \A v, w \in Volumes : v < w => \A s \in ScansOf[v] : s.time < w

VARIABLES
    wanted,     \* selectedTime_ and selectedElevation_
    pending,    \* calls of ComputeSweep waiting in the view's pool
    sweep,      \* the running call, or what the last one was about and got;
                \* its status is then loadStatus_
    populated,  \* the archive provider has cached the days that are asked for
    records,    \* the keys of level2ProductRecords_
    held,       \* those whose weak references still find a record
    populating, \* time -> PopulateLevel2ProductTimes tasks posted for it
    reloading,  \* volume -> loads posted for it
    emitted,    \* signals queued for the GUI thread, oldest first
    chunkFiles, \* what has been loaded of the current and the last volume
    barren      \* history: the volumes whose last load brought no record

viewing == <<wanted, pending, sweep>>
fetched == <<populated, records, held, populating, reloading>>
level2Vars == <<wanted, pending, sweep, populated, records, held, populating,
                reloading, emitted, chunkFiles, barren>>

Queries == VolumeTimes \cup {Epoch}
Selections == [time : Queries, elevation : Elevations]
Scans == [cut : Nat, time : Nat]

LoadStatuses == {"ProductNotLoaded", "ListingProducts", "LoadingProduct",
                 "ProductLoaded", "ProductNotAvailable"}

(* elevation matters from "archive" on; lacking are the records asked for   *)
(* that have expired.                                                       *)
Sweeps == [pc : {"idle", "begun", "archive", "answered"},
           time : Queries, elevation : Elevations,
           scan : Scans, status : LoadStatuses, lacking : SUBSET Volumes]

Reloaded == [kind |-> "DataReloaded"]
TimesPopulated(time) == [kind |-> "ProductTimesPopulated", time |-> time]
Emissions == {Reloaded} \cup {TimesPopulated(time) : time \in Queries}

NoFile == [volume |-> Epoch, scans |-> {}]
ChunkFileTypes == [volume : Volumes \cup {Epoch}, scans : SUBSET Scans]

Level2TypeOK ==
    /\ wanted \in Selections
    /\ pending \in Nat
    /\ sweep \in Sweeps
    /\ populated \in BOOLEAN
    /\ records \subseteq Volumes /\ held \subseteq records
    /\ populating \in [Queries -> Nat]
    /\ reloading \in [Volumes -> Nat]
    /\ emitted \in Seq(Emissions)
    /\ chunkFiles \in [{"current", "last"} -> ChunkFileTypes]
    /\ barren \subseteq Volumes

(* The view is created, given a time and initialized.                       *)
Level2Init ==
    /\ wanted \in Selections
    /\ pending = 1
    /\ sweep = [pc |-> "idle", time |-> wanted.time, elevation |-> wanted.elevation,
                scan |-> NoScan, status |-> "ProductNotLoaded", lacking |-> {}]
    /\ populated = FALSE
    /\ records = {}
    /\ held = {}
    /\ populating = [time \in Queries |-> 0]
    /\ reloading = [v \in Volumes |-> 0]
    /\ emitted = <<>>
    /\ chunkFiles = [current |-> NoFile, last |-> NoFile]
    /\ barren = {}

Pending ==
    pending + (IF sweep.pc = "idle" THEN 0 ELSE 1) + SumFunction(populating)
      + SumFunction(reloading) + Len(emitted)

----------------------------------------------------------------------------
(* The files.                                                               *)

Distance(a, b) == IF a < b THEN b - a ELSE a - b
LatestOf(scans) == CHOOSE s \in scans : \A o \in scans : o.time <= s.time
EarliestOf(scans) == CHOOSE s \in scans : \A o \in scans : s.time <= o.time

(* Of two cuts as close, the upper.                                         *)
ClosestCut(file, elevation) ==
    LET cuts == {s.cut : s \in file}
    IN  CHOOSE c \in cuts : \A d \in cuts :
            \/ Distance(c, elevation) < Distance(d, elevation)
            \/ Distance(c, elevation) = Distance(d, elevation) /\ c >= d

CutOf(file, elevation) == {s \in file : s.cut = ClosestCut(file, elevation)}

NotNewer(scans, time) == {s \in scans : time = Epoch \/ s.time <= time}

(* Ar2vFile::GetElevationScan: of the closest cut the latest scan that is   *)
(* not newer than the time; the first, if all are newer.                    *)
GetElevationScan(file, elevation, time) ==
    LET scans == CutOf(file, elevation)
    IN  IF file = {} THEN NoScan
        ELSE IF NotNewer(scans, time) # {} THEN LatestOf(NotNewer(scans, time))
        ELSE EarliestOf(scans)

(* The file of the current volume and the last: of the last, the latest     *)
(* scans of the cuts above those that the current one has.  That a scan     *)
(* still being made is filled up with the radials of the one before it is   *)
(* left out.                                                                *)
Merged(current, last) ==
    current \cup {s \in last : /\ \A o \in current : o.cut < s.cut
                               /\ \A o \in last : o.cut = s.cut => o.time <= s.time}

(* AwsLevel2ChunksDataProvider::LoadObjectByTime.                           *)
LoadChunksByTime(time) ==
    LET current == chunkFiles.current
        last    == chunkFiles.last
    IN  IF current.volume # Epoch /\ (time = Epoch \/ time >= current.volume)
        THEN Merged(current.scans, last.scans)
        ELSE IF last.volume # Epoch /\ time >= last.volume THEN last.scans
        ELSE {}

----------------------------------------------------------------------------
(* The GUI thread.                                                          *)

(* A selection, then an update.                                             *)
Select(selection) ==
    /\ Pending < MaxPending
    /\ wanted' = selection
    /\ pending' = pending + 1
    /\ UNCHANGED <<sweep, fetched, emitted, chunkFiles, barren>>

SelectVolumeTime(time) == Select([wanted EXCEPT !.time = time])
SelectElevation(elevation) == Select([wanted EXCEPT !.elevation = elevation])

(* Mutant of Updates: records are reloaded for the latest time only.        *)
UpdatesLatest(signal) ==
    IF signal = Reloaded THEN wanted.time = Epoch ELSE signal.time = wanted.time

(* The view's handlers: any record of Level 2 that was reloaded, and a      *)
(* listing for what is selected, update it.                                 *)
Updates(signal) == signal = Reloaded \/ signal = TimesPopulated(wanted.time)

HandleEmitted ==
    /\ emitted # <<>>
    /\ emitted' = Tail(emitted)
    /\ pending' = IF Updates(Head(emitted)) THEN pending + 1 ELSE pending
    /\ UNCHANGED <<wanted, sweep, fetched, chunkFiles, barren>>

----------------------------------------------------------------------------
(* ComputeSweep, in the view's pool.                                        *)

BeginSweep ==
    /\ sweep.pc = "idle"
    /\ pending > 0
    /\ pending' = pending - 1
    /\ sweep' = [sweep EXCEPT !.pc = "begun", !.time = wanted.time, !.scan = NoScan,
                              !.status = "ProductNotLoaded", !.lacking = {}]
    /\ UNCHANGED <<wanted, fetched, emitted, chunkFiles, barren>>

(* GetLevel2Data looks for the data in the chunks: a scan that is not too   *)
(* old for the request is the answer.                                       *)
AskChunks ==
    /\ sweep.pc = "begun"
    /\ LET scan == GetElevationScan(LoadChunksByTime(sweep.time), wanted.elevation,
                                    sweep.time)
           asOf == IF sweep.time = Epoch THEN Clock ELSE sweep.time
           asked == [sweep EXCEPT !.elevation = wanted.elevation, !.scan = scan]
       IN  sweep' = IF scan # NoScan /\ scan.time >= asOf - MaxChunkDelay
                    THEN [asked EXCEPT !.pc = "answered", !.status = "ProductLoaded"]
                    ELSE [asked EXCEPT !.pc = "archive"]
    /\ UNCHANGED <<wanted, pending, fetched, emitted, chunkFiles, barren>>

(* The rest of GetLevel2Data is about the archive.  Its days are not all    *)
(* cached: list them.                                                       *)
ListVolumes ==
    /\ sweep.pc = "archive"
    /\ ~populated
    /\ populating' = [populating EXCEPT ![sweep.time] = @ + 1]
    /\ sweep' = [sweep EXCEPT !.pc = "answered", !.status = "ListingProducts"]
    /\ UNCHANGED <<wanted, pending, populated, records, held, reloading, emitted,
                   chunkFiles, barren>>

Within(v, time) ==
    IF time = Epoch THEN v > Clock - Reach ELSE Distance(v, time) < Reach

(* GetBoundedElementIterator: the last key that is not after the time, or   *)
(* the first key.                                                           *)
Begun(time) == {v \in records : time = Epoch \/ v <= time}
Bounding(time) ==
    IF records = {} THEN {}
    ELSE IF Begun(time) # {} THEN {v \in Begun(time) : \A o \in Begun(time) : o <= v}
    ELSE {v \in records : \A o \in records : v <= o}

(* Mutant of Asked: the record before is forgotten.                         *)
AskedOne(time) == {v \in Bounding(time) : Within(v, time)}

(* The records that may have what is wanted: the bounding one, and for a    *)
(* given time the one before it.                                            *)
Asked(time) ==
    LET before == {v \in records : \E b \in Bounding(time) : v < b}
    IN  {v \in Bounding(time) \cup
               {p \in before : time # Epoch /\ \A o \in before : o <= p} :
            Within(v, time)}

(* Find the newest radar data, not newer than the selected time: of the     *)
(* file of a volume and what was found before ...                           *)
NewerOf(found, v, elevation, time) ==
    LET scan == GetElevationScan(ScansOf[v], elevation, time)
    IN  IF \/ found = NoScan
           \/ scan \in NotNewer({scan}, time) /\ found.time < scan.time
        THEN scan ELSE found

(* ... and of volumes, in their order; there are two at most.               *)
Newest(found, volumes, elevation, time) ==
    LET last == {v \in volumes : \A o \in volumes : o <= v}
        Over(newest, some) ==
            IF some = {} THEN newest
            ELSE NewerOf(newest, CHOOSE v \in some : TRUE, elevation, time)
    IN  Over(Over(found, volumes \ last), last)

(* What the records still found hold is the answer for now, the expired     *)
(* ones are loaded again.                                                   *)
AskRecords ==
    /\ sweep.pc = "archive"
    /\ populated
    /\ LET asked   == Asked(sweep.time)
           lacking == asked \ held
           scan    == Newest(sweep.scan, asked \cap held, sweep.elevation, sweep.time)
           status  == IF asked = {} \/ (lacking = {} /\ scan = NoScan)
                      THEN "ProductNotAvailable"
                      ELSE IF lacking = {} THEN "ProductLoaded" ELSE "LoadingProduct"
       IN  /\ sweep' = [sweep EXCEPT !.pc = "answered", !.scan = scan,
                                     !.status = status, !.lacking = lacking]
           /\ reloading' = [v \in Volumes |-> IF v \in lacking THEN reloading[v] + 1
                                              ELSE reloading[v]]
           /\ barren' = barren \ lacking
    /\ UNCHANGED <<wanted, pending, populated, records, held, populating, emitted,
                   chunkFiles>>

(* The status is set, and a scan that was found is drawn.                   *)
FinishSweep ==
    /\ sweep.pc = "answered"
    /\ sweep' = [sweep EXCEPT !.pc = "idle"]
    /\ UNCHANGED <<wanted, pending, fetched, emitted, chunkFiles, barren>>

----------------------------------------------------------------------------
(* The manager's threadPool_.                                               *)

(* A listing ends, and is announced whether it succeeded or not.            *)
PopulateLevel2ProductTimes(time, succeeds) ==
    /\ populating[time] > 0
    /\ populating' = [populating EXCEPT ![time] = @ - 1]
    /\ populated' = (populated \/ succeeds)
    /\ records' = IF succeeds THEN records \cup Archived ELSE records
    /\ emitted' = Append(emitted, TimesPopulated(time))
    /\ UNCHANGED <<viewing, held, reloading, chunkFiles, barren>>

(* A record is loaded and stored, and its reload announced.                 *)
LoadLevel2Data(v) ==
    /\ reloading[v] > 0
    /\ reloading' = [reloading EXCEPT ![v] = @ - 1]
    /\ held' = held \cup {v}
    /\ barren' = barren \ {v}
    /\ emitted' = Append(emitted, Reloaded)
    /\ UNCHANGED <<viewing, populated, records, populating, chunkFiles>>

(* There is no such object, or it is not valid.                             *)
LoadLevel2Fails(v) ==
    /\ reloading[v] > 0
    /\ reloading' = [reloading EXCEPT ![v] = @ - 1]
    /\ barren' = barren \cup {v}
    /\ UNCHANGED <<viewing, populated, records, held, populating, emitted, chunkFiles>>

----------------------------------------------------------------------------
(* The environment.                                                         *)

(* Another Level 2 view asks for a record that has expired.                 *)
OtherViewReloads(v) ==
    /\ Pending < MaxPending
    /\ v \in records \ held
    /\ reloading' = [reloading EXCEPT ![v] = @ + 1]
    /\ barren' = barren \ {v}
    /\ UNCHANGED <<viewing, populated, records, held, populating, emitted, chunkFiles>>

(* Other records push one out of the cache.                                 *)
VolumeExpires(v) ==
    /\ Pending < MaxPending
    /\ v \in held
    /\ held' = held \ {v}
    /\ UNCHANGED <<viewing, populated, records, populating, reloading, emitted,
                   chunkFiles, barren>>

(* A refresh of the archive finds a volume.                                 *)
VolumeArchived(v) ==
    /\ v \notin records
    /\ records' = records \cup {v}
    /\ UNCHANGED <<viewing, populated, held, populating, reloading, emitted,
                   chunkFiles, barren>>

(* A refresh of the chunks loads the next scan of a volume.                 *)
ChunksLoaded(which) ==
    LET file == chunkFiles[which]
        rest == IF file.volume = Epoch THEN {} ELSE ScansOf[file.volume] \ file.scans
    IN  /\ rest # {}
        /\ chunkFiles' = [chunkFiles EXCEPT ![which].scans = @ \cup {EarliestOf(rest)}]
        /\ UNCHANGED <<viewing, fetched, emitted, barren>>

(* A refresh of the chunks finds the next volume.  The last is the one      *)
(* before it, with what is loaded of it.                                    *)
NextVolume(v) ==
    /\ v > chunkFiles.current.volume
    /\ LET before == {o \in Volumes : o < v}
           last   == IF before = {} THEN Epoch
                     ELSE CHOOSE o \in before : \A p \in before : p <= o
       IN  chunkFiles' =
              [current |-> [volume |-> v, scans |-> {}],
               last |-> IF chunkFiles.current.volume = last THEN chunkFiles.current
                        ELSE [volume |-> last, scans |-> {}]]
    /\ UNCHANGED <<viewing, fetched, emitted, barren>>

----------------------------------------------------------------------------
SweepStep == BeginSweep \/ AskChunks \/ ListVolumes \/ AskRecords \/ FinishSweep

Level2Next ==
    \/ \E time \in Queries : SelectVolumeTime(time)
    \/ \E elevation \in Elevations : SelectElevation(elevation)
    \/ HandleEmitted
    \/ SweepStep
    \/ \E time \in Queries, succeeds \in BOOLEAN :
          PopulateLevel2ProductTimes(time, succeeds)
    \/ \E v \in Volumes :
          \/ LoadLevel2Data(v)
          \/ LoadLevel2Fails(v)
          \/ OtherViewReloads(v)
          \/ VolumeExpires(v)
          \/ VolumeArchived(v)
          \/ NextVolume(v)
    \/ \E which \in {"current", "last"} : ChunksLoaded(which)

Level2Spec == Level2Init /\ [][Level2Next]_level2Vars

----------------------------------------------------------------------------
(* No update is queued and none runs.                                       *)
Level2AtRest == pending = 0 /\ sweep.pc = "idle"

EmittedFor(signal) == \E i \in DOMAIN emitted : emitted[i] = signal

(* What a view at rest shows answers its selection, time and elevation,     *)
(* though ComputeSweep reads the one and the other at different moments     *)
(* without a lock.                                                          *)
Level2AnswersSelection ==
    Level2AtRest => sweep.time = wanted.time /\ sweep.elevation = wanted.elevation

(* A view that waits is going to be updated: for a listing of what is       *)
(* selected, and for each of the records that were missing, unless it could *)
(* not be loaded.  (A Level 3 view may miss a reload: LoadingIsAwaited.)    *)
Level2WaitingIsAwaited ==
    Level2AtRest =>
        /\ sweep.status = "ListingProducts" =>
              populating[sweep.time] > 0 \/ EmittedFor(TimesPopulated(sweep.time))
        /\ sweep.status = "LoadingProduct" =>
              \A v \in sweep.lacking :
                  reloading[v] > 0 \/ EmittedFor(Reloaded) \/ v \in barren

(* Selections are answered, and what is waited for comes.                   *)
Level2Settles == Level2AnswersSelection /\ Level2WaitingIsAwaited

(* The scans an archive of these volumes has for a request.                 *)
ArchivedScans(time, elevation) ==
    UNION {NotNewer(CutOf(ScansOf[v], elevation), time) :
              v \in {w \in records : Within(w, time)}}

(* Two records are enough: an answer of the archive with nothing left to    *)
(* load is as new as the newest scan of all its volumes that is not newer   *)
(* than the time, whatever the chunks contributed.                          *)
Level2ShowsNewest ==
    [][sweep.pc = "archive" /\ sweep'.status = "ProductLoaded" =>
          \A s \in ArchivedScans(sweep.time, sweep.elevation) :
              /\ s.time <= sweep'.scan.time
              /\ sweep'.scan \in NotNewer({sweep'.scan}, sweep.time)]_level2Vars

(* The comments in Ar2vFile::GetElevationScan and in GetLevel2Data: not     *)
(* newer than the selected time.  So a scan of the chunks that is newer is  *)
(* no answer while the volume before, which the chunks provider keeps, has  *)
(* one of the same cut that is not.                                         *)
NotNewerThanSelected ==
    [][sweep.pc = "begun" /\ sweep'.status = "ProductLoaded"
         /\ (\E s \in NotNewer(chunkFiles.last.scans, sweep.time) :
                s.cut = sweep'.scan.cut)
       => sweep'.scan \in NotNewer({sweep'.scan}, sweep.time)]_level2Vars
=============================================================================
