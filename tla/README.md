# Verification of Supercell Wx

Supercell Wx shows live and archived NEXRAD radar data, warnings, placefiles and
lightning on maps. This directory holds TLA+ models of its concurrent core, TLC
configurations that check them on small instances, and TLAPS proofs that hold for
every instance.

Paths below are relative to `src/`; `qt/` stands for
`scwx-qt/source/scwx/qt/` and `wxdata/` for `wxdata/source/scwx/`.

    tlc -config MC_RadarRefresh.cfg MC_RadarRefresh      # and so for every run of section 3
    tlapm RadarRefresh_proofs.tla                        # and so for every *_proofs module

1. [The system](#1-the-system) -- inventory: parts, state, interaction, hazards
2. [The models](#2-the-models) -- which module models what, and how
3. [The runs](#3-the-runs) -- what is checked, with which bounds, and what it shows
4. [The proofs](#4-the-proofs)
5. [Disagreements found](#5-disagreements-found)
6. [What is left out](#6-what-is-left-out)
7. [The plan](#7-the-plan)

## 1. The system

    map widget --SelectTime--> radar product view --Get...Data--> radar product manager
      |  ^  |                        ^                             |  cache of records
      |  |  | Enable/DisableRefresh  | DataReloaded,               |  provider managers
      |  |  +------------------------|---- ProductTimesPopulated --+  (refresh timers)
      |  +--- NewDataAvailable, Level3ProductsChanged -------------+
      v                                                            v
    timeline manager --times--> map widgets          NEXRAD and chunks providers --> S3 buckets

    text event manager <-- warnings / IEM providers      alert manager, alert layer
    placefile manager     lightning provider -> manager -> layers     NTP client
    marker manager, download manager, other feeds

Everything the user does happens on the **GUI thread**. Every manager and view
owns Boost thread pools on which requests run; results come back as Qt signals,
which are queued for the thread of the receiver. There is no persistent state
beyond settings, markers and placefile lists, so a crash loses nothing that a
restart would have to reconcile; the difficulty lies in interleavings, in
signals that arrive after what they answer has changed, and in requests that
fail.

### Radar data

**Radar product refresh** (`qt/manager/radar_product_manager.cpp`).
*State:* which subscriber (UUID) holds which provider managers (`refreshMap_`);
per provider manager a reference count, an enabled flag, a timer and a pool.
*Operations:* `EnableRefresh` for Level 2 (two provider managers at once, in the
caller's thread) and Level 3 (enable posted, disable direct), `Disable`,
`RefreshData`, `RefreshDataSync`, the timer's handler.
*Hard:* the map and the counts are under `refreshMapMutex_`, timer and
scheduling under `refreshTimerMutex_`, and the flag is set under neither.
*Correct when:* a product is refreshed exactly as long as somebody subscribes.

**Radar product cache** (same file). *State:* maps from times to weak references
of records, a bounded list of recently used ones that keeps them alive, an index
of loaded files. *Operations:* merging listed times, looking a record up, loading
from provider or file, storing, trimming, `SetCacheLimit`, `Cleanup`. *Hard:*
records expire at any moment; provider loads and file loads run under different
mutexes. *Correct when:* one time has one live record, which the index finds, and
the list is a least-recently-used cache.

**Radar product views** (`qt/view/`). *State:* selected time, load status, the
message or sweep shown. *Operations:* `SelectTime`, `Update`, `ComputeSweep`, the
handlers of `DataReloaded` and `ProductTimesPopulated`. *Hard:* `selectedTime_` is
written by the GUI thread and by the Level 3 sweep computation without a lock; a view that
waits depends on a later signal matching what is selected when it arrives; a Level 2
view chooses among scans of two volumes of the archive and two of the chunks provider.
*Correct when:* what is shown is what is selected, and who waits is told.

**Map widgets** (`qt/map/map_widget.cpp`). *State:* the radar site, the product
group, code and tilt selected, the view, whether a check of the site's products is
due, what is to be refreshed. *Operations:* selecting a site, a product, no site or
a file; the handlers of `Level3ProductsChanged`, `NewDataAvailable` and of a file
request. *Hard:* the products of a new site are listed in a pool, and signals of
the site before are still queued. *Correct when:* what is shown is what is
refreshed, at every site and through every change.

**NEXRAD providers** (`wxdata/provider/aws_nexrad_data_provider.cpp`, with the Level
2 and Level 3 providers on top). *State:* object keys by time, the dates listed,
least recently used first, the date refreshed last. *Operations:*
`ListObjects`, `PruneObjects`, `GetTimePointsByDate`, `UpdateObjectDates`,
`Refresh`. *Hard:* one operation takes `objectsMutex_` several times and others run
in between; midnight passes; a listing fails. *Correct when:* the memory used is
bounded, what is in use stays, and a date that counts as cached is complete.

**Chunks provider** (`wxdata/provider/aws_level2_chunks_data_provider.cpp`).
*State:* the two latest volume scans and how much of each is loaded, cached scan
times. *Operations:* listing the numbered scans, finding the latest, loading its new
chunks and those of the one before. *Hard:* the numbers go round from 999 to 1 with
old ones removed meanwhile; scans go on while a refresh runs; requests fail.
*Correct when:* the latest scan is found and shown whole.

**Timeline** (`qt/manager/timeline_manager.cpp`). *State:* the selected time, the
animation's state and timer, queued steps and their counter, the sweep monitor.
*Operations:* play, pause, step, begin, end, live, and the maps' signals. *Hard:*
three threads; the selected time is compared outside its mutex; the monitor waits on a
condition variable without a predicate. *Correct when:* the maps show the time of
the timeline, steps are counted off, and the animation goes on.

### Text and other data

**Text events and warnings** (`qt/manager/text_event_manager.cpp`,
`wxdata/provider/warnings_provider.cpp`, `iem_api_provider.cpp`). *State:* messages
by event, which events are live, archives by date, loaded and unloaded; the records of
the hourly files. *Operations:* polling hourly files, loading the days around a
selected time, handling a message, pruning. *Hard:* live and archived messages of
one event meet; entries move from list to list while downloads run. *Correct when:*
no message is lost, duplicated between events or left behind by pruning.

**Alert layer** (`qt/map/alert_layer.cpp`). *State:* the segments of warnings drawn, by event.
*Operations:* the slots for a message and for events pruned. *Hard:* they run later than what
they tell of, against the list as it is by then. *Correct when:* the maps show the messages
that are known, each until the next.

**Placefiles** (`qt/manager/placefile_manager.cpp`). *State:* per placefile the
name, enabled flag, contents, the site they are for, a timer and a one-thread pool.
*Operations:* enable, disable, rename, site change, refresh, update, removal.
*Hard:* the record changes while a download runs. *Correct when:* an enabled
placefile is, or is about to be, what its name and the site say.

**Lightning** (`wxdata/provider/blitzortung_provider.cpp`,
`qt/manager/blitzortung_manager.cpp`, `qt/map/lightning_layer.cpp`). A worker reads
strikes from one of several servers, the manager drops duplicates and old ones, a timer
tells the layers. *Correct when:* no strike is shown twice or missed, and a stopped
provider keeps nothing.

**NTP client** (`wxdata/network/ntp_client.cpp`). A UDP client rotating through
servers, disabling those that refuse; start-up waits for its first offset.
*Correct when:* a server that refuses is left alone, and the main thread goes on.

### The rest

Markers, downloads and updates, settings, outlooks, soundings and other
feeds, layers and drawing, and the file and text formats: they are rendering,
input and output, parsing, or sequential code that unit tests reach.

The components with their sources, what of each is modelled, and the hazards
with the line where each bites and the properties that cover it are listed in
`PROJECT.json`.

## 2. The models

| module | component | checked in | theorems |
|---|---|---|---|
| `RadarRefresh` | radar product refresh | `MC_RadarRefresh`, `MC_Feeds` | `RadarRefresh_proofs` |
| `RadarProductCache`, implementing `LruCache` | radar product cache | `MC_Stores` | `Stores_proofs` |
| `Level3View` | Level 3 view, with the manager's answers | `MC_Level3View` | `Views_proofs` |
| `Level2View` | Level 2 view, with the manager's answers from chunks and archive | `MC_Maps` | `Maps_proofs` |
| `MapWidget` | map widget | `MC_Maps` | `Maps_proofs` |
| `NexradDataProvider` | NEXRAD object provider | `MC_Stores`, `MC_NexradDataProvider` | `Stores_proofs` |
| `Level2Chunks` | Level 2 chunks provider | `MC_Feeds` | `Feeds_proofs` |
| `Timeline` | timeline manager | `MC_Managers` | `Managers_proofs` |
| `TextEvents` | text event manager, warnings provider | `MC_Maps` | `Texts_proofs` |
| `AlertLayer`, over `TextEvents` | the segments of warnings that the maps draw | `MC_Maps` | `Texts_proofs` |
| `Placefiles` | placefile manager | `MC_Feeds` | `Feeds_proofs` |
| `Lightning` | lightning provider, manager and layers | `MC_Feeds` | `Feeds_proofs` |
| `NtpClient` | NTP client | `MC_Managers` | `Managers_proofs` |
| `Lists` | what erasing leaves of a list, used by `NexradDataProvider`, `TextEvents`, `Lightning`, `MapWidget` | with these | `Lists_proofs` |

A step of a model is what the code does under one hold of a mutex, or between
two reads or writes of state shared without one. Where two such sections are
one step, the module says why. What the world does -- objects appear, requests
fail, datagrams get lost, midnight passes -- is a step of its own or a choice within
the step that asks for it.

`MC_Feeds`, `MC_Stores`, `MC_Managers` and `MC_Maps` check several components in one
run. These share no state, so nothing is gained by interleaving them: a variable
`chosen` says at the start which of them moves, the others stay in an initial
state, and only the chosen one's fairness counts and, in `MC_Stores` and `MC_Maps`, only its types are
looked at. A behaviour of the run is one of the
chosen component. Components that do interact are related by what the one assumes
of the other: the environment of `Level3View` and `Level2View` is the manager whose records
`RadarProductCache` keeps, and the chunks of `Level2View` are what `Level2Chunks` loads;
`MapWidget` asks for refreshes, which `RadarRefresh` executes;
a refresh, one step there, is a whole operation in `NexradDataProvider` and `Level2Chunks`.

### RadarRefresh

`refreshMap`, `refreshCount` and `refreshEnabled` are the members of those names.
`timer[p]` says that a wait is pending on `refreshTimer_`; `fired[p]` counts waits
that have expired but whose handlers still queue (too late for `cancel()`),
`jobs[p]` the posted `RefreshDataSync` and `running[p]` those inside
`provider_->Refresh()`. `posted` is the queue of Level 3 enables in
`threadPool_`, and `call[t]` where a thread is in `EnableRefresh`.

* `EnableLevel2`, `Disable`, `PostEnableLevel3` are the GUI thread's calls, and
  `TakeTask`, `ProductAvailable`, `ProductNotAvailable` the posted task.
* `UpdateRegistry` is the section under `refreshMapMutex_`: release what the UUID
  held, disable what nobody else holds, subscribe to the new ones.
* `CheckEnabled`, `SetEnabled`, `StartRefresh` are the loop after the unlock, one
  step for the read of `refreshEnabled_`, one for its write, one for
  `RefreshData`.
* `TimerExpires`, `TimerHandler`, `BeginRefresh`, `ScheduleNext` and
  `RefreshThrows` are a provider manager's pool.

`failed[p]` is a history variable: a refresh threw since refresh was last
started. The code then schedules nothing.

### RadarProductCache and LruCache

One product's record map is `keys` and `recordMap` (a weak reference is the record
it was last set to; `Lock` finds it only while somebody holds it). `Live` is the set of
records with a strong reference: in `recentRecords`, in `fileIndex`, held by a
view, or by a request about to complete. A load (`loader[w]`) goes through
`BeginProviderLoad` or `BeginFileLoad`, which take the mutex of their kind,
`CreateRecord`, `StoreRadarProductRecord`, which releases it, and
`CompleteRequest`. `useOrder` is a history variable: the stored times, latest use
first, each once.

Record objects have identities that are reused when nobody refers to one, so that
the model can tell "a record of this time" from "the record of this time".

`LruCache` says what the recent list is meant to be: a cache of keys, the latest used
first, cut to a capacity that may change at any time. `ImplementsLru` reads the times
of `recentRecords` as its keys and the cache limit as its capacity: each store is a
`Use`, `SetCacheLimit` a `Resize`, and everything else a stutter.

### Level3View

`selected`, `status` and `shown` are `selectedTime_`, `loadStatus_` and the time of
`graphicMessage_`; `updates` counts posted calls of `ComputeSweep` and `compute`
is the one that runs. `BeginComputeSweep` reads the selection,
`GetLevel3ProductRecord` asks the manager (`AskListing`, `AskRecord`,
`AskNotAvailable` are its branches), and `AcceptAnswer` writes the status and, if
another time was found, the selection: the GUI thread's `SelectViewTime` and
`HandleSignal` come in between. `listings` and `loads` are tasks of the manager's
pool, which end with a signal in `signals`, in the order of Qt's event queue.

Other views are environment: they load records (`OtherViewLoads`), let them
expire (`RecordExpires`), and refreshes find new ones (`NewObject`).

`Work`, on which the bound is put, is the number of elements of `UnderWay`, a set with an element
for each update, computation, listing, load and signal: of a cardinality it can be proved what
one step adds and takes.

### Level2View

`wanted` is the time and the elevation selected, `pending` counts posted calls of
`ComputeSweep` and `sweep` is the one that runs; at rest it says what the last one was about,
what it found (`scan`), the status and the records it did not find (`lacking`). A sweep is
`BeginSweep`, which reads the time; `AskChunks`, which reads the elevation and asks the
chunks' files; if they have nothing recent enough, `ListVolumes` or `AskRecords` for the archive;
and `FinishSweep`. `Newest` is the loop of `GetLevel2Data` over the records (`NewerOf` is its body; two records
are the most that `Asked` and `Bounding` choose), `GetElevationScan` and `Merged` the two algorithms of `Ar2vFile` that
choose a scan and put two volumes together. `VolumesFollow` assumes of the radar that a volume
has scans, and makes them before the next volume begins. `populating` and `reloading` are tasks of the
manager's pool, whose signals queue in `emitted`.

A volume is a set of scans, each a cut and a time, all with data of the product shown. The chunks
provider is environment: a volume begins (`NextVolume`), its scans are loaded in order
(`ChunksLoaded`), and what is loaded of the volume before stays. `barren` is a history
variable: the volumes whose last load brought no record.

### MapWidget

`map` is the record of the map's members: the `site` and `product` selected, the
`view` with the site of its manager, `needed`, `updated` and `selected` for
`productAvailabilityCheckNeeded_` and its two companions, `refreshed` for what each
site's manager was last asked to refresh for this map. Each handler is one function from the record to the record
(`SelectRadarProduct`, `CheckLevel3Availability`, `SetRadarSite`, `SiteUpdated`,
`ProductsChanged`), because it runs whole in the GUI thread; the actions compose them as
the slots call each other. `listing[s]` is how far the manager of a site is with
`UpdateAvailableProducts`, `available[s]` what it found; `events` is Qt's queue, from
which a signal is delivered also after the map has disconnected from its sender;
`fileLoads` are requests for files. `Catalogue` and `TiltsOf` are the lists of a category's
products and of a product's tilts, of which the handlers look for the first that is available;
what they may list is `CatalogueAssumption`. `ManagerExpires` destroys a manager
nobody uses, and a new one lists anew. `crashed` marks the null pointer of section 5.

### NexradDataProvider

`objects`, `objectDates` and `refreshDate` are the members; `caller[w]` is where a
thread is in `Refresh`, `GetTimePointsByDate` or the `ListObjects` they call. Each
lock of `objectsMutex_` is a step: `InsertObject` one object at a time,
`ListUpdatesDates`, `PruneObjects`, `Touch`. The loop of `PruneObjects` is stated by its result,
`PrunedDates`: since erasing only leaves less, there is too much at a place of the list only if
every date before it that may be pruned was. `BeginRefresh` reads the clock and
`LockRefresh` takes `refreshMutex_`, perhaps on another day. `Publish` and
`Midnight` are the world; a listing succeeds or fails.

### Level2Chunks

A scan is known by its serial number, which also orders scan times; `NumberOf` is the number
of its directory, which goes round. `stored`, `chunks` and `newest` are the bucket,
`currentScan` and `lastScan` the members of those names, with the key loaded last.
`BeginChunkRefresh` is `ListObjects`: `PossibleLast` are the scans after which a number
is missing, and the one with the latest time (`LastScanOf`) is the newest; times are asked
for and cached (`scanTimes`), a request may fail. `LoadCurrentScan` and `LoadLastScan`
list the chunks after the key loaded last. `BeginScan`, `UploadChunk` and
`TwoMinutesPass` are the radar and the clock.

### Timeline

`actor[w].at` is where a thread is: the GUI thread, the one of `playThreadPool_` and
the one of `selectThreadPool_`. `selectOwner` and `monitorOwner` are the owners of
`selectTimeMutex_` and `radarSweepMonitorMutex_`. A selection is `TimeSelected` (the
comparison without the lock), `AssignSelected`, `EmitSelected`; a frame is
`BeginFrame`, `LockForFrame`, its selection, the wait, `EndFrame` and
`ArmAnimationTimer`; a step is `BeginStep`, then per minute `TryMinute`,
`LockForStep`, its selection, `EndStepWait`, and in the end `FinishStep`. A selection of a time
that is not live may throw under the lock, before the time is assigned (`SelectTimeThrows`: the
radar product manager, its volume times, the cache limit). The posted task catches it: a step
is counted off all the same (`FinishStep` after `"threw"`), a frame arms no timer. The slots
of `SelectedTimeUpdated` are functors without a context object (`main_window.cpp:3278`), so they
run in the thread that selects, within `EmitSelected`. `SweepComputed`,
`SweepIgnored` and `WidgetPainted` are the maps, whose signals the GUI thread receives
(`ReceiveRadarSweep`, `Complete`) in between.

### TextEvents

`fileRecords`, `prevLoadTime` and `archiveLimit` are the live feed, `refresh` the one
refresh that runs; `archiveEvents`, `archiveDates`, `unloaded` the archives and
`selecting` the one selection that runs. `BeginTextRefresh`,
`LoadUpdatedFiles` (HEAD, then GET, of each hour), `HandleLive` and `EndTextRefresh` are the
poll; `SelectArchiveTime`, `UpdateArchiveDates`, `ListArchives`, `LoadTextProducts`,
`HandleArchived`, `PruneArchives`, `ErasePruned` and `AnnouncePruned` the selection. The two
meet in `HandleMessage`, one message at a time. `signals` are `AlertUpdated` and
`AlertsRemoved`, queued for the GUI thread. `polled`, `missedHours` and `missedEntries` are
history: what came by the feed, and what a failed request cost; so is `overtaken`, the events
that were given a message between their erasure and the signal that tells of it.

### AlertLayer

`segments` is `segmentsByKey_`: for each message the end of its segment. `HandleAlert` and
`HandleAlertsRemoved` are the two slots of `AlertLayerHandler`, which run in the GUI thread
whenever they get to it. A message looked for and not found does nothing, so signals of
erased messages are taken out of the queue when the messages are. A message has one segment,
which begins when the message was issued: for messages that continue an event the code takes
`event_begin` of the segment, which is that.

### Placefiles

One placefile record: `enabled`, `name`, `placefile` and `lastRadarSite` are its members,
`gui` where the GUI thread is in a change that takes several locks, `update` where its
pool's thread is in `Update`, `refreshTimer` whether a wait is pending. `Rename`,
`EnablePlacefile`, `DisablePlacefile`, `SetRadarSite`, `Refresh` and `RemoveUrl` are the
user's; `BeginUpdate`, `DownloadSucceeds`, `DownloadFails`, `Failed`, `UpdateThrows`,
`CompareName`, `InstallPlacefile`, `ScheduleByUpdate` and `ArmByUpdate` the update. One that
throws is caught by the posted task, which schedules nothing (`"threw"`). `overtaken` is
history: a change while disabled was not followed by an update to its end.

### Lightning

`worker.at` is where the worker is in `RunLoop`, `slot` where the GUI thread is in a slot
that takes several locks. `strikes` and `recentKeys` hold ages in place of times, `Tick`
lets them grow. `BeginConnect`, `ConnectSucceeds`, `ConnectFails`, `ReadMessage`,
`ReadFails`, `OnNewStrike` are the worker; `Start`, `RequestStop`, `JoinWorker`,
`ClearStrikes` the provider's control; `ConsumePendingUpdate`, `StrikesUpdated` the timer's
tick; `Render` a layer that fetches what is active.

### NtpClient

`pollThread` is where the client's pool thread is in `RunOnce` and `Poll`, `mainThread`
where the main thread is in start-up and `Stop`. The two share `enabled_` and the socket
without a lock, so `CheckClientEnabled`, `ArmPollTimer`, `StopCancelsSocket`,
`StopCancelsTimer` are steps. `transit` and `receiveQueue` hold answers, which may be
lost, arrive late, or arrive after the poll that asked has timed out (`late`). A kiss of
death is `ReceiveDeny`, a rate kiss `ReceiveRate`, and `RotateServer` walks past the
servers in `disabledServers`. `DisableServer` keeps the code's comparison as it is
written. Opening the current server ends in `OpenSucceeds`, `OpenFails` (the name is not found)
or `OpenThrows`: `socket_.open` throws out of `Run`, and the timer's handler, which catches,
arms nothing (`pollThread = "threw"`); from the first run, which `Start` posts without a
catch, the process ends (`mainThread = "terminated"`).

## 3. The runs

Distinct states and times are those of two workers on a small machine, with coverage counted.
`stores` and `maps` are checked up to symmetry: of loaders, record objects and those
times that no file has in the one, of the two sites in the other; neither checks liveness.

| run | module, .cfg | states | result |
|---|---|---|---|
| `refresh` | `MC_RadarRefresh` | 294,711 (51 s) | holds |
| `feeds` | `MC_Feeds` | 380,767 (184 s) | holds |
| `stores` | `MC_Stores` | 1,123,404 (119 s) | holds |
| `level3_view` | `MC_Level3View` | 214,196 (70 s) | holds |
| `maps` | `MC_Maps` | 1,595,407 (235 s) | holds |
| `managers` | `MC_Managers` | 329,842 (152 s) | holds |
| `refresh_doc` | `MC_RadarRefresh`, `MC_RadarRefreshDoc.cfg` | -- | violated, see 5 |
| `level3_view_reload` | `MC_Level3View`, `MC_Level3ViewDoc.cfg` | -- | violated, see 5 |
| `provider_cached_date` | `MC_NexradDataProvider`, `MC_NexradCachedDate.cfg` | -- | violated, see 5 |
| `provider_midnight` | `MC_NexradDataProvider`, `MC_NexradMidnight.cfg` | -- | violated, see 5 |
| `ntp_disabled` | `NtpClient`, `MC_NtpDisabled.cfg` | -- | violated, see 5 |
| `timeline_step` | `Timeline`, `MC_TimelineStep.cfg` | -- | violated, see 5 |

Every run checks for deadlock. Each of the six that hold has one type invariant or,
`refresh`, shares it with `feeds`; the other properties are these. Liveness is marked (L), a
property of steps (S).

**refresh** -- Two subscribers move between a Level 2 and a Level 3 product in any
order, with a posted enable, timers that expire at the worst moment and a
provider that may throw.
* `RefreshCountExact`: the count that decides on `Disable` is the number of
  subscribers.
* `NoLostRefresh`: a subscribed product is enabled with its chain of refreshes
  alive, or a call that sees to it is under way, unless a refresh threw.
* `RefreshGoesOn` (L): the chain does not stall.
* `DisabledFallsSilent` (L): once disabled for good, handlers and jobs still
  queued drain and start nothing new.

Bounds: `MaxPosted` = 1 task waits in `threadPool_` (another may be executing),
`MaxJobs` = 1 job and 1 handler wait per pool, `PoolThreads` = 1 of the code's two,
one worker of `threadPool_`'s four. With one subscriber
the count could be a flag; two and two products are the fewest for one
to leave what the other keeps. Two threads of a pool and two provider managers of
Level 2 are in the next run, and everything beyond in the proofs of the safety
properties, which hold for every bound.

**feeds** -- What is fetched again and again.
* *Refreshes*: archive and chunks together, both threads of each pool and two waiting
  jobs: two refreshes of one provider manager at once, and a subscription that walks over
  two. `TimerOnlyWhileEnabled`: no wait is pending on a disabled provider manager; a
  refresh in flight when refresh was disabled does not arm it again.
* *Chunks*: four numbers and the scans 4 to 8, so the numbers go round once and the gap is
  at each place; two chunks a scan, so the first, a middle and the last exist between
  two loads; one request fails. `ListingFindsNewest` (S): a listing of which no request
  fails finds the latest scan and the one before. `NewestCompletes` (L): a scan
  uploaded to its end is loaded to its end.
* *Placefiles*: two names, one of a file, two sites, `MaxUpdates` = 2 calls wait (no
  property is about their number; a third repeats the second).
  `EnabledIsUpdated`: an enabled placefile is what its name stands for at the site, or is
  going to be updated, unless its last update threw. `DestructorWaitsForNoTimer`: after the
  destructor has cancelled the refresh no update arms it again.
* *Lightning*: two strikes, two servers of which one accepts, one layer; a strike lives one
  tick and its key two. `NoStrikeTwice`: the key that stops a duplicate outlives its strike.
  `StrikesReachLayers`: a layer that does not show an active strike will fetch it or be
  told. `StoppedIsEmpty`: stopping forgets everything, whatever was just read.
  `GetsConnected` (L): a running provider reaches a server as long as one accepts.
* *Placefiles and lightning*: `GuiThreadIsLetGo` (L): the GUI thread, which waits in
  a destructor for the updates and in `Stop` for the worker, goes on.

**stores** -- What is kept.
* *Records*: three times against cache limits of one and two, a loader for each
  mutex, one view, one file. Three times are needed to push one out of a list of two;
  three record objects let two of one time exist at once while a third is live.
  `LiveRecordIsIndexed`: every record somebody holds is the one the index finds at
  its time, whatever loads raced and whichever records expired. `ImplementsLru` (S): the
  recent list is a least-recently-used cache, however the limit moved.
* *Provider*: two threads refresh and query one provider from the third day into
  the fourth, five objects on four days, `MaxObjects` = 3 and `MinDates` = 4 for the
  code's 2500 and 6: four dates are the fewest with which an archived one may be
  pruned while today, yesterday and another stay. `NoOrphans`: every cached object has
  its date in the list or about to enter, so that pruning finds it. `PruningSparesRecent` (S):
  no object of today or yesterday is pruned, and a date goes only for enough dates used more
  recently.

**level3_view** -- Three times, of which the provider lists two and a refresh may find
the third; the first lies a day before the last, out of its reach. `MaxWork` = 2 updates,
listings, loads or signals are under way at once (no step other than the user's
and other views' adds to them), enough for an old request to end after a new
selection.
* `WaitingIsAwaited`: a view at rest in `ListingProducts` has a listing or its signal,
  for what is selected now, still to come; one in `LoadingProduct` has a load or its
  signal, but for a load that brought nothing and for the announcement that came
  too early (see 5).
* `LoadedShowsSelected`: a view at rest that has loaded shows what is selected.
* `ListingEnds` (L): no view lists for ever.

**maps** -- What there is to show, and what is shown.
* *Map*: two sites, two products of one category, of which the sites have the second only, so
  that the check selects another product; `MaxUnderWay` = 1 signal or load besides those the
  managers' listings announce. `ViewIsRefreshed`: in automatic refresh the manager of the
  site has been asked for what the view shows, or a check that will ask is due and
  what it waits for is under way.
* *Level 2 view*: two volumes of a low and a high cut, the low one scanned again in the second;
  the archive lists the first at once and may find the second later. The latest and one
  given time are selected, and two elevations, one a cut and one between the cuts. The first
  volume is out of reach of the latest and within reach of the given time, so both
  records may be asked for; a scan of the chunks may be recent enough or not. `MaxPending` = 2:
  the second volume's load may fail while the first's is announced. `Level2Settles`: a
  view at rest answers what is selected, and is going to be told of every record it lacks
  that could be loaded. `Level2ShowsNewest` (S): an answer of the archive with nothing
  left to load is the newest scan, not newer than the time, of all its volumes and not only of the
  two asked for.
* *Text*: three messages of one event: two of past days, one of the running hour that the feed
  brings and an archive may bring; days of two hours (only their ends matter), hours up
  to 10, three archive dates -- one selection's worth --, two selections, one failing request.
  `EventsAccounted`: an event is live, or belongs to a day's archive, and not both.
  `MessagesLoaded`: an entry off its list is loaded, although other days are pruned
  (`LoadedMessagesStay`), and no message falls between the feed and the archives (`HoursLoaded`).
  `ArchivesBounded`: days kept, and at most three more during a selection.
* *Alerts*, over the same instance: `AlertsMirrorEvents`: once the signals about an event have
  been handled, each of its messages has its segment, no other message has one, and each ends
  where the next begins, in whatever order feed, archives and pruning brought and took them.

**managers** -- Two managers with threads of their own.
* *NTP*: three servers (one to leave, one to skip, one to reach), the poll interval at its
  minimum or above, two datagrams under way. `RefusedServerNotPolled`: no request goes to a
  server that refused. `OffsetIsOfCurrentServer` (S): an answer of a server that was left
  is not used. `MainThreadGoesOn` (L): the start-up wait ends, and `Stop` returns or throws.
* *Timeline*: one map (`Complete` compares with the number of maps; more maps only delay it,
  and the proofs hold for any), a loop of two minutes, two attempts of a step, one step
  queued, one task waiting in each pool. `MapsFollowTimeline`: whenever nobody is
  selecting, the maps were told the selected time. `StepCounterExact`: the counter is the
  number of steps queued or under way, whichever of them threw. `AnimationGoesOn` (L): an
  animation that is not paused goes from frame to frame, unless a frame threw, and one that is
  paused stops. `StepsEnd` (L): every step ends, also one that throws.

### Fairness

*Refreshes* assume weak fairness of each thread's call,
of taking a posted task, of a timer's expiry, of each handler and each job, and
that `Refresh()` returns or throws: Boost pools run every task posted, timers
expire, and the requests have time-outs. Nobody is obliged to subscribe, and nothing says
that a refresh succeeds rather than throws.

`ListingEnds` assumes weak fairness of the sweep computation, of signal delivery, of
listings and loads ending, and strong fairness of a listing *succeeding*: a bucket
that is asked again and again answers in the end. Without that the code retries for
ever, as it should; the property then says that it does not give up.

*NTP*: weak fairness of the client's run, of the main thread's wait and of `Stop`. The receive
time-out is part of the run; no datagram is obliged to arrive.

*Timeline*: weak fairness of the timer and of the GUI thread, strong fairness of the two pool
threads: a mutex that is released again and again lets in whoever keeps trying. The maps draw nothing unless they
like; the wait's time-out is part of the waiting thread.

*Chunks*: weak fairness of the clock, which lets a listing happen again, and of a
refresh's steps (`RefreshGoesOn` is the reason that refreshes go on). The number of failing
requests is bounded: a scan completes after the last failure.

*Placefiles*: weak fairness of the pool's thread and of the join, strong fairness of the
destructor's taking `refreshMutex_`, which updates hold again and again.

*Lightning*: weak fairness of the worker, whose reads end because servers send or the connection
breaks, and of the GUI thread in `Stop`.

`stores` and `maps` check no liveness and assume no fairness.

## 4. The proofs

`tlapm` proves the following for every value of the constants that satisfies the named
assumption of the module (finite sets where something is counted, positive limits, and that
what is distinct in the code is distinct). Each theorem rests on an inductive invariant; the
step lemma has a case for each action. Every safety property and every action property of the
runs that hold is proved, type invariants included. Of most of the liveness properties the
safety half is proved, too: what must go on is under way somewhere.

The composed runs have theorems of their own: `FeedsTypes`, `StoresTypes`, `MapsTypes` and
`ManagersTypes` say of the specification that TLC checks that its components keep their types
side by side. They rest on what each component's proof shows of its own steps, and on a lemma that
a step of the composition is one of the chosen component and leaves the others where they were
(`FeedsStep`, `ManagersStep`). `StoresRun` and `MapsRun` say the same of whole behaviours, so
every theorem about a component of `stores` or `maps` holds of the composition.

Lemmas about lists (`Lists_proofs`) are shared: what `Keeping` leaves of a list, where it stands, that
it is in the order it was, and how many distinct elements a list has. The provers cannot instantiate the library's
induction; the induction over the length is done on the set of the lengths for which the claim
fails, whose least element would be preceded by one for which it holds (`LeastOfNaturals`: finite
sets are well-founded by inclusion; `InductiveSet`). `GreatestOfFinite` gives the newest of
finitely many scans in the same way.

`RadarRefresh_proofs` (`RefreshAssumption`)
* `TypeCorrect`: `TypeOK` is inductive.
* `RefreshSafety`, with its parts `CountExact` and `NoTimerWhileDisabled`: `RefreshCountExact`,
  `TimerOnlyWhileEnabled` and `NoLostRefresh`. The last is not inductive: when a call that
  would have started a refresh finds the flag already set and goes away, something else must be
  known to be responsible. `RefreshInv` adds that a subscribed provider manager is enabled or
  some call has yet to set its flag (`SubscribedIsEnabled`), that an enabled one has
  a live chain or some call is about to start it (`EnabledIsAlive`), and that a call
  in the middle of its loop still counts its target among those to do
  (`TargetInTodo`). The count is tied to the map by `RecountLemma`, on finite
  cardinalities.
* `ChainsAlive`, `DisabledPoolDrains`: the safety halves of `RefreshGoesOn` and
  `DisabledFallsSilent`. What is enabled, subscribed or not, has its next refresh somewhere
  (`EnabledIsAlive`). While a provider manager is disabled and no call is about to
  start it, each step of its pool lowers `Outstanding`, in which a handler weighs more than the
  job it posts, and a job more than the refresh it becomes.

`Stores_proofs`, the records (`CacheAssumption`)
* `CacheSafety`, `CacheTypes`: `TypeOK /\ LiveRecordIsIndexed` is inductive. The heart is
  `StoreRadarProductRecord`: a record is stored only when the reference at its time
  finds no live one, and then nobody can hold another of that time.
* `RecentSafety`, `ReloadedStays`: the recent list is the latest uses, in order, and the
  records of the latest `MinLimit` uses are alive, so a view does not reload a record that is
  dropped as it arrives. `UseInv` adds that no time is in the history twice and that the
  list is as long as the history or at least `MinLimit`.
* `Refinement`: `Spec => ImplementsLru`. Lemmas say what `Without`, `Trim` and
  `UpdateRecentRecords` return, element by element; `StoreIsUse` identifies their composition
  with `Use`.

`Stores_proofs`, the provider (`ProviderAssumption`)
* `ProviderTypes`, `NoneOrphaned`. `ProviderInv` adds what each call knows (`CallsOK`): what it has
  left to insert are objects of its date, a call for yesterday is about a date that is past,
  and nobody lists a date to come.
* `RecentSpared`. How many dates stay behind an erased one is counted: at the place of the erased
  date the list had at least `MinDates` left, and of what is behind it nothing but today,
  yesterday and what is kept remains out of the count.

`Views_proofs`, Level 3 (`ViewAssumption`, `TimesAreFinite`)
* `WaitingAwaited`, `LoadedSelected`. `WaitInv` says what a running computation knows: while
  no update is queued the time it asks about is the selected one (`OwnSelection`), so the
  listing or load it posted (`AskedListing`, `AskedRecord`) is announced to a view that still
  wants it, or to one that has an update queued.
* `ViewTypesHold`, which includes that of updates, listings, loads and signals never more than
  `MaxWork` are under way. That is not inductive: a computation that posts a listing adds one.
  `WorkIsBounded` is about their sum and does not count a computation once it has asked (`Charged`), since what it asked for
  is counted instead; this number no step of the view or the manager raises.

`Maps_proofs`, Level 2 (`Level2Assumption`, `VolumesFollow`)
* `Level2Settled`. `SettleInv` says the same of a running sweep as `WaitInv`: while no update is
  queued it is about the time and the elevation that are selected (`SweepIsWanted`), and what it
  asked for is to come (`SweepIsAwaited`). It is simpler than for Level 3, because a Level 2
  view takes any reload for its own and never writes the selection: there are no exceptions but
  failed loads.
* `Level2TypesHold`, from `KeptInv`: the chunks' files hold scans of their volume only
  (`ChunksOfVolumes`) and only records are loaded again (`ReloadsAreOfRecords`).
* `NewestIsShown`: two records suffice. All scans of a volume are older than the next volume, so
  only the last volume not after the time and the one before it can have the newest scan of a
  cut; and `SearchInv` says that a scan of the chunks that goes into the comparison is not newer
  than the time.

`Maps_proofs`, map (`MapAssumption`, `CatalogueAssumption`)
* `MapTypes`. Each handler keeps the types of the record it is given, so their compositions do.
  That what the map falls back on is a product, and its tilt one of that product's, needs that
  the catalogue lists products and tilts, which `CatalogueAssumption` says.
* `ViewRefreshed`. `RefreshInv` says that the selected product at the selected site is what
  the view shows and has been asked for, or a check is due (`Consistent`), and that a check
  stays due only while the site's products are to be listed or announced (`Due`).

`Managers_proofs`, NTP (`NtpAssumption`)
* `NtpTypes`; `ClientRuns`: an enabled client has its next run under way or its timer armed,
  with one exception, which the statement names: `socket_.open` threw in the timer's handler,
  and the socket is not open.
* `RefusalRespected`. `RefusalInv` adds where a refusal waits to be acted upon
  (`DenialIsPending`) and that a disabled server is left before the next request
  (`DisabledIsLeft`).
* `OffsetOfCurrent`, from `AnswersAreCurrent`: a socket that is open holds and receives
  answers of the current server only, because rotation closes it.
* `StartupAwaited`, `RotationStops`, `StopStands`: what `MainThreadGoesOn` rests on. While start-up
  waits, a run is on its way; `RotateServer` finds a next server or is back at its own; and a run
  that ends after `Stop` ends disabled, although `DisableServer` may write `enabled_` after it.
  `RunInv` says why: the first refusal acted upon is the last, since the
  comparison of section 5 disables a client with more than one server
  (`FirstRefusalIsLast`), and one with a single server gives up as it rotates.

`Managers_proofs`, timeline (`TimelineAssumption`)
* `TimelineTypes`, `MapsFollow`, `StepsCounted`. `TimeInv` adds that only the owner of
  `selectTimeMutex_` is between the assignment of the selected time and its announcement
  (`LockInv`), and that the counter is the steps in the queue and the one the
  select thread is at (`CountInv`).
* `AnimationLives`, `LocksReleased`: what `AnimationGoesOn` and `StepsEnd` rest on. An animation that
  is not paused has its timer, a task or a frame, or its last frame threw; and the sweep monitor is
  held exactly while a frame or a step selects (`MonitorInv`), `selectTimeMutex_` exactly while
  somebody announces, so nobody waits in a circle.

`Feeds_proofs`, placefiles (`PlacefilesAssumption`)
* `PlacefilesTypes`; `DestructorIsFree`, from `DestroyedIsQuiet`.
* `EnabledUpdated`. `UpdateInv` adds that a rename or a move during a download has queued an
  update (`RenamedIsQueued`, `MovedIsQueued`), what `lastRadarSite_` may claim
  (`LabelIsTrue`, `SiteIsFollowed`) and that an enabled placefile that asks for it has its
  timer armed or an update that will arm it (`ChainGoesOn`, which `RefreshChainGoesOn`
  states). An update that threw counts as the end of what it was begun for (`Threw`): the theorems
  say that nothing else leaves an enabled placefile behind.

`Feeds_proofs`, lightning (`LightningAssumption`)
* `StopForgets`, from `StopInv`: the timer runs only while the worker does
  (`TicksWhileActive`), and the worker has gone before anything is cleared
  (`ClearingAlone`).
* `LightningTypes`; `NoneTwice`, from `StrikeInv`: the key of a strike is exactly as old as the strike
  (`KeyIsAsOld`), so it is pruned no sooner; that a second strike of that key finds it is
  not enough to be inductive.
* `StrikesReach`: that a strike a layer does not show is still to be fetched or announced is
  inductive beside the types.

`Feeds_proofs`, chunks (`Level2ChunksAssumption`)
* `ChunksTypes`, `ListingFinds`. `ScansInv` adds that what is stored is of less than one round of
  numbers (`Window`), that a cached time is of a scan that had the number and is not newer than
  the newest (`TimesTrue`), and that the record of the last scan is missing only if there is no such
  scan (`LastFollows`). `SameNumber` is the arithmetic: two scans less than a round apart have
  different numbers; so the number after the latest scan's is free,
  which makes that scan a candidate, and no other candidate is as new.
  The proof failed at first on the current scan found before, and TLC, given five numbers in
  place of four, showed why: see *Chunks* in section 5. The property now says of which
  current scans it speaks (`CurrentIsOfRound`).

`Texts_proofs` (`TextEventsAssumption`)
* `EventsAreAccounted`. `EventsInv` counts the events that a pruning has chosen but not yet erased as
  a third place beside the live and the archived ones.
* `NoneMissed`. `LoadedInv`: a message of a past day is in every list of its day, or is known: missed by a
  failed request, being fetched, or stored with its event. `FeedInv`: each message an hourly
  file's record counts was handled, and so was every message of an hour before the last refresh
  from the archive limit on.
* `ArchivesAreBounded`. `ArchInv` says what a selection adds: the days outside the window of the
  selected one are within the limit (`WithinLimit`), and the window has three days.
* `AlertsMirrored`. `MirrorInv` carries a statement for each moment of an event: its removal about to
  be announced, queued, or handled; `Drawn` says how far a segment may be from its final end, by the
  signals about later messages still queued (`EndsLate`, `EndsEarly`). Signals that are overtaken by others of the
  event need `RemovalFirst`: in the queue a removal stands before what follows it.
* `AlertTypes`.

Only model-checked: liveness (`RefreshGoesOn`, `DisabledFallsSilent`, `NewestCompletes`,
`GuiThreadIsLetGo`, `GetsConnected`, `ListingEnds`, `MainThreadGoesOn`, `AnimationGoesOn`,
`StepsEnd`), which is out of the prover's reach, as is `ENABLED`. The safety halves named above
say that the next step is due, not that it is taken.

## 5. Disagreements found

Six statements of the repository's documentation and comments are violated by what the code
does. Each has a run of its own; `PROJECT.json` quotes the lines.

* `UnsubscribedIsDisabled` (`refresh_doc`). The interface promises that a product is
  disabled when its last UUID goes over to another. A posted enable that has registered, but not
  yet set the flag, can be overtaken by the same UUID's next call, which disables the
  product; the flag is set afterwards, and the product is refreshed with nobody
  subscribed until somebody subscribes and leaves again.
* `ReloadUpdatesView` (`level3_view_reload`). `ComputeSweep` posts the load of the time it found
  and only then selects that time. A load that completes in between is announced
  to a view that still has the old selection, which ignores it and stays in
  `LoadingProduct` with its record there.
* `CachedDateIsComplete` (`provider_cached_date`). A query finds a date cached and unlocks;
  another thread prunes it; the query then puts the date back into the list without
  its objects, and it counts as cached from then on.
* `NothingMissedNearMidnight` (`provider_midnight`). After midnight yesterday is listed once more,
  so that nothing is missed; when that listing fails and today's succeeds, it is
  not tried again.
* `DisabledWhenAllRefuse` (`ntp_disabled`). The client is to be disabled if all servers are; the
  comparison is the wrong way round, so the first server that refuses disables it although
  others are left; in the run, one of two.
* `StepCatchesUp` (`timeline_step`). A step forward that finds no newer volume scan is to catch
  up to live. It reads the monitor's flag, which is reset only when a minute is selected:
  a step that leaves the loop before that takes the flag of the frame or the step before it
  for its own.

Further observations, of which no text of the repository promises the contrary clearly enough
for a run. Where a property is named, its module defines it and TLC finds it violated.

* *NTP*. `OffsetIsCurrent`: after a time-out the late answer is read by the next poll. `Stop`
  throws when no socket is open. `socket_.open` throwing leaves the client enabled with no run to
  come, or, in the first run, ends the process (`ntp_client.cpp:255`, 467, 208). `RotateServer` would search for ever if the last server
  left were disabled; the comparison above keeps it from getting there
  (`RotationStops`).
* *Timeline*. A `Pause` between an expired timer and its handler is undone by the handler's `Play`
  when it read the state before. A notification meant for a step may wake a frame,
  since both wait on one monitor. With an interval of zero or less two chains of frames run.
  A frame that throws ends the animation while its state stays Play.
* *Level 2*. `NotNewerThanSelected`: comments in `GetElevationScan` (`ar2v_file.cpp:175`) and
  `GetLevel2Data` (`radar_product_manager.cpp:1893`) say that the scan is not newer than the
  selected time. If the closest cut of the current volume was scanned only after that time,
  `GetElevationScan` falls back on its first scan, and `GetLevel2Data`, which looks only for a
  scan that is too old, shows it, although the chunks provider still has one of the same cut in
  the volume before.
* *Text*. `LiveMessagesStay`: an event first seen in an archive and then live stays
  archived, although a comment (`text_event_manager.cpp:402`) says that live events are
  loaded first, and is pruned with its day. `PruneArchives` erases from `textEventMap_` without
  `textEventMutex_`. `prevLoadTime_` moves on when downloads failed, and a GET that fails after
  its HEAD loses that change of the file; `MessagesLoaded` makes these exceptions explicit. An
  event that is given a message after it was erased and before `AlertsRemoved` tells of that
  disappears from the maps although it is known (`overtaken` in `AlertsMirrorEvents`).
  `AlertManager` compares the index computed at insertion with the list as it is later
  (`alert_manager.cpp:143`), so of two messages handled together it may announce neither.
* *Chunks*. When the time of the only candidate cannot be fetched, the current scan becomes a
  valid one with an empty prefix until the next listing. Chunks that appear after a later one
  was loaded are skipped. When for nearly a whole round of numbers no listing can fetch the times
  of the later scans, the number of the current scan is used again; its record is compared by
  prefix only (`aws_level2_chunks_data_provider.cpp:444`) and stays as if it were the new scan's.
  That takes days in which some requests succeed; `CurrentIsOfRound` excludes it from
  `ListingFindsNewest`.
* *Placefiles*. After a rename and a disable that cancels the download, enabling again at the same
  site only schedules a refresh, which does nothing for a placefile never loaded
  (`overtaken` in `EnabledIsUpdated`). A download for one site is labelled with the next if the
  site changes meanwhile. `AddUrl` uses a reference into `placefileRecords_` after the
  unlock (`placefile_manager.cpp:518`). The destructor holds the GUI thread for a download. After
  an update that threw nothing is scheduled (`placefile_manager.cpp:785`).
* *Lightning*. `Stop` reads `ws_` (`blitzortung_provider.cpp:135`) while the worker may reset
  it; `cancel()` ends no blocking read, so the wait lasts until the next message.
* *Map*. `CheckedWhenLoaded`: a late signal of the site before spends the check of the new one,
  against the comment at `map_widget.cpp:3192`. `ViewIsOfSite`: a file of another site, of the product
  the view shows, leaves the view with the manager of the site before. A
  `NewDataAvailable` delivered after the map has gone to no site dereferences a null
  manager (`map_widget.cpp:2854`; `crashed`). The subscription at the old site is never
  given up (a TODO in `SelectRadarSite`). A listing of available products that fails is
  never repeated.

## 6. What is left out

* *RadarRefresh*: the length of a wait (no transition depends on it), destruction
  (`Shutdown`), and which objects a refresh finds. A call that releases several
  provider managers disables them in one step, within the registry section it holds.
* *RadarProductCache*: one product. The unlocked copy of one weak reference in
  `GetLevel3ProductRecord` is one step with the lookup, although another thread may
  assign that reference meanwhile; what such a race yields depends on the library.
* *Level3View*: one view, and a query's three days as one. A day once listed stays
  listed: that the provider prunes it, or that midnight makes a new day part of the
  query, is not modelled, and `ListingEnds` is about one such period. The record
  map is this view's abstraction of `RadarProductCache`.
* *MapWidget*: one map; times, elevations, the overlay product view, layers, drawing, mouse and
  keyboard. Level 2 is one product.
* *NexradDataProvider*: `updatePeriod_` and `lastModified_`, available products,
  loading an object. `PruneObjects` reads the clock before its lock; a midnight between the two
  would only spare one more date, and the two are one step.
* *Level2Chunks*: scan times are the order of scans. Assumed of the radar: a scan starts with
  its first chunk, one number is always free, and fewer scans than numbers go by
  between two listings. The decoding of chunks, the update period.
* *Timeline*: the lengths of intervals, volume time signals, changes of the loop and of the
  radar site. Exceptions out of a slot, which Qt does not support, and out of locks and posts.
* *TextEvents*: what a message says (it is its event and hour), `LoadFile`, a change of the
  provider's address. Listings and downloads of an archive are outcomes.
* *Placefiles*: the list of placefiles, which do not touch each other; settings, fonts, images.
  Exceptions of slots, and of locks and timers.
* *Lightning*: LZW decoding, distance and look of strikes. `BlitzortungManager::Stop` has no
  caller today; the model calls it.
* *NtpClient*: the arithmetic of offsets. Exceptions other than those of `socket_.open`, of sending
  and receiving, and of `cancel` in `Stop`: closing a socket and setting a timer are taken to
  succeed.
* *Level2View*: one view and product; `IncomingLevel2ElevationChanged`; a scan still being made is
  shown as it is, not filled up with the radials of the one before; the days of a query are
  one, as in `Level3View`. A sweep reads the elevation and the chunks in one step: the
  elevation is an argument of the call that locks them. The record whose reference is
  tested and whose load is posted may be loaded by somebody else in between: the load then
  finds it, which is one of the model's loads. The chunks provider's files grow by whole scans.
* *Level 3 provider*: one more listing, an outcome in `RadarRefresh` and `MapWidget`.
* *AlertLayer*: colours, hovering, segments without a location, the layers themselves.
  `AlertManager`: geography and sound on top of the same signals, no state of its own.
* *Markers*: changed by the GUI thread only, and the one operation that would break their
  index, moving a marker, has no caller.
* *Outlooks, discussions and other feeds*: downloads that replace what they downloaded before,
  where a late answer is recognised by its number.
* *Downloads, settings, drawing, file and text formats*: rendering, input and output, and parsing
  without a protocol. They are most of the repository by lines.

## 7. The plan

What could follow, in this order:

1. The Level 2 and Level 3 views over `RadarProductCache` in place of their environment; it
   needs an invariant of the loaders as assumption, since the product of the two state
   spaces is too large for liveness.
2. The overlay product view, which stores a message of the site before when a load ends after the
   site has changed.
3. The numbered requests of outlooks and discussions, as an abstract "latest request wins" that
   each of them implements.
4. Refinements of `NexradDataProvider` and `TextEvents`, as `LruCache` is one of
   `RadarProductCache`: a cache of days of which a step may forget old ones.
