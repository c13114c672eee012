------------------------------- MODULE TextEvents -------------------------------
(***************************************************************************)
(* TextEventManager and WarningsProvider: the messages of warnings, by the  *)
(* event they belong to.  A refresh polls the hourly files of the last      *)
(* hours; a selection of a time loads the archives of the days around it    *)
(* and prunes those of other days.                                          *)
(*                                                                          *)
(* One refresh and one selection run at a time, each under a mutex of its   *)
(* own (refreshMutex_, archiveMutex_); they meet in HandleMessage, under    *)
(* textEventMutex_.  What a message says is left out: it is its event and   *)
(* the hour it was issued.  LoadFile and a change of the warnings provider  *)
(* are left out.                                                            *)
(***************************************************************************)
EXTENDS Lists, FiniteSets

CONSTANTS
    Messages,        \* the messages there are or will be
    EventOf,         \* message -> its event
    HourOf,          \* message -> the hour it was issued, in whose file it is
    DayHours,        \* hours of a day
    FirstHour,       \* the hour in which the program starts
    LastHour,        \* bound: the hour in which the model ends
    InitialHistory,  \* kInitialLoadHistoryDuration_
    DefaultHistory,  \* kDefaultLoadHistoryDuration_
    SelectDays,      \* the days of the times that are selected
    MaxArchiveDates, \* kMaxArchiveDates_
    MaxSelections,   \* bound on the selections
    MaxFailures      \* bound on the requests that fail

Hours == 0 .. LastHour
DayOf(m) == HourOf[m] \div DayHours
CeilDay(h) == (h + DayHours - 1) \div DayHours
Days == 0 .. CeilDay(LastHour) + 1
EventKeys == {EventOf[m] : m \in Messages}
Unset == -1

ASSUME TextEventsAssumption ==
    /\ DayHours \in Nat \ {0}
    /\ FirstHour \in Nat /\ LastHour \in Nat /\ FirstHour <= LastHour
    /\ InitialHistory \in 1 .. FirstHour - 1 /\ DefaultHistory \in 1 .. InitialHistory
    /\ IsFiniteSet(Messages)
    /\ HourOf \in [Messages -> 0 .. LastHour]
    /\ SelectDays \subseteq Days \ {0}
    /\ MaxArchiveDates \in Nat /\ MaxArchiveDates >= 3
    /\ MaxSelections \in Nat /\ MaxFailures \in Nat

VARIABLES
    hour,           \* the hour of the clock
    issued,         \* the messages in the files and archives
    fileRecords,    \* hour -> what its file held at the HEAD that files_ records, or {}
    prevLoadTime,   \* prevLoadTime_, or Unset
    archiveLimit,   \* archiveLimit_, or Unset
    textEvents,     \* textEventMap_: event -> its messages
    liveEvents,     \* liveEventKeys_
    archiveEvents,  \* archiveEventKeys_: day -> events, {} without an entry
    archiveDates,   \* archiveDates_, least recently selected first
    unloaded,       \* unloadedProductMap_: day -> {} or {the entries not loaded}
    refresh,        \* where the refresh is
    selecting,      \* where the selection is
    signals,        \* AlertUpdated and AlertsRemoved queued for the GUI thread
    overtaken,      \* history: events that were given a message between their
                    \* erasure and the signal that tells of it
    polled,         \* history: live messages handled
    missedHours,    \* history: hours of whose file a request failed
    missedEntries,  \* history: entries of archives that were not fetched
    selections,     \* number of selections so far
    failures        \* number of requests that failed so far

feed == <<hour, issued>>
live == <<fileRecords, prevLoadTime, archiveLimit, refresh>>
archives == <<archiveEvents, archiveDates, unloaded, selecting>>
alerts == <<signals, overtaken>>
history == <<polled, missedHours, missedEntries, selections, failures>>
textVars == <<feed, live, archives, textEvents, liveEvents, alerts, history>>

NotRunning == [pc |-> "idle"]
RefreshStates ==
    {NotRunning}
      \cup [pc : {"load"}, loadTime : Hours, startTime : Hours]
      \cup [pc : {"handle"}, left : SUBSET Messages]
ArchiveStates ==
    {NotRunning}
      \cup [pc : {"dates", "list", "load"}, day : SelectDays]
      \cup [pc : {"fetch", "handle"}, left : SUBSET Messages]
      \cup [pc : {"prune"}]
      \cup [pc : {"erase", "announce"}, events : SUBSET EventKeys]

(* The signal of a message, and of events that were pruned.                 *)
AlertUpdated(m) == [events |-> {EventOf[m]}, message |-> {m}]
AlertsRemoved(events) == [events |-> events, message |-> {}]
AlertSignals == [events : SUBSET EventKeys, message : SUBSET Messages]

TextTypeOK ==
    /\ hour \in FirstHour .. LastHour
    /\ issued \in SUBSET Messages
    /\ fileRecords \in [Hours -> SUBSET Messages]
    /\ prevLoadTime \in Hours \cup {Unset}
    /\ archiveLimit \in Days \cup {Unset}
    /\ textEvents \in [EventKeys -> SUBSET Messages]
    /\ liveEvents \in SUBSET EventKeys
    /\ archiveEvents \in [Days -> SUBSET EventKeys]
    /\ archiveDates \in Seq(Days) /\ Distinct(archiveDates)
    /\ unloaded \in [Days -> SUBSET SUBSET Messages]
    /\ \A d \in Days : \A a, b \in unloaded[d] : a = b
    /\ refresh \in RefreshStates
    /\ selecting \in ArchiveStates
    /\ signals \in Seq(AlertSignals)
    /\ overtaken \in SUBSET EventKeys
    /\ polled \in SUBSET Messages
    /\ missedHours \in SUBSET Hours
    /\ missedEntries \in SUBSET Messages
    /\ selections \in 0 .. MaxSelections /\ failures \in 0 .. MaxFailures

TextInit ==
    /\ hour = FirstHour
    /\ issued = {m \in Messages : HourOf[m] < FirstHour}
    /\ fileRecords = [h \in Hours |-> {}]
    /\ prevLoadTime = Unset
    /\ archiveLimit = Unset
    /\ textEvents = [e \in EventKeys |-> {}]
    /\ liveEvents = {}
    /\ archiveEvents = [d \in Days |-> {}]
    /\ archiveDates = <<>>
    /\ unloaded = [d \in Days |-> {}]
    /\ refresh = NotRunning
    /\ selecting = NotRunning
    /\ signals = <<>>
    /\ overtaken = {}
    /\ polled = {}
    /\ missedHours = {}
    /\ missedEntries = {}
    /\ selections = 0 /\ failures = 0

----------------------------------------------------------------------------
(* The world: messages are issued, hours pass -- several at once when the   *)
(* machine sleeps.                                                          *)

Issue(m) ==
    /\ m \notin issued
    /\ HourOf[m] = hour
    /\ issued' = issued \cup {m}
    /\ UNCHANGED <<hour, live, archives, textEvents, liveEvents, alerts, history>>

HoursPass(h) ==
    /\ h > hour
    /\ hour' = h
    /\ UNCHANGED <<issued, live, archives, textEvents, liveEvents, alerts, history>>

----------------------------------------------------------------------------
(* HandleMessage, under textEventMutex_.  An event that is new, from the    *)
(* live feed, is live; any event from an archive that is not live belongs   *)
(* to the archive of the day of the message.  A message that is not stored  *)
(* yet is announced; as the handler looks for it in the list it then finds, *)
(* emitting the signal is one step with storing the message.                *)

AddMessage(m) ==
    /\ textEvents' = [textEvents EXCEPT ![EventOf[m]] = @ \cup {m}]
    /\ IF m \in textEvents[EventOf[m]] THEN UNCHANGED alerts
       ELSE /\ signals' = Append(signals, AlertUpdated(m))
            /\ overtaken' = IF selecting.pc = "announce"
                            THEN overtaken \cup ({EventOf[m]} \cap selecting.events)
                            ELSE overtaken

(* Mutant of HandleLiveMessage: an event is live if the message is new.     *)
HandleLiveAnyway(m) ==
    /\ AddMessage(m)
    /\ liveEvents' = liveEvents \cup {EventOf[m]}
    /\ UNCHANGED archiveEvents

HandleLiveMessage(m) ==
    /\ AddMessage(m)
    /\ liveEvents' = IF textEvents[EventOf[m]] = {}
                     THEN liveEvents \cup {EventOf[m]} ELSE liveEvents
    /\ UNCHANGED archiveEvents

HandleArchiveMessage(m) ==
    /\ AddMessage(m)
    /\ archiveEvents' = IF EventOf[m] \notin liveEvents
                        THEN [archiveEvents EXCEPT ![DayOf(m)] = @ \cup {EventOf[m]}]
                        ELSE archiveEvents
    /\ UNCHANGED liveEvents

----------------------------------------------------------------------------
(* Refresh and LoadUpdatedFiles                                             *)

Least(S) == CHOOSE x \in S : \A y \in S : x <= y

(* The hour to load from: some history, and all since the last load.        *)
StartTime ==
    IF prevLoadTime = Unset THEN hour - InitialHistory
    ELSE Least({hour - DefaultHistory, prevLoadTime})

(* The timer, or the first refresh.                                         *)
BeginTextRefresh ==
    /\ refresh = NotRunning
    /\ refresh' = [pc |-> "load", loadTime |-> hour, startTime |-> StartTime]
    /\ archiveLimit' = IF archiveLimit = Unset THEN CeilDay(StartTime) ELSE archiveLimit
    /\ UNCHANGED <<feed, fileRecords, prevLoadTime, archives, alerts, textEvents, liveEvents,
                   history>>

(* So many requests fail.                                                   *)
Fail(n) == failures + n <= MaxFailures /\ failures' = failures + n

FileOf(h) == {m \in issued : HourOf[m] = h}

(* The files whose size or date differ from the record of the last HEAD.    *)
UpdatedFiles(asked) == {h \in asked : FileOf(h) # fileRecords[h]}

(* A HEAD for every hour up to the current one, a GET for every file that   *)
(* was updated.  The record changes with the HEAD, whatever becomes of the  *)
(* GET; the load time is stored whatever failed.                            *)
LoadUpdatedFiles ==
    /\ refresh.pc = "load"
    /\ LET asked == refresh.startTime .. hour
       IN  \E headFails \in SUBSET asked :
             /\ failures + Cardinality(headFails) <= MaxFailures
             /\ \E getFails \in SUBSET UpdatedFiles(asked \ headFails) :
                   LET updated == UpdatedFiles(asked \ headFails)
                   IN  /\ Fail(Cardinality(headFails) + Cardinality(getFails))
                       /\ fileRecords' = [h \in Hours |-> IF h \in updated THEN FileOf(h)
                                                          ELSE fileRecords[h]]
                       /\ refresh' = [pc |-> "handle",
                                      left |-> UNION {FileOf(h) : h \in updated \ getFails}]
                       /\ missedHours' = missedHours \cup headFails \cup getFails
    /\ prevLoadTime' = refresh.loadTime
    /\ UNCHANGED <<feed, archiveLimit, archives, alerts, textEvents, liveEvents, polled,
                   missedEntries, selections>>

NextMessage(S) == CHOOSE m \in S : \A n \in S : HourOf[m] <= HourOf[n]

HandleLive ==
    /\ refresh.pc = "handle" /\ refresh.left # {}
    /\ LET m == NextMessage(refresh.left)
       IN  /\ HandleLiveMessage(m)
           /\ refresh' = [pc |-> "handle", left |-> refresh.left \ {m}]
           /\ polled' = polled \cup {m}
    /\ UNCHANGED <<feed, fileRecords, prevLoadTime, archiveLimit, archiveDates, unloaded,
                   selecting, missedHours, missedEntries, selections, failures>>

EndTextRefresh ==
    /\ refresh.pc = "handle" /\ refresh.left = {}
    /\ refresh' = NotRunning
    /\ UNCHANGED <<feed, fileRecords, prevLoadTime, archiveLimit, archives, alerts, textEvents,
                   liveEvents, history>>

----------------------------------------------------------------------------
(* SelectTime.  The filter over the three days is evaluated whenever they   *)
(* are walked through, and the limit may appear in between.                 *)

ArchiveGoes(state) == selecting' = state

SelectArchiveTime(d) ==
    /\ selecting = NotRunning
    /\ selections < MaxSelections /\ selections' = selections + 1
    /\ ArchiveGoes([pc |-> "dates", day |-> d])
    /\ UNCHANGED <<feed, live, archiveEvents, archiveDates, unloaded, alerts, textEvents,
                   liveEvents, polled, missedHours, missedEntries, failures>>

SelectedDays(d) ==
    {x \in (d - 1) .. (d + 1) : x \in Days /\ (archiveLimit = Unset \/ x < archiveLimit)}

(* The days of a selection, in the order in which they are pushed.          *)
Pushed(d) == Keeping(<<d - 1, d, d + 1>>, SelectedDays(d))

(* Mutant of DatesWith: a day is not looked for in the list.                *)
DatesAppended(d) == archiveDates \o Pushed(d)

(* The days move to the end of the list.                                    *)
DatesWith(d) == Keeping(archiveDates, Days \ SelectedDays(d)) \o Pushed(d)

UpdateArchiveDates ==
    /\ selecting.pc = "dates"
    /\ archiveDates' = DatesWith(selecting.day)
    /\ ArchiveGoes([pc |-> "list", day |-> selecting.day])
    /\ UNCHANGED <<feed, live, archiveEvents, unloaded, alerts, textEvents, liveEvents, history>>

(* Each day without an entry is listed; a listing that fails leaves none.   *)
ListArchives ==
    /\ selecting.pc = "list"
    /\ LET asked == {d \in SelectedDays(selecting.day) : unloaded[d] = {}}
       IN  \E fails \in SUBSET asked :
             /\ Fail(Cardinality(fails))
             /\ unloaded' = [d \in Days |->
                               IF d \in asked \ fails THEN {{m \in issued : DayOf(m) = d}}
                               ELSE unloaded[d]]
    /\ ArchiveGoes([pc |-> "load", day |-> selecting.day])
    /\ UNCHANGED <<feed, live, archiveEvents, archiveDates, alerts, textEvents, liveEvents,
                   polled, missedHours, missedEntries, selections>>

(* LoadArchives: the entries in the window of the time, which reaches into  *)
(* the days beside it, are moved out of the map ...                         *)
MoveToLoadList ==
    /\ selecting.pc = "load"
    /\ \E moved \in SUBSET UNION UNION {unloaded[d] :
                               d \in Days \cap (selecting.day - 1) .. (selecting.day + 1)} :
          /\ unloaded' = [d \in Days |-> {entries \ moved : entries \in unloaded[d]}]
          /\ ArchiveGoes([pc |-> "fetch", left |-> moved])
    /\ UNCHANGED <<feed, live, archiveEvents, archiveDates, alerts, textEvents, liveEvents,
                   history>>

(* ... and then fetched, each with a request that may fail.                 *)
LoadTextProducts ==
    /\ selecting.pc = "fetch"
    /\ \E fails \in SUBSET selecting.left :
          /\ Fail(Cardinality(fails))
          /\ ArchiveGoes([pc |-> "handle", left |-> selecting.left \ fails])
          /\ missedEntries' = missedEntries \cup fails
    /\ UNCHANGED <<feed, live, archiveEvents, archiveDates, unloaded, alerts, textEvents,
                   liveEvents, polled, missedHours, selections>>

HandleArchived ==
    /\ selecting.pc = "handle" /\ selecting.left # {}
    /\ LET m == NextMessage(selecting.left)
       IN  /\ HandleArchiveMessage(m)
           /\ ArchiveGoes([pc |-> "handle", left |-> selecting.left \ {m}])
    /\ UNCHANGED <<feed, live, archiveDates, unloaded, history>>

ArchiveHandled ==
    /\ selecting.pc = "handle" /\ selecting.left = {}
    /\ ArchiveGoes([pc |-> "prune"])
    /\ UNCHANGED <<feed, live, archiveEvents, archiveDates, unloaded, alerts, textEvents,
                   liveEvents, history>>

(* PruneArchives                                                            *)

LastDates == SubSeq(archiveDates,
    IF Len(archiveDates) > MaxArchiveDates THEN Len(archiveDates) - MaxArchiveDates + 1 ELSE 1,
    Len(archiveDates))
Kept == Entries(LastDates)
EventDays == {d \in Days : archiveEvents[d] # {}}
ListedDays == {d \in Days : unloaded[d] # {}}

(* Mutant of NothingToPrune: the listings are not counted.                  *)
NothingToPruneInEvents == Cardinality(EventDays) = Len(LastDates)

(* Numbers of days are compared, not the days.                              *)
NothingToPrune ==
    Cardinality(EventDays) = Len(LastDates) /\ Cardinality(ListedDays) = Len(LastDates)

(* Mutant of EventsToPrune: an event may still belong to a day that stays.  *)
EventsOfPrunedDays == UNION {archiveEvents[d] : d \in Days \ Kept}

EventsToPrune ==
    (UNION {archiveEvents[d] : d \in Days \ Kept}) \ UNION {archiveEvents[d] : d \in Kept}

PruneArchives ==
    /\ selecting.pc = "prune"
    /\ archiveDates' = LastDates
    /\ IF NothingToPrune
       THEN ArchiveGoes(NotRunning) /\ UNCHANGED <<archiveEvents, unloaded>>
       ELSE /\ ArchiveGoes([pc |-> "erase", events |-> EventsToPrune])
            /\ archiveEvents' = [d \in Days |-> IF d \in Kept THEN archiveEvents[d] ELSE {}]
            /\ unloaded' = [d \in Days |-> IF d \in Kept THEN unloaded[d] ELSE {}]
    /\ UNCHANGED <<feed, live, alerts, textEvents, liveEvents, history>>

(* The signals that are left when events are erased: the handler of one     *)
(* about an erased message would not find it and do nothing, so it is taken *)
(* out of the queue at once.                                                *)
StillOf(events) ==
    {s \in AlertSignals : s.message = {} \/ s.events \cap events = {}}

(* The events are erased, without textEventMutex_: a live message may have  *)
(* been added to one of them since they were chosen.                        *)
ErasePruned ==
    /\ selecting.pc = "erase"
    /\ textEvents' = [e \in EventKeys |-> IF e \in selecting.events THEN {} ELSE textEvents[e]]
    /\ signals' = Keeping(signals, StillOf(selecting.events))
    /\ overtaken' = overtaken \ selecting.events
    /\ ArchiveGoes([pc |-> "announce", events |-> selecting.events])
    /\ UNCHANGED <<feed, live, archiveEvents, archiveDates, unloaded, liveEvents, history>>

AnnouncePruned ==
    /\ selecting.pc = "announce"
    /\ signals' = IF selecting.events = {} THEN signals
                  ELSE Append(signals, AlertsRemoved(selecting.events))
    /\ ArchiveGoes(NotRunning)
    /\ UNCHANGED <<feed, live, archiveEvents, archiveDates, unloaded, textEvents,
                   liveEvents, overtaken, history>>

----------------------------------------------------------------------------
TextNext ==
    \/ \E m \in Messages : Issue(m)
    \/ \E h \in Hours : HoursPass(h)
    \/ BeginTextRefresh
    \/ LoadUpdatedFiles \/ HandleLive \/ EndTextRefresh
    \/ \E d \in SelectDays : SelectArchiveTime(d)
    \/ UpdateArchiveDates \/ ListArchives \/ MoveToLoadList \/ LoadTextProducts
    \/ HandleArchived \/ ArchiveHandled
    \/ PruneArchives \/ ErasePruned \/ AnnouncePruned

TextSpec == TextInit /\ [][TextNext]_textVars

----------------------------------------------------------------------------
(* Every event is accounted for: it is live, never to be pruned, or belongs *)
(* to the archive of a day, with which it will be pruned, and not both.     *)
(* What is in no set stays for ever; what is in both is pruned while live.  *)
EventsAccounted ==
    \A e \in EventKeys :
        LET archived == \E d \in Days : e \in archiveEvents[d]
            pruning == selecting.pc = "erase" /\ e \in selecting.events
        IN  /\ textEvents[e] # {} <=> e \in liveEvents \/ archived \/ pruning
            /\ ~(e \in liveEvents /\ (archived \/ pruning))

(* A message from before the start, of a listed day, that has been taken    *)
(* off its list is in the event map, or about to be -- unless fetching it   *)
(* failed: pruning other days does not take what a day that stays has       *)
(* loaded.                                                                  *)
LoadedMessagesStay ==
    \A m \in Messages : HourOf[m] < FirstHour =>
        \A entries \in unloaded[DayOf(m)] : m \notin entries
            => \/ m \in textEvents[EventOf[m]] \cup missedEntries
               \/ selecting.pc \in {"fetch", "handle"} /\ m \in selecting.left

(* The archives are bounded, in events as in listings, although only        *)
(* numbers are compared: by the days kept, and at most three more while a   *)
(* selection is under way.                                                  *)
ArchivesBounded ==
    LET bound == IF selecting = NotRunning THEN MaxArchiveDates ELSE MaxArchiveDates + 3
    IN  Cardinality(EventDays) <= bound /\ Cardinality(ListedDays) <= bound

(* No message falls between the feed and the archives: once a refresh of a  *)
(* later hour has ended, every message of the days that are never asked of  *)
(* the archives has been handled, unless a request for its file failed --   *)
(* also when the machine slept for hours.                                   *)
HoursLoaded ==
    refresh = NotRunning /\ prevLoadTime # Unset =>
        \A m \in issued :
            archiveLimit <= DayOf(m) /\ HourOf[m] < prevLoadTime
                => m \in polled \/ HourOf[m] \in missedHours

(* No message is missed, of the archives or of the feed.                    *)
MessagesLoaded == LoadedMessagesStay /\ HoursLoaded

(* "A live event will always be loaded before a duplicate archive event",   *)
(* so that no live event is pruned: an event with a message from the live   *)
(* feed stays.                                                              *)
LiveMessagesStay == \A m \in polled : m \in textEvents[EventOf[m]]
=============================================================================
