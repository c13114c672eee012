------------------------------ MODULE Texts_proofs ------------------------------
(***************************************************************************)
(* Theorems about TextEvents and AlertLayer, for any messages, hours, days  *)
(* and bounds.                                                              *)
(***************************************************************************)
EXTENDS AlertLayer, Lists_proofs

----------------------------------------------------------------------------
(* Hours and days.                                                          *)

LEMMA Quotient ==
  ASSUME NEW a \in Nat, NEW b \in Nat \ {0}
  PROVE  /\ a \div b \in Nat
         /\ b * (a \div b) <= a
         /\ a < b * (a \div b) + b
  OBVIOUS

LEMMA ProductGrows ==
  ASSUME NEW b \in Nat \ {0}, NEW p \in Nat, NEW q \in Nat, p <= q
  PROVE  b * p <= b * q
  OBVIOUS

LEMMA QuotientGrows ==
  ASSUME NEW a \in Nat, NEW c \in Nat, NEW b \in Nat \ {0}, a <= c
  PROVE  a \div b <= c \div b
<1> DEFINE p == a \div b
           q == c \div b
<1>1. p \in Nat /\ b * p <= a
  BY Quotient
<1>2. q \in Nat /\ c < b * q + b
  BY Quotient
<1> HIDE DEF p, q
<1>3. ASSUME q + 1 <= p PROVE FALSE
  <2>1. b * (q + 1) <= b * p
    BY <1>1, <1>2, <1>3, ProductGrows
  <2>2. b * (q + 1) = b * q + b
    BY <1>2
  <2>3. b * p \in Nat /\ b * q \in Nat
    BY <1>1, <1>2
  <2> QED  BY <1>1, <1>2, <2>1, <2>2, <2>3
<1>4. p <= q
  BY <1>1, <1>2, <1>3
<1> QED  BY <1>4 DEF p, q

LEMMA Calendar ==
  /\ FirstHour \in Nat /\ LastHour \in Nat /\ FirstHour \in Hours /\ DayHours \in Nat \ {0}
  /\ \A h \in Hours : h \in Nat /\ CeilDay(h) \in Days
  /\ \A d \in Days : d \in Nat
  /\ \A m \in Messages : HourOf[m] \in Hours /\ DayOf(m) \in Days /\ DayOf(m) \in Nat
  /\ SelectDays \subseteq Days /\ \A d \in SelectDays : d - 1 \in Nat
<1>1. /\ FirstHour \in Nat /\ LastHour \in Nat /\ FirstHour \in Hours /\ DayHours \in Nat \ {0}
      /\ \A h \in Hours : h \in Nat /\ h <= LastHour
      /\ \A m \in Messages : HourOf[m] \in Hours
  BY TextEventsAssumption DEF Hours
<1>2. CeilDay(LastHour) \in Nat
  <2>1. LastHour + DayHours - 1 \in Nat
    BY <1>1
  <2> QED  BY <1>1, <2>1, Quotient DEF CeilDay
<1>3. ASSUME NEW h \in Hours
      PROVE  /\ CeilDay(h) \in Nat /\ CeilDay(h) <= CeilDay(LastHour)
             /\ h \div DayHours \in Nat /\ h \div DayHours <= CeilDay(LastHour)
  <2>1. /\ h + DayHours - 1 \in Nat /\ LastHour + DayHours - 1 \in Nat /\ h \in Nat
        /\ h + DayHours - 1 <= LastHour + DayHours - 1 /\ h <= LastHour + DayHours - 1
    BY <1>1
  <2> QED  BY <1>1, <2>1, Quotient, QuotientGrows DEF CeilDay
<1>4. \A d \in Days : d \in Nat
  BY <1>2 DEF Days
<1>5. \A h \in Hours : CeilDay(h) \in Days /\ h \div DayHours \in Days
  BY <1>2, <1>3 DEF Days
<1>6. SelectDays \subseteq Days /\ \A d \in SelectDays : d - 1 \in Nat
  BY <1>4, TextEventsAssumption
<1> QED  BY <1>1, <1>4, <1>5, <1>6 DEF DayOf

(* A message of a day that begins no earlier than the hour is no earlier.    *)
LEMMA DayAfter ==
  ASSUME NEW s \in Hours, NEW m \in Messages, CeilDay(s) <= DayOf(m)
  PROVE  s <= HourOf[m]
<1>0. s \in Nat /\ HourOf[m] \in Nat /\ DayHours \in Nat \ {0}
  BY Calendar
<1>1. /\ s \in Nat /\ HourOf[m] \in Nat /\ DayHours \in Nat \ {0}
      /\ s + DayHours - 1 \in Nat
  BY <1>0
<1>2. /\ CeilDay(s) \in Nat /\ s + DayHours - 1 < DayHours * CeilDay(s) + DayHours
  BY <1>1, Quotient DEF CeilDay
<1>3. DayOf(m) \in Nat /\ DayHours * DayOf(m) <= HourOf[m]
  BY <1>1, Quotient DEF DayOf
<1>4. DayHours * CeilDay(s) <= DayHours * DayOf(m)
  BY <1>1, <1>2, <1>3, ProductGrows
<1>5. DayHours * CeilDay(s) \in Nat /\ DayHours * DayOf(m) \in Nat
  BY <1>1, <1>2, <1>3
<1> QED  BY <1>1, <1>2, <1>3, <1>4, <1>5

(* The window of a time: its day, the day before and the day after.          *)
Window(d) == (d - 1) .. (d + 1)

LEMMA WindowSize ==
  ASSUME NEW d \in Nat, NEW S, S \subseteq Window(d)
  PROVE  IsFiniteSet(S) /\ Cardinality(S) \in Nat /\ Cardinality(S) <= 3
<1>1. d - 1 \in Int /\ d + 1 \in Int
  OBVIOUS
<1>2. IsFiniteSet(Window(d)) /\ Cardinality(Window(d)) = IF d - 1 > d + 1 THEN 0 ELSE (d + 1) - (d - 1) + 1
  BY <1>1, FS_Interval DEF Window
<1>3. Cardinality(Window(d)) = 3
  BY <1>2
<1>4. S \in SUBSET Window(d)
  OBVIOUS
<1>5. IsFiniteSet(S) /\ Cardinality(S) <= Cardinality(Window(d))
  BY <1>2, <1>4, FS_Subset
<1> QED  BY <1>3, <1>5, FS_CardinalityType

LEMMA LeastIs ==
  ASSUME NEW S, S \subseteq Nat, S # {}
  PROVE  Least(S) \in S /\ \A x \in S : Least(S) <= x
  BY LeastOfNaturals DEF Least

LEMMA NextIsOneOf ==
  ASSUME NEW S, S \subseteq Messages, S # {}
  PROVE  NextMessage(S) \in S
<1> DEFINE H == {HourOf[m] : m \in S}
<1>1. H \subseteq Nat /\ H # {}
  BY Calendar
<1>2. PICK h \in H : \A k \in H : h <= k
  BY <1>1, LeastOfNaturals
<1>3. \E m \in S : \A n \in S : HourOf[m] <= HourOf[n]
  BY <1>2
<1> QED  BY <1>3 DEF NextMessage

----------------------------------------------------------------------------
(* Where the refresh and the selection are.                                  *)

LEMMA RefreshShapes ==
  ASSUME NEW r \in RefreshStates
  PROVE  /\ r.pc \in {"idle", "load", "handle"}
         /\ r.pc = "idle" <=> r = NotRunning
         /\ r.pc = "load" => r.loadTime \in Hours /\ r.startTime \in Hours
         /\ r.pc = "handle" => r.left \in SUBSET Messages
<1>1. CASE r = NotRunning
  BY <1>1 DEF NotRunning
<1>2. CASE r \in [pc : {"load"}, loadTime : Hours, startTime : Hours]
  BY <1>2 DEF NotRunning
<1>3. CASE r \in [pc : {"handle"}, left : SUBSET Messages]
  BY <1>3 DEF NotRunning
<1> QED  BY <1>1, <1>2, <1>3 DEF RefreshStates

LEMMA RefreshesAre ==
  /\ NotRunning \in RefreshStates
  /\ \A l, s \in Hours : [pc |-> "load", loadTime |-> l, startTime |-> s] \in RefreshStates
  /\ \A left \in SUBSET Messages : [pc |-> "handle", left |-> left] \in RefreshStates
  BY DEF RefreshStates

LEMMA ArchiveShapes ==
  ASSUME NEW s \in ArchiveStates
  PROVE  /\ s.pc \in {"idle", "dates", "list", "load", "fetch", "handle", "prune", "erase",
                      "announce"}
         /\ s.pc = "idle" <=> s = NotRunning
         /\ s.pc \in {"dates", "list", "load"} => s.day \in SelectDays
         /\ s.pc \in {"fetch", "handle"} => s.left \in SUBSET Messages
         /\ s.pc \in {"erase", "announce"} => s.events \in SUBSET EventKeys
<1>1. CASE s = NotRunning
  BY <1>1 DEF NotRunning
<1>2. CASE s \in [pc : {"dates", "list", "load"}, day : SelectDays]
  BY <1>2 DEF NotRunning
<1>3. CASE s \in [pc : {"fetch", "handle"}, left : SUBSET Messages]
  BY <1>3 DEF NotRunning
<1>4. CASE s \in [pc : {"prune"}]
  BY <1>4 DEF NotRunning
<1>5. CASE s \in [pc : {"erase", "announce"}, events : SUBSET EventKeys]
  BY <1>5 DEF NotRunning
<1> QED  BY <1>1, <1>2, <1>3, <1>4, <1>5 DEF ArchiveStates

LEMMA ArchivesAre ==
  /\ NotRunning \in ArchiveStates /\ [pc |-> "prune"] \in ArchiveStates
  /\ \A d \in SelectDays : /\ [pc |-> "dates", day |-> d] \in ArchiveStates
                           /\ [pc |-> "list", day |-> d] \in ArchiveStates
                           /\ [pc |-> "load", day |-> d] \in ArchiveStates
  /\ \A left \in SUBSET Messages : /\ [pc |-> "fetch", left |-> left] \in ArchiveStates
                                   /\ [pc |-> "handle", left |-> left] \in ArchiveStates
  /\ \A events \in SUBSET EventKeys :
        /\ [pc |-> "erase", events |-> events] \in ArchiveStates
        /\ [pc |-> "announce", events |-> events] \in ArchiveStates
  BY DEF ArchiveStates

----------------------------------------------------------------------------
(* What a message adds.                                                      *)

LEMMA Added ==
  ASSUME TextTypeOK, NEW m \in Messages, AddMessage(m)
  PROVE  /\ textEvents' \in [EventKeys -> SUBSET Messages]
         /\ EventOf[m] \in EventKeys
         /\ \A e \in EventKeys :
               textEvents'[e] = textEvents[e] \cup (IF e = EventOf[m] THEN {m} ELSE {})
         /\ signals' \in Seq(AlertSignals)
         /\ overtaken' \in SUBSET EventKeys
<1>0. /\ textEvents \in [EventKeys -> SUBSET Messages] /\ signals \in Seq(AlertSignals)
      /\ overtaken \in SUBSET EventKeys /\ EventOf[m] \in EventKeys
  BY DEF TextTypeOK, EventKeys
<1>1. textEvents' = [textEvents EXCEPT ![EventOf[m]] = textEvents[EventOf[m]] \cup {m}]
  BY DEF AddMessage
<1>2. textEvents' \in [EventKeys -> SUBSET Messages]
      /\ \A e \in EventKeys :
            textEvents'[e] = textEvents[e] \cup (IF e = EventOf[m] THEN {m} ELSE {})
  BY <1>0, <1>1
<1>3. CASE m \in textEvents[EventOf[m]]
  BY <1>0, <1>2, <1>3 DEF AddMessage, alerts
<1>4. CASE m \notin textEvents[EventOf[m]]
  <2>1. AlertUpdated(m) \in AlertSignals
    BY <1>0 DEF AlertUpdated, AlertSignals
  <2>2. /\ signals' = Append(signals, AlertUpdated(m))
        /\ overtaken' = IF selecting.pc = "announce"
                        THEN overtaken \cup ({EventOf[m]} \cap selecting.events)
                        ELSE overtaken
    BY <1>4 DEF AddMessage
  <2> HIDE DEF AlertUpdated, AlertSignals
  <2>3. signals' \in Seq(AlertSignals)
    BY <1>0, <2>1, <2>2
  <2>4. overtaken' \in SUBSET EventKeys
    BY <1>0, <2>2
  <2> QED  BY <1>0, <1>2, <2>3, <2>4
<1> QED  BY <1>3, <1>4

(* A selection moves its days to the end of the list, each once.             *)
LEMMA SelectedList ==
  ASSUME TextTypeOK, NEW d \in SelectDays
  PROVE  DatesWith(d) \in Seq(Days) /\ Distinct(DatesWith(d))
<1> DEFINE T == <<d - 1, d, d + 1>>
           K == Keeping(archiveDates, Days \ SelectedDays(d))
<1>1. /\ d \in Nat /\ d - 1 \in Nat /\ archiveDates \in Seq(Days) /\ Distinct(archiveDates)
      /\ SelectedDays(d) \subseteq Days
  BY Calendar DEF TextTypeOK, SelectedDays
<1>2. T \in Seq(Nat) /\ Distinct(T)
  <2>1. T \in Seq(Nat) /\ Len(T) = 3 /\ T[1] = d - 1 /\ T[2] = d /\ T[3] = d + 1
    BY <1>1
  <2>2. \A i \in 1 .. 3 : i = 1 \/ i = 2 \/ i = 3
    OBVIOUS
  <2> HIDE DEF T
  <2> QED  BY <1>1, <2>1, <2>2 DEF Distinct
<1> HIDE DEF T
<1>3. /\ Pushed(d) = Keeping(T, SelectedDays(d))
      /\ Pushed(d) \in Seq(Nat) /\ Distinct(Pushed(d))
      /\ Entries(Pushed(d)) = Entries(T) \cap SelectedDays(d)
  BY <1>2, KeepingPlaces, KeepingDistinct, KeepingEntries DEF Pushed, T
<1>4. Pushed(d) \in Seq(Days) /\ Entries(Pushed(d)) \subseteq SelectedDays(d)
  BY <1>1, <1>3, ListOver
<1>5. K \in Seq(Days) /\ Distinct(K) /\ Entries(K) = Entries(archiveDates) \cap (Days \ SelectedDays(d))
  BY <1>1, KeepingPlaces, KeepingDistinct, KeepingEntries
<1>6. DatesWith(d) = K \o Pushed(d)
  BY DEF DatesWith
<1> HIDE DEF K
<1>7. Entries(K) \cap Entries(Pushed(d)) = {} /\ Distinct(Pushed(d))
  BY <1>3, <1>4, <1>5
<1> QED  BY <1>4, <1>5, <1>6, <1>7, Joined

LEMMA LastOnes ==
  ASSUME TextTypeOK
  PROVE  /\ LastDates \in Seq(Days) /\ Distinct(LastDates)
         /\ Len(LastDates) \in Nat /\ Len(LastDates) <= MaxArchiveDates
         /\ IsFiniteSet(Kept) /\ Cardinality(Kept) = Len(LastDates) /\ Kept \subseteq Days
<1> DEFINE n == Len(archiveDates)
           k == IF n > MaxArchiveDates THEN n - MaxArchiveDates + 1 ELSE 1
<1>1. archiveDates \in Seq(Days) /\ Distinct(archiveDates) /\ n \in Nat /\ MaxArchiveDates \in Nat
  BY TextEventsAssumption DEF TextTypeOK
<1>2. LastDates = SubSeq(archiveDates, k, n)
  BY DEF LastDates
<1> HIDE DEF n
<1>3. k \in Nat \ {0} /\ k <= n + 1 /\ n - k + 1 <= MaxArchiveDates
  BY <1>1
<1> HIDE DEF k
<1> USE DEF n
<1>4. LastDates \in Seq(Days) /\ Distinct(LastDates) /\ Len(LastDates) = n - k + 1
  BY <1>1, <1>2, <1>3, TailOf
<1>5. Len(LastDates) \in Nat /\ Len(LastDates) <= MaxArchiveDates
  BY <1>1, <1>3, <1>4
<1>6. IsFiniteSet(Kept) /\ Cardinality(Kept) = Len(LastDates)
  BY <1>4, DistinctCardinality DEF Kept
<1>7. Kept \subseteq Days
  <2>1. \A i \in 1 .. Len(LastDates) : LastDates[i] \in Days
    BY <1>4
  <2> QED  BY <2>1 DEF Kept, Entries
<1> QED  BY <1>4, <1>5, <1>6, <1>7

----------------------------------------------------------------------------
(* Types                                                                     *)

FeedTypes ==
    /\ hour \in FirstHour .. LastHour
    /\ issued \in SUBSET Messages
LiveTypes ==
    /\ fileRecords \in [Hours -> SUBSET Messages]
    /\ prevLoadTime \in Hours \cup {Unset}
    /\ archiveLimit \in Days \cup {Unset}
    /\ refresh \in RefreshStates
ArchiveTypes ==
    /\ archiveEvents \in [Days -> SUBSET EventKeys]
    /\ archiveDates \in Seq(Days) /\ Distinct(archiveDates)
    /\ unloaded \in [Days -> SUBSET SUBSET Messages]
    /\ \A d \in Days : \A a, b \in unloaded[d] : a = b
EventTypes ==
    /\ textEvents \in [EventKeys -> SUBSET Messages]
    /\ liveEvents \in SUBSET EventKeys
SignalTypes == signals \in Seq(AlertSignals) /\ overtaken \in SUBSET EventKeys
HistoryTypes ==
    /\ polled \in SUBSET Messages
    /\ missedHours \in SUBSET Hours
    /\ missedEntries \in SUBSET Messages
CountTypes == selections \in 0 .. MaxSelections /\ failures \in 0 .. MaxFailures

LEMMA TypesAre ==
  TextTypeOK <=> /\ FeedTypes /\ LiveTypes /\ ArchiveTypes /\ selecting \in ArchiveStates
                 /\ EventTypes /\ SignalTypes /\ HistoryTypes /\ CountTypes
  BY DEF TextTypeOK, FeedTypes, LiveTypes, ArchiveTypes, EventTypes, SignalTypes, HistoryTypes,
         CountTypes

LEMMA FailCounts ==
  ASSUME TextTypeOK, NEW n \in Nat, Fail(n)
  PROVE  failures' \in 0 .. MaxFailures
  BY TextEventsAssumption DEF TextTypeOK, Fail

LEMMA HoursFinite ==
  ASSUME NEW S, S \subseteq Hours
  PROVE  IsFiniteSet(S) /\ Cardinality(S) \in Nat
<1>1. 0 \in Int /\ LastHour \in Int
  BY Calendar
<1>2. IsFiniteSet(Hours)
  BY <1>1, FS_Interval DEF Hours
<1> QED  BY <1>2, FS_Subset, FS_CardinalityType

LEMMA StartTimeIs ==
  ASSUME TextTypeOK
  PROVE  /\ hour \in Hours /\ StartTime \in Hours /\ StartTime <= hour
         /\ prevLoadTime # Unset => StartTime <= prevLoadTime
<1>1. hour \in Nat /\ hour \in Hours /\ hour >= FirstHour /\ hour <= LastHour /\ LastHour \in Nat
  BY Calendar DEF TextTypeOK, Hours
<1>2. /\ InitialHistory \in 1 .. FirstHour - 1 /\ DefaultHistory \in 1 .. InitialHistory
      /\ FirstHour \in Nat
  BY TextEventsAssumption
<1>3. /\ hour - InitialHistory \in Hours /\ hour - InitialHistory <= hour
      /\ hour - DefaultHistory \in Hours /\ hour - DefaultHistory <= hour
  BY <1>1, <1>2 DEF Hours
<1>4. CASE prevLoadTime = Unset
  BY <1>1, <1>3, <1>4 DEF StartTime
<1>5. CASE prevLoadTime # Unset
  <2> DEFINE S == {hour - DefaultHistory, prevLoadTime}
  <2>1. prevLoadTime \in Hours /\ S \subseteq Hours /\ S \subseteq Nat /\ S # {}
    BY <1>3, <1>5, Calendar DEF TextTypeOK
  <2>2. Least(S) \in S /\ \A x \in S : Least(S) <= x
    BY <2>1, LeastIs
  <2>3. StartTime = Least(S)
    BY <1>5 DEF StartTime
  <2>4. Least(S) \in Hours /\ Least(S) <= hour - DefaultHistory /\ Least(S) <= prevLoadTime
    BY <2>1, <2>2
  <2>5. StartTime \in Nat /\ hour - DefaultHistory \in Nat
    BY <1>3, <2>3, <2>4, Calendar
  <2> QED  BY <1>1, <1>3, <2>3, <2>4, <2>5
<1> QED  BY <1>4, <1>5

(* What LoadUpdatedFiles does, given the requests that fail.                 *)
AskedHours == refresh.startTime .. hour
Updated(headFails) == UpdatedFiles(AskedHours \ headFails)
LoadedBut(headFails, getFails) ==
    /\ headFails \subseteq AskedHours /\ getFails \subseteq Updated(headFails)
    /\ Fail(Cardinality(headFails) + Cardinality(getFails))
    /\ fileRecords' = [h \in Hours |-> IF h \in Updated(headFails) THEN FileOf(h)
                                       ELSE fileRecords[h]]
    /\ refresh' = [pc |-> "handle",
                   left |-> UNION {FileOf(h) : h \in Updated(headFails) \ getFails}]
    /\ missedHours' = missedHours \cup headFails \cup getFails

LEMMA LoadingMisses ==
  ASSUME TextTypeOK, LoadUpdatedFiles
  PROVE  \E headFails, getFails \in SUBSET Hours : LoadedBut(headFails, getFails)
<1>0. /\ refresh.pc = "load" /\ refresh.startTime \in Hours
      /\ hour \in FirstHour .. LastHour /\ FirstHour \in Nat /\ LastHour \in Nat
  BY RefreshShapes, Calendar DEF LoadUpdatedFiles, TextTypeOK
<1>s. refresh.startTime \in Nat
  BY <1>0, Calendar
<1>1. refresh.startTime \in Nat /\ hour \in Nat /\ hour <= LastHour /\ LastHour \in Nat
  BY <1>0, <1>s
<1>2. AskedHours \subseteq Hours
  BY <1>1 DEF AskedHours, Hours
<1>3. PICK headFails \in SUBSET AskedHours :
         \E getFails \in SUBSET UpdatedFiles(AskedHours \ headFails) :
             LET updated == UpdatedFiles(AskedHours \ headFails)
             IN  /\ Fail(Cardinality(headFails) + Cardinality(getFails))
                 /\ fileRecords' = [h \in Hours |-> IF h \in updated THEN FileOf(h)
                                                    ELSE fileRecords[h]]
                 /\ refresh' = [pc |-> "handle",
                                left |-> UNION {FileOf(h) : h \in updated \ getFails}]
                 /\ missedHours' = missedHours \cup headFails \cup getFails
  BY DEF LoadUpdatedFiles, AskedHours
<1>4. PICK getFails \in SUBSET Updated(headFails) : LoadedBut(headFails, getFails)
  BY <1>3 DEF Updated, LoadedBut
<1>5. headFails \in SUBSET Hours /\ getFails \in SUBSET Hours
  BY <1>2, <1>4 DEF Updated, UpdatedFiles
<1> QED  BY <1>4, <1>5

LEMMA TextTypesInit == TextInit => TextTypeOK
<1> SUFFICES ASSUME TextInit PROVE TextTypeOK
  OBVIOUS
<1>1. archiveDates \in Seq(Days) /\ Distinct(archiveDates) /\ signals \in Seq(AlertSignals)
  BY DEF TextInit, Distinct
<1>2. FeedTypes /\ LiveTypes /\ selecting \in ArchiveStates
  BY Calendar, RefreshesAre, ArchivesAre, TextEventsAssumption
  DEF TextInit, FeedTypes, LiveTypes
<1>3. ArchiveTypes /\ EventTypes /\ SignalTypes /\ HistoryTypes /\ CountTypes
  BY <1>1, TextEventsAssumption
  DEF TextInit, ArchiveTypes, EventTypes, SignalTypes, HistoryTypes, CountTypes
<1> QED  BY <1>2, <1>3, TypesAre

LEMMA TextTypesStep ==
  ASSUME TextTypeOK, [TextNext]_textVars
  PROVE  TextTypeOK'
<1>0. /\ FeedTypes /\ LiveTypes /\ ArchiveTypes /\ selecting \in ArchiveStates
      /\ EventTypes /\ SignalTypes /\ HistoryTypes /\ CountTypes /\ refresh \in RefreshStates
  BY TypesAre DEF LiveTypes
<1>a. TextTypeOK' <=> /\ FeedTypes' /\ LiveTypes' /\ ArchiveTypes' /\ (selecting \in ArchiveStates)'
                      /\ EventTypes' /\ SignalTypes' /\ HistoryTypes' /\ CountTypes'
  BY TypesAre
  DEF TextTypeOK, FeedTypes, LiveTypes, ArchiveTypes, EventTypes, SignalTypes, HistoryTypes,
      CountTypes
<1>b. UNCHANGED feed => FeedTypes'
  BY <1>0 DEF feed, FeedTypes
<1>c. UNCHANGED live => LiveTypes'
  BY <1>0 DEF live, LiveTypes
<1>d. UNCHANGED <<archiveEvents, archiveDates, unloaded>> => ArchiveTypes'
  BY <1>0 DEF ArchiveTypes
<1>e. UNCHANGED <<textEvents, liveEvents>> => EventTypes'
  BY <1>0 DEF EventTypes
<1>f. UNCHANGED alerts => SignalTypes'
  BY <1>0 DEF alerts, SignalTypes
<1>g. UNCHANGED <<polled, missedHours, missedEntries>> => HistoryTypes'
  BY <1>0 DEF HistoryTypes
<1>h. UNCHANGED <<selections, failures>> => CountTypes'
  BY <1>0 DEF CountTypes
<1>i. UNCHANGED selecting => selecting' \in ArchiveStates
  BY <1>0
<1>1. ASSUME NEW m \in Messages, Issue(m) PROVE TextTypeOK'
  <2>1. FeedTypes'
    BY <1>0, <1>1 DEF Issue, FeedTypes
  <2>2. UNCHANGED <<live, archives, textEvents, liveEvents, alerts, history>>
    BY <1>1 DEF Issue
  <2> QED
    BY <1>a, <1>c, <1>d, <1>e, <1>f, <1>g, <1>h, <1>i, <2>1, <2>2 DEF archives, history
<1>2. ASSUME NEW h \in Hours, HoursPass(h) PROVE TextTypeOK'
  <2>1. FeedTypes'
    BY <1>0, <1>2, Calendar DEF HoursPass, FeedTypes, Hours
  <2>2. UNCHANGED <<live, archives, textEvents, liveEvents, alerts, history>>
    BY <1>2 DEF HoursPass
  <2> QED
    BY <1>a, <1>c, <1>d, <1>e, <1>f, <1>g, <1>h, <1>i, <2>1, <2>2 DEF archives, history
<1>3. CASE BeginTextRefresh
  <2>1. UNCHANGED <<feed, fileRecords, prevLoadTime, archives, alerts, textEvents, liveEvents, history>>
    BY <1>3 DEF BeginTextRefresh
  <2>2. refresh' \in RefreshStates /\ archiveLimit' \in Days \cup {Unset}
    BY <1>0, <1>3, StartTimeIs, Calendar, RefreshesAre DEF BeginTextRefresh, LiveTypes
  <2>3. LiveTypes'
    BY <1>0, <2>1, <2>2 DEF LiveTypes
  <2> QED
    BY <1>a, <1>b, <1>d, <1>e, <1>f, <1>g, <1>h, <1>i, <2>1, <2>3 DEF archives, history
<1>4. CASE LoadUpdatedFiles
  <2>1. refresh.pc = "load" /\ refresh.loadTime \in Hours /\ refresh.startTime \in Hours
    BY <1>0, <1>4, RefreshShapes DEF LoadUpdatedFiles
  <2>2. PICK headFails \in SUBSET Hours, getFails \in SUBSET Hours : LoadedBut(headFails, getFails)
    BY <1>4, LoadingMisses
  <2>3. /\ prevLoadTime' = refresh.loadTime
        /\ UNCHANGED <<feed, archiveLimit, archives, alerts, textEvents, liveEvents, polled,
                       missedEntries, selections>>
    BY <1>4 DEF LoadUpdatedFiles
  <2>6. \A h : FileOf(h) \in SUBSET Messages
    BY <1>0 DEF FileOf, FeedTypes
  <2>7. refresh' \in RefreshStates
    <3>1. UNION {FileOf(h) : h \in Updated(headFails) \ getFails} \in SUBSET Messages
      BY <2>6
    <3> QED  BY <2>2, <3>1, RefreshesAre DEF LoadedBut
  <2>8. fileRecords' \in [Hours -> SUBSET Messages]
    BY <1>0, <2>2, <2>6 DEF LiveTypes, LoadedBut
  <2>9. LiveTypes'
    BY <1>0, <2>1, <2>3, <2>7, <2>8 DEF LiveTypes
  <2>10. HistoryTypes'
    BY <1>0, <2>2, <2>3 DEF HistoryTypes, LoadedBut
  <2>11. CountTypes'
    <3>1. Cardinality(headFails) + Cardinality(getFails) \in Nat
      BY HoursFinite
    <3>2. failures' \in 0 .. MaxFailures
      BY <2>2, <3>1, FailCounts DEF LoadedBut
    <3> QED  BY <1>0, <2>3, <3>2 DEF CountTypes
  <2> QED
    BY <1>a, <1>b, <1>d, <1>e, <1>f, <1>i, <2>3, <2>9, <2>10, <2>11 DEF archives
<1>5. CASE HandleLive
  <2> DEFINE m == NextMessage(refresh.left)
  <2>1. /\ refresh.pc = "handle" /\ refresh.left # {} /\ HandleLiveMessage(m)
        /\ refresh' = [pc |-> "handle", left |-> refresh.left \ {m}]
        /\ polled' = polled \cup {m}
        /\ UNCHANGED <<feed, fileRecords, prevLoadTime, archiveLimit, archiveDates, unloaded,
                       selecting, missedHours, missedEntries, selections, failures>>
    BY <1>5 DEF HandleLive
  <2>2. refresh.left \subseteq Messages /\ m \in Messages
    BY <1>0, <2>1, RefreshShapes, NextIsOneOf
  <2> HIDE DEF m
  <2>3. AddMessage(m) /\ UNCHANGED archiveEvents
        /\ liveEvents' = IF textEvents[EventOf[m]] = {} THEN liveEvents \cup {EventOf[m]} ELSE liveEvents
    BY <2>1 DEF HandleLiveMessage
  <2>4. EventTypes' /\ SignalTypes'
    BY <1>0, <2>2, <2>3, Added DEF EventTypes, SignalTypes
  <2>5. LiveTypes'
    <3>1. refresh' \in RefreshStates
      BY <2>1, <2>2, RefreshesAre
    <3> QED  BY <1>0, <2>1, <3>1 DEF LiveTypes
  <2>6. HistoryTypes'
    BY <1>0, <2>1, <2>2 DEF HistoryTypes
  <2> QED  BY <1>a, <1>b, <1>d, <1>h, <1>i, <2>1, <2>3, <2>4, <2>5, <2>6
<1>6. CASE EndTextRefresh
  <2>1. LiveTypes'
    BY <1>0, <1>6, RefreshesAre DEF EndTextRefresh, LiveTypes
  <2>2. UNCHANGED <<feed, archives, alerts, textEvents, liveEvents, history>>
    BY <1>6 DEF EndTextRefresh
  <2> QED
    BY <1>a, <1>b, <1>d, <1>e, <1>f, <1>g, <1>h, <1>i, <2>1, <2>2 DEF archives, history
<1>7. ASSUME NEW d \in SelectDays, SelectArchiveTime(d) PROVE TextTypeOK'
  <2>1. /\ UNCHANGED <<feed, live, archiveEvents, archiveDates, unloaded, alerts, textEvents,
                       liveEvents, polled, missedHours, missedEntries, failures>>
        /\ selecting' = [pc |-> "dates", day |-> d]
        /\ selections < MaxSelections /\ selections' = selections + 1
    BY <1>7 DEF SelectArchiveTime, ArchiveGoes
  <2>2. CountTypes'
    BY <1>0, <2>1, TextEventsAssumption DEF CountTypes
  <2> QED  BY <1>a, <1>b, <1>c, <1>d, <1>e, <1>f, <1>g, <2>1, <2>2, ArchivesAre
<1>8. CASE UpdateArchiveDates
  <2>1. /\ selecting.pc = "dates" /\ archiveDates' = DatesWith(selecting.day)
        /\ selecting' = [pc |-> "list", day |-> selecting.day]
        /\ UNCHANGED <<feed, live, archiveEvents, unloaded, alerts, textEvents, liveEvents, history>>
    BY <1>8 DEF UpdateArchiveDates, ArchiveGoes
  <2>2. selecting.day \in SelectDays
    BY <1>0, <2>1, ArchiveShapes
  <2>3. ArchiveTypes'
    BY <1>0, <2>1, <2>2, SelectedList DEF ArchiveTypes
  <2> QED  BY <1>a, <1>b, <1>c, <1>e, <1>f, <1>g, <1>h, <2>1, <2>2, <2>3, ArchivesAre DEF history
<1>9. CASE ListArchives
  <2> DEFINE asked == {d \in SelectedDays(selecting.day) : unloaded[d] = {}}
  <2>1. PICK fails \in SUBSET asked :
          /\ Fail(Cardinality(fails))
          /\ unloaded' = [d \in Days |-> IF d \in asked \ fails THEN {{m \in issued : DayOf(m) = d}}
                                         ELSE unloaded[d]]
    BY <1>9 DEF ListArchives
  <2>2. /\ selecting.pc = "list" /\ selecting' = [pc |-> "load", day |-> selecting.day]
        /\ UNCHANGED <<feed, live, archiveEvents, archiveDates, alerts, textEvents, liveEvents,
                       polled, missedHours, missedEntries, selections>>
    BY <1>9 DEF ListArchives, ArchiveGoes
  <2>3. selecting.day \in SelectDays
    BY <1>0, <2>2, ArchiveShapes
  <2>4. ArchiveTypes'
    <3>1. \A d : {m \in issued : DayOf(m) = d} \in SUBSET Messages
      BY <1>0 DEF FeedTypes
    <3>2. unloaded' \in [Days -> SUBSET SUBSET Messages]
      BY <1>0, <2>1, <3>1 DEF ArchiveTypes
    <3>3. \A d \in Days : \A a, b \in unloaded'[d] : a = b
      <4> SUFFICES ASSUME NEW d \in Days, NEW a \in unloaded'[d], NEW b \in unloaded'[d]
                   PROVE  a = b
        OBVIOUS
      <4>1. CASE d \in asked \ fails
        BY <2>1, <4>1
      <4>2. CASE d \notin asked \ fails
        BY <1>0, <2>1, <4>2 DEF ArchiveTypes
      <4> QED  BY <4>1, <4>2
    <3> QED  BY <1>0, <2>2, <3>2, <3>3 DEF ArchiveTypes
  <2>5. CountTypes'
    <3>1. Cardinality(fails) \in Nat
      <4>1. fails \subseteq Window(selecting.day)
        BY <2>1 DEF SelectedDays, Window
      <4>2. selecting.day \in Nat
        BY <2>3, Calendar
      <4> QED  BY <4>1, <4>2, WindowSize
    <3>2. failures' \in 0 .. MaxFailures
      BY <2>1, <3>1, FailCounts
    <3> QED  BY <1>0, <2>2, <3>2 DEF CountTypes
  <2> QED  BY <1>a, <1>b, <1>c, <1>e, <1>f, <1>g, <2>2, <2>3, <2>4, <2>5, ArchivesAre
<1>10. CASE MoveToLoadList
  <2>1. /\ selecting.pc = "load"
        /\ UNCHANGED <<feed, live, archiveEvents, archiveDates, alerts, textEvents, liveEvents, history>>
    BY <1>10 DEF MoveToLoadList
  <2>2. PICK moved \in SUBSET UNION UNION {unloaded[d] :
                d \in Days \cap (selecting.day - 1) .. (selecting.day + 1)} :
          /\ unloaded' = [d \in Days |-> {entries \ moved : entries \in unloaded[d]}]
          /\ selecting' = [pc |-> "fetch", left |-> moved]
    BY <1>10 DEF MoveToLoadList, ArchiveGoes
  <2>3. unloaded \in [Days -> SUBSET SUBSET Messages] /\ \A d \in Days : \A a, b \in unloaded[d] : a = b
    BY <1>0 DEF ArchiveTypes
  <2>4. moved \in SUBSET Messages
    <3> SUFFICES ASSUME NEW m \in moved PROVE m \in Messages
      OBVIOUS
    <3>1. PICK d \in Days : \E entries \in unloaded[d] : m \in entries
      BY <2>2
    <3> QED  BY <2>3, <3>1
  <2>5. unloaded' \in [Days -> SUBSET SUBSET Messages]
    <3>1. \A d \in Days : {entries \ moved : entries \in unloaded[d]} \in SUBSET SUBSET Messages
      BY <2>3
    <3> QED  BY <2>2, <3>1
  <2>6. \A d \in Days : \A a, b \in unloaded'[d] : a = b
    <3> SUFFICES ASSUME NEW d \in Days, NEW a \in unloaded'[d], NEW b \in unloaded'[d]
                 PROVE  a = b
      OBVIOUS
    <3>1. PICK x \in unloaded[d] : a = x \ moved
      BY <2>2
    <3>2. PICK y \in unloaded[d] : b = y \ moved
      BY <2>2
    <3> QED  BY <2>3, <3>1, <3>2
  <2>7. ArchiveTypes'
    BY <1>0, <2>1, <2>5, <2>6 DEF ArchiveTypes
  <2> QED  BY <1>a, <1>b, <1>c, <1>e, <1>f, <1>g, <1>h, <2>1, <2>2, <2>4, <2>7, ArchivesAre DEF history
<1>11. CASE LoadTextProducts
  <2>1. /\ selecting.pc = "fetch"
        /\ UNCHANGED <<feed, live, archiveEvents, archiveDates, unloaded, alerts, textEvents,
                       liveEvents, polled, missedHours, selections>>
    BY <1>11 DEF LoadTextProducts
  <2>2. PICK fails \in SUBSET selecting.left :
          /\ Fail(Cardinality(fails))
          /\ selecting' = [pc |-> "handle", left |-> selecting.left \ fails]
          /\ missedEntries' = missedEntries \cup fails
    BY <1>11 DEF LoadTextProducts, ArchiveGoes
  <2>3. selecting.left \in SUBSET Messages
    BY <1>0, <2>1, ArchiveShapes
  <2>4. selecting' \in ArchiveStates
    <3>1. selecting.left \ fails \in SUBSET Messages
      BY <2>3
    <3> QED  BY <2>2, <3>1, ArchivesAre
  <2>5. HistoryTypes'
    BY <1>0, <2>1, <2>2, <2>3 DEF HistoryTypes
  <2>6. CountTypes'
    <3>1. IsFiniteSet(Messages) /\ fails \in SUBSET Messages
      BY <2>2, <2>3, TextEventsAssumption
    <3>2. Cardinality(fails) \in Nat
      BY <3>1, FS_Subset, FS_CardinalityType
    <3>3. failures' \in 0 .. MaxFailures
      BY <2>2, <3>2, FailCounts
    <3> QED  BY <1>0, <2>1, <3>3 DEF CountTypes
  <2> QED  BY <1>a, <1>b, <1>c, <1>d, <1>e, <1>f, <2>1, <2>4, <2>5, <2>6
<1>12. CASE HandleArchived
  <2> DEFINE m == NextMessage(selecting.left)
  <2>1. /\ selecting.pc = "handle" /\ selecting.left # {} /\ HandleArchiveMessage(m)
        /\ selecting' = [pc |-> "handle", left |-> selecting.left \ {m}]
        /\ UNCHANGED <<feed, live, archiveDates, unloaded, history>>
    BY <1>12 DEF HandleArchived, ArchiveGoes
  <2>2. selecting.left \subseteq Messages /\ m \in Messages
    BY <1>0, <2>1, ArchiveShapes, NextIsOneOf
  <2> HIDE DEF m
  <2>3. AddMessage(m) /\ UNCHANGED liveEvents
        /\ archiveEvents' = IF EventOf[m] \notin liveEvents
                            THEN [archiveEvents EXCEPT ![DayOf(m)] = archiveEvents[DayOf(m)] \cup {EventOf[m]}]
                            ELSE archiveEvents
    BY <2>1 DEF HandleArchiveMessage
  <2>4. EventTypes' /\ SignalTypes'
    BY <1>0, <2>2, <2>3, Added DEF EventTypes, SignalTypes
  <2>5. ArchiveTypes'
    <3>1. EventOf[m] \in EventKeys
      BY <2>2 DEF EventKeys
    <3>2. archiveEvents' \in [Days -> SUBSET EventKeys]
      BY <1>0, <2>3, <3>1 DEF ArchiveTypes
    <3> QED  BY <1>0, <2>1, <3>2 DEF ArchiveTypes
  <2>6. selecting' \in ArchiveStates
    <3>1. selecting.left \ {m} \in SUBSET Messages
      BY <2>2
    <3> QED  BY <2>1, <3>1, ArchivesAre
  <2> QED  BY <1>a, <1>b, <1>c, <1>g, <1>h, <2>1, <2>4, <2>5, <2>6 DEF history
<1>13. CASE ArchiveHandled
  <2>1. /\ selecting' = [pc |-> "prune"]
        /\ UNCHANGED <<feed, live, archiveEvents, archiveDates, unloaded, alerts, textEvents,
                       liveEvents, history>>
    BY <1>13 DEF ArchiveHandled, ArchiveGoes
  <2> QED  BY <1>a, <1>b, <1>c, <1>d, <1>e, <1>f, <1>g, <1>h, <2>1, ArchivesAre DEF history
<1>14. CASE PruneArchives
  <2>1. archiveDates' = LastDates /\ UNCHANGED <<feed, live, alerts, textEvents, liveEvents, history>>
    BY <1>14 DEF PruneArchives
  <2>2. \/ selecting' = NotRunning /\ UNCHANGED <<archiveEvents, unloaded>>
        \/ /\ selecting' = [pc |-> "erase", events |-> EventsToPrune]
           /\ archiveEvents' = [d \in Days |-> IF d \in Kept THEN archiveEvents[d] ELSE {}]
           /\ unloaded' = [d \in Days |-> IF d \in Kept THEN unloaded[d] ELSE {}]
    BY <1>14 DEF PruneArchives, ArchiveGoes
  <2>3. EventsToPrune \in SUBSET EventKeys
    <3>1. \A d \in Days : archiveEvents[d] \in SUBSET EventKeys
      BY <1>0 DEF ArchiveTypes
    <3> QED  BY <3>1 DEF EventsToPrune
  <2>4. selecting' \in ArchiveStates
    BY <2>2, <2>3, ArchivesAre
  <2>5. /\ archiveEvents' \in [Days -> SUBSET EventKeys]
        /\ unloaded' \in [Days -> SUBSET SUBSET Messages]
        /\ \A d \in Days : \A a, b \in unloaded'[d] : a = b
    BY <1>0, <2>2 DEF ArchiveTypes
  <2>6. ArchiveTypes'
    BY <2>1, <2>5, LastOnes DEF ArchiveTypes
  <2> QED  BY <1>a, <1>b, <1>c, <1>e, <1>f, <1>g, <1>h, <2>1, <2>4, <2>6 DEF history
<1>15. CASE ErasePruned
  <2>1. /\ selecting.pc = "erase"
        /\ textEvents' = [e \in EventKeys |-> IF e \in selecting.events THEN {} ELSE textEvents[e]]
        /\ signals' = Keeping(signals, StillOf(selecting.events))
        /\ overtaken' = overtaken \ selecting.events
        /\ selecting' = [pc |-> "announce", events |-> selecting.events]
        /\ UNCHANGED <<feed, live, archiveEvents, archiveDates, unloaded, liveEvents, history>>
    BY <1>15 DEF ErasePruned, ArchiveGoes
  <2>2. selecting.events \in SUBSET EventKeys
    BY <1>0, <2>1, ArchiveShapes
  <2>3. EventTypes'
    BY <1>0, <2>1 DEF EventTypes
  <2>4. SignalTypes'
    BY <1>0, <2>1, KeepingPlaces DEF SignalTypes
  <2> QED  BY <1>a, <1>b, <1>c, <1>d, <1>g, <1>h, <2>1, <2>2, <2>3, <2>4, ArchivesAre DEF history
<1>16. CASE AnnouncePruned
  <2>1. /\ selecting.pc = "announce"
        /\ signals' = IF selecting.events = {} THEN signals
                      ELSE Append(signals, AlertsRemoved(selecting.events))
        /\ selecting' = NotRunning
        /\ UNCHANGED <<feed, live, archiveEvents, archiveDates, unloaded, textEvents,
                       liveEvents, overtaken, history>>
    BY <1>16 DEF AnnouncePruned, ArchiveGoes
  <2>2. selecting.events \in SUBSET EventKeys
    BY <1>0, <2>1, ArchiveShapes
  <2>3. AlertsRemoved(selecting.events) \in AlertSignals
    BY <2>2 DEF AlertsRemoved, AlertSignals
  <2>4. signals' \in Seq(AlertSignals)
    <3> HIDE DEF AlertsRemoved, AlertSignals
    <3> QED  BY <1>0, <2>1, <2>3 DEF SignalTypes
  <2>5. SignalTypes'
    BY <1>0, <2>1, <2>4 DEF SignalTypes
  <2> QED  BY <1>a, <1>b, <1>c, <1>d, <1>e, <1>g, <1>h, <2>1, <2>5, ArchivesAre DEF history
<1>17. CASE UNCHANGED textVars
  <2>1. UNCHANGED <<feed, live, archives, textEvents, liveEvents, alerts, history>>
    BY <1>17 DEF textVars
  <2> QED
    BY <1>a, <1>b, <1>c, <1>d, <1>e, <1>f, <1>g, <1>h, <1>i, <2>1 DEF archives, history
<1> QED
  BY <1>1, <1>2, <1>3, <1>4, <1>5, <1>6, <1>7, <1>8, <1>9, <1>10, <1>11, <1>12, <1>13, <1>14,
     <1>15, <1>16, <1>17
  DEF TextNext

(* A step of the text events, of the layers, or none.                        *)
TextStep == TextNext \/ UNCHANGED <<feed, live, archives, textEvents, liveEvents, history>>

----------------------------------------------------------------------------
(* The events                                                                *)

InArchives(e) == \E d \in Days : e \in archiveEvents[d]
Pruning(e) == selecting.pc = "erase" /\ e \in selecting.events
Accounted(e) ==
    /\ textEvents[e] # {} <=> e \in liveEvents \/ InArchives(e) \/ Pruning(e)
    /\ ~(e \in liveEvents /\ (InArchives(e) \/ Pruning(e)))
PrunedAreGone == selecting.pc = "erase" => \A e \in selecting.events : ~InArchives(e)
EventsInv == (\A e \in EventKeys : Accounted(e)) /\ PrunedAreGone

LEMMA EventsInvInit == TextInit => EventsInv
  BY DEF TextInit, EventsInv, Accounted, InArchives, Pruning, PrunedAreGone, NotRunning

LEMMA EventsInvStep ==
  ASSUME TextTypeOK, EventsInv, TextStep
  PROVE  EventsInv'
<1>0. /\ textEvents \in [EventKeys -> SUBSET Messages] /\ liveEvents \in SUBSET EventKeys
      /\ archiveEvents \in [Days -> SUBSET EventKeys] /\ selecting \in ArchiveStates
      /\ refresh \in RefreshStates
      /\ \A e \in EventKeys : Accounted(e) /\ PrunedAreGone
  BY DEF TextTypeOK, EventsInv
<1>a. ASSUME UNCHANGED <<textEvents, liveEvents, archiveEvents>>,
             \/ UNCHANGED selecting
             \/ selecting.pc # "erase" /\ selecting'.pc # "erase"
      PROVE  EventsInv'
  <2>1. \A e : InArchives(e)' = InArchives(e)
    BY <1>a DEF InArchives
  <2>2. \A e : Pruning(e)' = Pruning(e)
    BY <1>a DEF Pruning
  <2>3. \A e \in EventKeys : Accounted(e)'
    BY <1>0, <1>a, <2>1, <2>2 DEF Accounted
  <2>4. PrunedAreGone'
    BY <1>a, <2>1 DEF PrunedAreGone, EventsInv
  <2> QED  BY <2>3, <2>4 DEF EventsInv
<1>1. ASSUME NEW m \in Messages, Issue(m) PROVE EventsInv'
  BY <1>a, <1>1 DEF Issue, archives
<1>2. ASSUME NEW h \in Hours, HoursPass(h) PROVE EventsInv'
  BY <1>a, <1>2 DEF HoursPass, archives
<1>3. CASE BeginTextRefresh
  BY <1>a, <1>3 DEF BeginTextRefresh, archives
<1>4. CASE LoadUpdatedFiles
  BY <1>a, <1>4 DEF LoadUpdatedFiles, archives
<1>5. CASE HandleLive
  <2> DEFINE m == NextMessage(refresh.left)
  <2>1. /\ refresh.pc = "handle" /\ refresh.left # {} /\ HandleLiveMessage(m)
        /\ UNCHANGED selecting
    BY <1>5 DEF HandleLive
  <2>2. m \in Messages
    BY <1>0, <2>1, RefreshShapes, NextIsOneOf
  <2> HIDE DEF m
  <2>3. AddMessage(m) /\ UNCHANGED archiveEvents
        /\ liveEvents' = IF textEvents[EventOf[m]] = {} THEN liveEvents \cup {EventOf[m]} ELSE liveEvents
    BY <2>1 DEF HandleLiveMessage
  <2>4. \A e \in EventKeys :
           textEvents'[e] = textEvents[e] \cup (IF e = EventOf[m] THEN {m} ELSE {})
    BY <2>2, <2>3, Added
  <2>5. \A e : InArchives(e)' = InArchives(e) /\ Pruning(e)' = Pruning(e)
    BY <2>1, <2>3 DEF InArchives, Pruning
  <2>6. ASSUME NEW e \in EventKeys PROVE Accounted(e)'
    <3>1. CASE e = EventOf[m] /\ textEvents[e] = {}
      BY <1>0, <2>3, <2>4, <2>5, <3>1 DEF Accounted
    <3>2. CASE ~(e = EventOf[m] /\ textEvents[e] = {})
      <4>1. e \in liveEvents' <=> e \in liveEvents
        BY <2>3, <3>2
      <4>2. textEvents'[e] = {} <=> textEvents[e] = {}
        BY <2>4, <3>2
      <4> QED  BY <1>0, <2>5, <4>1, <4>2 DEF Accounted
    <3> QED  BY <3>1, <3>2
  <2>7. PrunedAreGone'
    BY <2>1, <2>5 DEF PrunedAreGone, EventsInv
  <2> QED  BY <2>6, <2>7 DEF EventsInv
<1>6. CASE EndTextRefresh
  BY <1>a, <1>6 DEF EndTextRefresh, archives
<1>7. ASSUME NEW d \in SelectDays, SelectArchiveTime(d) PROVE EventsInv'
  BY <1>a, <1>7 DEF SelectArchiveTime, ArchiveGoes, NotRunning
<1>8. CASE UpdateArchiveDates
  BY <1>a, <1>8 DEF UpdateArchiveDates, ArchiveGoes
<1>9. CASE ListArchives
  BY <1>a, <1>9 DEF ListArchives, ArchiveGoes
<1>10. CASE MoveToLoadList
  <2>1. selecting.pc # "erase" /\ selecting'.pc # "erase"
    BY <1>10 DEF MoveToLoadList, ArchiveGoes
  <2> QED  BY <1>a, <1>10, <2>1 DEF MoveToLoadList
<1>11. CASE LoadTextProducts
  <2>1. selecting.pc # "erase" /\ selecting'.pc # "erase"
    BY <1>11 DEF LoadTextProducts, ArchiveGoes
  <2> QED  BY <1>a, <1>11, <2>1 DEF LoadTextProducts
<1>12. CASE HandleArchived
  <2> DEFINE m == NextMessage(selecting.left)
  <2>1. /\ selecting.pc = "handle" /\ selecting.left # {} /\ HandleArchiveMessage(m)
        /\ selecting'.pc = "handle"
    BY <1>12 DEF HandleArchived, ArchiveGoes
  <2>2. m \in Messages
    BY <1>0, <2>1, ArchiveShapes, NextIsOneOf
  <2> HIDE DEF m
  <2>3. AddMessage(m) /\ UNCHANGED liveEvents
        /\ archiveEvents' = IF EventOf[m] \notin liveEvents
                            THEN [archiveEvents EXCEPT ![DayOf(m)] = archiveEvents[DayOf(m)] \cup {EventOf[m]}]
                            ELSE archiveEvents
    BY <2>1 DEF HandleArchiveMessage
  <2>4. \A e \in EventKeys :
           textEvents'[e] = textEvents[e] \cup (IF e = EventOf[m] THEN {m} ELSE {})
    BY <2>2, <2>3, Added
  <2>5. DayOf(m) \in Days
    BY <2>2, Calendar
  <2>6. \A e : InArchives(e)' <=> InArchives(e) \/ (e = EventOf[m] /\ e \notin liveEvents)
    BY <1>0, <2>3, <2>5 DEF InArchives
  <2>7. \A e : ~Pruning(e) /\ ~Pruning(e)'
    BY <2>1 DEF Pruning
  <2>8. ASSUME NEW e \in EventKeys PROVE Accounted(e)'
    <3>1. CASE e = EventOf[m]
      BY <1>0, <2>3, <2>4, <2>6, <2>7, <3>1 DEF Accounted
    <3>2. CASE e # EventOf[m]
      BY <1>0, <2>3, <2>4, <2>6, <2>7, <3>2 DEF Accounted
    <3> QED  BY <3>1, <3>2
  <2>9. PrunedAreGone'
    BY <2>1 DEF PrunedAreGone
  <2> QED  BY <2>8, <2>9 DEF EventsInv
<1>13. CASE ArchiveHandled
  BY <1>a, <1>13 DEF ArchiveHandled, ArchiveGoes
<1>14. CASE PruneArchives
  <2>1. selecting.pc = "prune" /\ UNCHANGED <<textEvents, liveEvents>>
    BY <1>14 DEF PruneArchives
  <2>2. CASE NothingToPrune
    <3>1. selecting' = NotRunning /\ UNCHANGED archiveEvents
      BY <1>14, <2>2 DEF PruneArchives, ArchiveGoes
    <3> QED  BY <1>a, <2>1, <3>1 DEF NotRunning
  <2>3. CASE ~NothingToPrune
    <3>1. /\ selecting' = [pc |-> "erase", events |-> EventsToPrune]
          /\ archiveEvents' = [d \in Days |-> IF d \in Kept THEN archiveEvents[d] ELSE {}]
      BY <1>14, <2>3 DEF PruneArchives, ArchiveGoes
    <3>2. \A e : InArchives(e)' <=> \E d \in Days : d \in Kept /\ e \in archiveEvents[d]
      BY <3>1 DEF InArchives
    <3>3. \A e : Pruning(e)' <=> e \in EventsToPrune
      BY <3>1 DEF Pruning
    <3>4. \A e : ~Pruning(e)
      BY <2>1 DEF Pruning
    <3>5. Kept \subseteq Days
      BY LastOnes
    <3>6. \A e : e \in EventsToPrune <=> /\ \E d \in Days : d \notin Kept /\ e \in archiveEvents[d]
                                         /\ ~\E d \in Kept : e \in archiveEvents[d]
      BY DEF EventsToPrune
    <3>7. \A e : InArchives(e)' \/ Pruning(e)' <=> InArchives(e)
      BY <3>2, <3>3, <3>5, <3>6 DEF InArchives
    <3>8. \A e \in EventKeys : Accounted(e)'
      BY <1>0, <2>1, <3>4, <3>7 DEF Accounted
    <3>9. PrunedAreGone'
      BY <3>1, <3>2, <3>6 DEF PrunedAreGone
    <3> QED  BY <3>8, <3>9 DEF EventsInv
  <2> QED  BY <2>2, <2>3
<1>15. CASE ErasePruned
  <2>1. /\ selecting.pc = "erase" /\ selecting'.pc = "announce"
        /\ textEvents' = [e \in EventKeys |-> IF e \in selecting.events THEN {} ELSE textEvents[e]]
        /\ UNCHANGED <<archiveEvents, liveEvents>>
    BY <1>15 DEF ErasePruned, ArchiveGoes
  <2>2. \A e : InArchives(e)' = InArchives(e) /\ ~Pruning(e)'
    BY <2>1 DEF InArchives, Pruning
  <2>3. ASSUME NEW e \in EventKeys PROVE Accounted(e)'
    <3>1. CASE e \in selecting.events
      <4>1. Pruning(e) /\ ~InArchives(e) /\ e \notin liveEvents
        BY <1>0, <2>1, <3>1 DEF Pruning, PrunedAreGone, Accounted
      <4>2. textEvents'[e] = {}
        BY <2>1, <3>1
      <4> QED  BY <2>1, <2>2, <4>1, <4>2 DEF Accounted
    <3>2. CASE e \notin selecting.events
      <4>1. ~Pruning(e) /\ textEvents'[e] = textEvents[e]
        BY <2>1, <3>2 DEF Pruning
      <4> QED  BY <1>0, <2>1, <2>2, <4>1 DEF Accounted
    <3> QED  BY <3>1, <3>2
  <2>4. PrunedAreGone'
    BY <2>1 DEF PrunedAreGone
  <2> QED  BY <2>3, <2>4 DEF EventsInv
<1>16. CASE AnnouncePruned
  BY <1>a, <1>16 DEF AnnouncePruned, ArchiveGoes, NotRunning
<1>17. CASE UNCHANGED <<feed, live, archives, textEvents, liveEvents, history>>
  BY <1>a, <1>17 DEF archives
<1> QED
  BY <1>1, <1>2, <1>3, <1>4, <1>5, <1>6, <1>7, <1>8, <1>9, <1>10, <1>11, <1>12, <1>13, <1>14,
     <1>15, <1>16, <1>17
  DEF TextStep, TextNext

----------------------------------------------------------------------------
(* What the archives have loaded                                             *)

PastIssued == \A m \in Messages : HourOf[m] < FirstHour => m \in issued
Stored(m) ==
    /\ m \in textEvents[EventOf[m]]
    /\ EventOf[m] \in liveEvents \/ EventOf[m] \in archiveEvents[DayOf(m)]
Fetching(m) == selecting.pc \in {"fetch", "handle"} /\ m \in selecting.left
Known(m) == m \in missedEntries \/ Fetching(m) \/ Stored(m)
Listed(d, m) == \A entries \in unloaded[d] : m \in entries
OthersKnown ==
    \A d \in Days, m \in Messages :
        HourOf[m] < FirstHour /\ DayOf(m) = d => Listed(d, m) \/ Known(m)
LoadedInv == PastIssued /\ OthersKnown

LEMMA LoadedInvInit == TextInit => LoadedInv
  BY DEF TextInit, LoadedInv, PastIssued, OthersKnown, Listed

LEMMA LoadedInvStep ==
  ASSUME TextTypeOK, EventsInv, LoadedInv, TextStep
  PROVE  LoadedInv'
<1>0. /\ textEvents \in [EventKeys -> SUBSET Messages] /\ liveEvents \in SUBSET EventKeys
      /\ archiveEvents \in [Days -> SUBSET EventKeys] /\ selecting \in ArchiveStates
      /\ refresh \in RefreshStates /\ unloaded \in [Days -> SUBSET SUBSET Messages]
      /\ PastIssued /\ OthersKnown
      /\ \A m \in Messages : EventOf[m] \in EventKeys /\ DayOf(m) \in Days
  BY Calendar DEF TextTypeOK, LoadedInv, EventKeys
<1>i. issued \subseteq issued' => PastIssued'
  BY <1>0 DEF PastIssued
<1>a. ASSUME UNCHANGED <<issued, textEvents, liveEvents, archiveEvents, unloaded, missedEntries>>,
             \A m \in Messages : Fetching(m) => Fetching(m)'
      PROVE  LoadedInv'
  <2>1. \A m \in Messages : Known(m) => Known(m)'
    BY <1>a DEF Known, Stored
  <2>2. \A d, m : Listed(d, m)' = Listed(d, m)
    BY <1>a DEF Listed
  <2>3. OthersKnown'
    BY <1>0, <2>1, <2>2 DEF OthersKnown
  <2> QED  BY <1>a, <1>i, <2>3 DEF LoadedInv
<1>n. \A m \in Messages : selecting.pc \notin {"fetch", "handle"} => ~Fetching(m)
  BY DEF Fetching
<1>1. ASSUME NEW m \in Messages, Issue(m) PROVE LoadedInv'
  <2>1. /\ issued \subseteq issued'
        /\ UNCHANGED <<live, archives, textEvents, liveEvents, alerts, history>>
    BY <1>1 DEF Issue
  <2>2. UNCHANGED <<textEvents, liveEvents, archiveEvents, unloaded, selecting, missedEntries>>
    BY <2>1 DEF archives, history
  <2>3. OthersKnown'
    BY <1>0, <2>2 DEF OthersKnown, Listed, Known, Fetching, Stored
  <2> QED  BY <1>i, <2>1, <2>3 DEF LoadedInv
<1>2. ASSUME NEW h \in Hours, HoursPass(h) PROVE LoadedInv'
  BY <1>a, <1>2 DEF HoursPass, archives, history, Fetching
<1>3. CASE BeginTextRefresh
  BY <1>a, <1>3 DEF BeginTextRefresh, archives, history, feed, Fetching
<1>4. CASE LoadUpdatedFiles
  BY <1>a, <1>4 DEF LoadUpdatedFiles, archives, history, feed, Fetching
<1>5. CASE HandleLive
  <2> DEFINE m == NextMessage(refresh.left)
  <2>1. /\ refresh.pc = "handle" /\ refresh.left # {} /\ HandleLiveMessage(m)
        /\ UNCHANGED <<feed, unloaded, selecting, missedEntries>>
    BY <1>5 DEF HandleLive
  <2>2. m \in Messages
    BY <1>0, <2>1, RefreshShapes, NextIsOneOf
  <2> HIDE DEF m
  <2>3. AddMessage(m) /\ UNCHANGED archiveEvents /\ liveEvents \subseteq liveEvents'
    BY <2>1 DEF HandleLiveMessage
  <2>4. \A e \in EventKeys : textEvents[e] \subseteq textEvents'[e]
    BY <2>2, <2>3, Added, TextTypeOK
  <2>5. \A n \in Messages : Known(n) => Known(n)'
    BY <1>0, <2>1, <2>3, <2>4 DEF Known, Stored, Fetching
  <2>6. \A d, n : Listed(d, n)' = Listed(d, n)
    BY <2>1 DEF Listed
  <2>7. OthersKnown'
    BY <1>0, <2>5, <2>6 DEF OthersKnown
  <2> QED  BY <1>i, <2>1, <2>7 DEF LoadedInv, feed
<1>6. CASE EndTextRefresh
  BY <1>a, <1>6 DEF EndTextRefresh, archives, history, feed, Fetching
<1>7. ASSUME NEW d \in SelectDays, SelectArchiveTime(d) PROVE LoadedInv'
  <2>1. selecting.pc = "idle" /\ UNCHANGED <<feed, archiveEvents, unloaded, textEvents, liveEvents, missedEntries>>
    BY <1>7 DEF SelectArchiveTime, NotRunning
  <2> QED  BY <1>a, <1>n, <2>1 DEF feed
<1>8. CASE UpdateArchiveDates
  BY <1>a, <1>n, <1>8 DEF UpdateArchiveDates, feed, history
<1>9. CASE ListArchives
  <2> DEFINE asked == {d \in SelectedDays(selecting.day) : unloaded[d] = {}}
  <2>1. /\ selecting.pc = "list"
        /\ UNCHANGED <<feed, archiveEvents, textEvents, liveEvents, missedEntries>>
    BY <1>9 DEF ListArchives
  <2>2. PICK fails \in SUBSET asked :
          unloaded' = [d \in Days |-> IF d \in asked \ fails THEN {{m \in issued : DayOf(m) = d}}
                                      ELSE unloaded[d]]
    BY <1>9 DEF ListArchives
  <2>3. \A n \in Messages : Known(n) => Known(n)'
    BY <1>n, <2>1 DEF Known, Stored
  <2>4. ASSUME NEW d \in Days, NEW n \in Messages, HourOf[n] < FirstHour, DayOf(n) = d
        PROVE  Listed(d, n)' \/ Known(n)'
    <3>1. CASE d \in asked \ fails
      <4>1. unloaded'[d] = {{m \in issued : DayOf(m) = d}}
        BY <2>2, <3>1
      <4> QED  BY <1>0, <2>4, <4>1 DEF Listed, PastIssued
    <3>2. CASE d \notin asked \ fails
      <4>1. unloaded'[d] = unloaded[d]
        BY <2>2, <3>2
      <4>2. Listed(d, n) \/ Known(n)
        BY <1>0, <2>4 DEF OthersKnown
      <4> QED  BY <2>3, <4>1, <4>2 DEF Listed
    <3> QED  BY <3>1, <3>2
  <2>5. OthersKnown'
    BY <2>4 DEF OthersKnown
  <2> QED  BY <1>i, <2>1, <2>5 DEF LoadedInv, feed
<1>10. CASE MoveToLoadList
  <2>1. /\ selecting.pc = "load"
        /\ UNCHANGED <<feed, archiveEvents, textEvents, liveEvents, missedEntries>>
    BY <1>10 DEF MoveToLoadList, history
  <2>2. PICK moved \in SUBSET UNION UNION {unloaded[d] :
                d \in Days \cap (selecting.day - 1) .. (selecting.day + 1)} :
          /\ unloaded' = [d \in Days |-> {entries \ moved : entries \in unloaded[d]}]
          /\ selecting' = [pc |-> "fetch", left |-> moved]
    BY <1>10 DEF MoveToLoadList, ArchiveGoes
  <2>3. \A n \in Messages : Known(n) => Known(n)'
    BY <1>n, <2>1 DEF Known, Stored
  <2>4. \A n \in moved : Known(n)'
    BY <2>2 DEF Known, Fetching
  <2>5. ASSUME NEW d \in Days, NEW n \in Messages, HourOf[n] < FirstHour, DayOf(n) = d
        PROVE  Listed(d, n)' \/ Known(n)'
    <3>1. Listed(d, n) \/ Known(n)
      BY <1>0, <2>5 DEF OthersKnown
    <3>2. CASE n \in moved
      BY <2>4, <3>2
    <3>3. CASE n \notin moved
      <4>1. unloaded'[d] = {entries \ moved : entries \in unloaded[d]}
        BY <2>2
      <4>2. Listed(d, n) => Listed(d, n)'
        BY <3>3, <4>1 DEF Listed
      <4> QED  BY <2>3, <3>1, <4>2
    <3> QED  BY <3>2, <3>3
  <2>6. OthersKnown'
    BY <2>5 DEF OthersKnown
  <2> QED  BY <1>i, <2>1, <2>6 DEF LoadedInv, feed
<1>11. CASE LoadTextProducts
  <2>1. /\ selecting.pc = "fetch"
        /\ UNCHANGED <<feed, archiveEvents, unloaded, textEvents, liveEvents>>
    BY <1>11 DEF LoadTextProducts
  <2>2. PICK fails \in SUBSET selecting.left :
          /\ selecting' = [pc |-> "handle", left |-> selecting.left \ fails]
          /\ missedEntries' = missedEntries \cup fails
    BY <1>11 DEF LoadTextProducts, ArchiveGoes
  <2>3. ASSUME NEW n \in Messages, Known(n) PROVE Known(n)'
    <3>1. Stored(n) => Stored(n)'
      BY <2>1 DEF Stored
    <3>2. Fetching(n) => Fetching(n)' \/ n \in missedEntries'
      BY <2>2 DEF Fetching
    <3> QED  BY <2>2, <2>3, <3>1, <3>2 DEF Known
  <2>4. OthersKnown'
    BY <1>0, <2>1, <2>3 DEF OthersKnown, Listed
  <2> QED  BY <1>i, <2>1, <2>4 DEF LoadedInv, feed
<1>12. CASE HandleArchived
  <2>1. /\ selecting.pc = "handle" /\ selecting.left # {}
        /\ UNCHANGED <<feed, unloaded, missedEntries>>
    BY <1>12 DEF HandleArchived, history
  <2>2. PICK m \in Messages :
           /\ HandleArchiveMessage(m)
           /\ selecting' = [pc |-> "handle", left |-> selecting.left \ {m}]
    <3>1. NextMessage(selecting.left) \in Messages
      BY <1>0, <2>1, ArchiveShapes, NextIsOneOf
    <3> QED  BY <1>12, <3>1 DEF HandleArchived, ArchiveGoes
  <2>3. AddMessage(m) /\ UNCHANGED liveEvents
        /\ archiveEvents' = IF EventOf[m] \notin liveEvents
                            THEN [archiveEvents EXCEPT ![DayOf(m)] = archiveEvents[DayOf(m)] \cup {EventOf[m]}]
                            ELSE archiveEvents
    BY <2>2 DEF HandleArchiveMessage
  <2>4. \A e \in EventKeys :
           textEvents'[e] = textEvents[e] \cup (IF e = EventOf[m] THEN {m} ELSE {})
    BY <2>2, <2>3, Added
  <2>5. \A d \in Days : archiveEvents[d] \subseteq archiveEvents'[d]
    BY <1>0, <2>3
  <2>6. Stored(m)'
    <3>1. m \in textEvents'[EventOf[m]]
      BY <1>0, <2>2, <2>4
    <3>2. EventOf[m] \notin liveEvents => EventOf[m] \in archiveEvents'[DayOf(m)]
      BY <1>0, <2>2, <2>3
    <3> QED  BY <2>3, <3>1, <3>2 DEF Stored
  <2>7. \A n \in Messages : Stored(n) => Stored(n)'
    BY <1>0, <2>3, <2>4, <2>5 DEF Stored
  <2>8. \A n \in Messages : Fetching(n) => Fetching(n)' \/ n = m
    <3>1. selecting'.pc = "handle" /\ selecting'.left = selecting.left \ {m}
      BY <2>2
    <3> QED  BY <3>1 DEF Fetching
  <2>9. \A n \in Messages : Known(n) => Known(n)'
    BY <2>1, <2>6, <2>7, <2>8 DEF Known
  <2>10. OthersKnown'
    BY <1>0, <2>1, <2>9 DEF OthersKnown, Listed
  <2> QED  BY <1>i, <2>1, <2>10 DEF LoadedInv, feed
<1>13. CASE ArchiveHandled
  <2>1. \A n \in Messages : ~Fetching(n)
    BY <1>13 DEF ArchiveHandled, Fetching
  <2> QED  BY <1>a, <1>13, <2>1 DEF ArchiveHandled, feed, history
<1>14. CASE PruneArchives
  <2>1. selecting.pc = "prune" /\ UNCHANGED <<feed, textEvents, liveEvents, missedEntries>>
    BY <1>14 DEF PruneArchives, history
  <2>2. CASE NothingToPrune
    BY <1>a, <1>n, <1>14, <2>1, <2>2 DEF PruneArchives, feed
  <2>3. CASE ~NothingToPrune
    <3>1. /\ archiveEvents' = [d \in Days |-> IF d \in Kept THEN archiveEvents[d] ELSE {}]
          /\ unloaded' = [d \in Days |-> IF d \in Kept THEN unloaded[d] ELSE {}]
      BY <1>14, <2>3 DEF PruneArchives
    <3>2. ASSUME NEW d \in Days, NEW n \in Messages, HourOf[n] < FirstHour, DayOf(n) = d
          PROVE  Listed(d, n)' \/ Known(n)'
      <4>1. CASE d \notin Kept
        BY <3>1, <4>1 DEF Listed
      <4>2. CASE d \in Kept
        <5>1. unloaded'[d] = unloaded[d] /\ archiveEvents'[d] = archiveEvents[d]
          BY <3>1, <4>2
        <5>2. Known(n) => Known(n)'
          BY <1>n, <2>1, <3>2, <5>1 DEF Known, Stored
        <5>3. Listed(d, n) => Listed(d, n)'
          BY <5>1 DEF Listed
        <5> QED  BY <1>0, <3>2, <5>2, <5>3 DEF OthersKnown
      <4> QED  BY <4>1, <4>2
    <3>3. OthersKnown'
      BY <3>2 DEF OthersKnown
    <3> QED  BY <1>i, <2>1, <3>3 DEF LoadedInv, feed
  <2> QED  BY <2>2, <2>3
<1>15. CASE ErasePruned
  <2>1. /\ selecting.pc = "erase"
        /\ textEvents' = [e \in EventKeys |-> IF e \in selecting.events THEN {} ELSE textEvents[e]]
        /\ UNCHANGED <<feed, archiveEvents, unloaded, liveEvents, missedEntries>>
    BY <1>15 DEF ErasePruned, history
  <2>2. ASSUME NEW n \in Messages, Stored(n) PROVE Stored(n)'
    <3>1. EventOf[n] \notin selecting.events
      <4>1. CASE EventOf[n] \in liveEvents
        BY <1>0, <2>1, <4>1 DEF EventsInv, Accounted, Pruning
      <4>2. CASE EventOf[n] \in archiveEvents[DayOf(n)]
        BY <1>0, <2>1, <4>2 DEF EventsInv, PrunedAreGone, InArchives
      <4> QED  BY <2>2, <4>1, <4>2 DEF Stored
    <3>2. textEvents'[EventOf[n]] = textEvents[EventOf[n]]
      BY <1>0, <2>1, <3>1
    <3> QED  BY <2>1, <2>2, <3>2 DEF Stored
  <2>3. \A n \in Messages : Known(n) => Known(n)'
    BY <1>n, <2>1, <2>2 DEF Known
  <2>4. OthersKnown'
    BY <1>0, <2>1, <2>3 DEF OthersKnown, Listed
  <2> QED  BY <1>i, <2>1, <2>4 DEF LoadedInv, feed
<1>16. CASE AnnouncePruned
  BY <1>a, <1>n, <1>16 DEF AnnouncePruned, feed, history
<1>17. CASE UNCHANGED <<feed, live, archives, textEvents, liveEvents, history>>
  BY <1>a, <1>17 DEF feed, archives, history, Fetching
<1> QED
  BY <1>1, <1>2, <1>3, <1>4, <1>5, <1>6, <1>7, <1>8, <1>9, <1>10, <1>11, <1>12, <1>13, <1>14,
     <1>15, <1>16, <1>17
  DEF TextStep, TextNext

LEMMA LoadedStay == LoadedInv => LoadedMessagesStay
<1> SUFFICES ASSUME LoadedInv,
                    NEW m \in Messages, HourOf[m] < FirstHour,
                    NEW entries \in unloaded[DayOf(m)], m \notin entries
             PROVE  \/ m \in textEvents[EventOf[m]] \cup missedEntries
                    \/ selecting.pc \in {"fetch", "handle"} /\ m \in selecting.left
  BY DEF LoadedMessagesStay
<1>1. DayOf(m) \in Days
  BY Calendar
<1>2. Known(m)
  BY <1>1 DEF LoadedInv, OthersKnown, Listed
<1> QED  BY <1>2 DEF Known, Fetching, Stored

----------------------------------------------------------------------------
(* What the feed has brought                                                 *)

Handled(m) ==
    \/ m \in polled \/ HourOf[m] \in missedHours
    \/ refresh.pc = "handle" /\ m \in refresh.left
LimitSet ==
    /\ prevLoadTime # Unset => prevLoadTime <= hour /\ archiveLimit # Unset
    /\ prevLoadTime = Unset => refresh.pc # "handle"
    /\ prevLoadTime = Unset /\ refresh.pc = "idle" => archiveLimit = Unset
    /\ refresh.pc = "load" =>
         /\ archiveLimit # Unset /\ refresh.loadTime <= hour
         /\ IF prevLoadTime = Unset THEN archiveLimit = CeilDay(refresh.startTime)
            ELSE refresh.startTime <= prevLoadTime
RecordsHandled == \A h \in Hours : \A m \in fileRecords[h] : HourOf[m] = h /\ Handled(m)
HoursHandled ==
    prevLoadTime # Unset =>
        \A m \in issued : archiveLimit <= DayOf(m) /\ HourOf[m] < prevLoadTime => Handled(m)
FeedInv == LimitSet /\ RecordsHandled /\ HoursHandled

LEMMA FeedInvInit == TextInit => FeedInv
  BY DEF TextInit, FeedInv, LimitSet, RecordsHandled, HoursHandled, NotRunning, Unset

LEMMA FeedInvStep ==
  ASSUME TextTypeOK, FeedInv, TextStep
  PROVE  FeedInv'
<1>0. /\ hour \in Nat /\ hour \in Hours /\ issued \subseteq Messages
      /\ fileRecords \in [Hours -> SUBSET Messages]
      /\ prevLoadTime \in Hours \cup {Unset} /\ refresh \in RefreshStates
      /\ archiveLimit \in Days \cup {Unset}
      /\ \A h \in Hours : h \in Nat
      /\ \A m \in Messages : HourOf[m] \in Hours
      /\ LimitSet /\ RecordsHandled /\ HoursHandled
  BY Calendar, StartTimeIs DEF TextTypeOK, FeedInv
<1>u. -1 \notin Hours /\ -1 \notin Days
  BY Calendar
<1>a. ASSUME UNCHANGED <<feed, live, polled, missedHours>> PROVE FeedInv'
  BY <1>0, <1>a DEF FeedInv, LimitSet, RecordsHandled, HoursHandled, Handled, feed, live
<1>1. ASSUME NEW m \in Messages, Issue(m) PROVE FeedInv'
  <2>1. /\ HourOf[m] = hour /\ issued' = issued \cup {m}
        /\ UNCHANGED <<hour, live, polled, missedHours>>
    BY <1>1 DEF Issue, history
  <2>2. \A n : Handled(n)' = Handled(n)
    BY <2>1 DEF Handled, live
  <2>3. LimitSet' /\ RecordsHandled'
    BY <1>0, <2>1, <2>2 DEF LimitSet, RecordsHandled, live
  <2>4. prevLoadTime # Unset => ~(HourOf[m] < prevLoadTime)
    BY <1>0, <2>1 DEF LimitSet
  <2>5. HoursHandled'
    BY <1>0, <2>1, <2>2, <2>4 DEF HoursHandled, live
  <2> QED  BY <2>3, <2>5 DEF FeedInv
<1>2. ASSUME NEW h \in Hours, HoursPass(h) PROVE FeedInv'
  <2>1. /\ h > hour /\ hour' = h
        /\ UNCHANGED <<issued, live, polled, missedHours>>
    BY <1>2 DEF HoursPass, history
  <2>2. \A n : Handled(n)' = Handled(n)
    BY <2>1 DEF Handled, live
  <2>3. RecordsHandled' /\ HoursHandled'
    BY <1>0, <2>1, <2>2 DEF RecordsHandled, HoursHandled, live
  <2>4. hour <= hour' /\ hour' \in Nat
    BY <1>0, <2>1
  <2>5. prevLoadTime # Unset => prevLoadTime' <= hour' /\ archiveLimit' # Unset
    <3> SUFFICES ASSUME prevLoadTime # Unset
                 PROVE  prevLoadTime' <= hour' /\ archiveLimit' # Unset
      OBVIOUS
    <3>1. prevLoadTime \in Nat /\ prevLoadTime <= hour /\ archiveLimit # Unset
      BY <1>0 DEF LimitSet
    <3>2. UNCHANGED <<prevLoadTime, archiveLimit>>
      BY <2>1 DEF live
    <3> QED  BY <1>0, <2>4, <3>1, <3>2
  <2>6. refresh.pc = "load" => refresh.loadTime <= hour'
    <3> SUFFICES ASSUME refresh.pc = "load" PROVE refresh.loadTime <= hour'
      OBVIOUS
    <3>1. refresh.loadTime \in Nat /\ refresh.loadTime <= hour
      BY <1>0, RefreshShapes DEF LimitSet
    <3> QED  BY <1>0, <2>4, <3>1
  <2>7. LimitSet'
    BY <1>0, <2>1, <2>5, <2>6 DEF LimitSet, live
  <2> QED  BY <2>3, <2>7 DEF FeedInv
<1>3. CASE BeginTextRefresh
  <2>1. /\ refresh = NotRunning /\ refresh.pc = "idle"
        /\ refresh' = [pc |-> "load", loadTime |-> hour, startTime |-> StartTime]
        /\ archiveLimit' = IF archiveLimit = Unset THEN CeilDay(StartTime) ELSE archiveLimit
        /\ UNCHANGED <<feed, fileRecords, prevLoadTime, polled, missedHours>>
    BY <1>3 DEF BeginTextRefresh, history, NotRunning
  <2>2. \A n : Handled(n) => Handled(n)'
    BY <2>1 DEF Handled
  <2>3. RecordsHandled'
    BY <1>0, <2>1, <2>2 DEF RecordsHandled
  <2>4. CASE prevLoadTime = Unset
    <3>1. archiveLimit' = CeilDay(StartTime) /\ CeilDay(StartTime) \in Days
      BY <1>0, <2>1, <2>4, StartTimeIs, Calendar DEF LimitSet
    <3>2. LimitSet'
      <4>1. refresh'.pc = "load" /\ refresh'.loadTime = hour /\ refresh'.startTime = StartTime
        BY <2>1
      <4>2. CeilDay(refresh'.startTime) = CeilDay(StartTime)
        BY <4>1
      <4> QED  BY <1>0, <1>u, <2>1, <2>4, <3>1, <4>1, <4>2 DEF LimitSet, feed, Unset
    <3>3. HoursHandled'
      BY <2>1, <2>4 DEF HoursHandled
    <3> QED  BY <2>3, <3>2, <3>3 DEF FeedInv
  <2>5. CASE prevLoadTime # Unset
    <3>1. UNCHANGED archiveLimit /\ archiveLimit # Unset
      BY <1>0, <2>1, <2>5 DEF LimitSet
    <3>2. StartTime <= prevLoadTime
      BY <2>5, StartTimeIs
    <3>3. LimitSet'
      BY <1>0, <2>1, <2>5, <3>1, <3>2 DEF LimitSet, feed
    <3>4. HoursHandled'
      BY <1>0, <2>1, <2>2, <3>1 DEF HoursHandled, feed
    <3> QED  BY <2>3, <3>3, <3>4 DEF FeedInv
  <2> QED  BY <2>4, <2>5
<1>4. CASE LoadUpdatedFiles
  <2>1. /\ refresh.pc = "load" /\ prevLoadTime' = refresh.loadTime
        /\ UNCHANGED <<feed, archiveLimit, polled>>
        /\ refresh.loadTime \in Hours /\ refresh.startTime \in Hours
    BY <1>0, <1>4, RefreshShapes DEF LoadUpdatedFiles
  <2>2. PICK headFails \in SUBSET Hours, getFails \in SUBSET Hours : LoadedBut(headFails, getFails)
    BY <1>4, LoadingMisses
  <2>3. /\ archiveLimit # Unset /\ refresh.loadTime <= hour
        /\ IF prevLoadTime = Unset THEN archiveLimit = CeilDay(refresh.startTime)
           ELSE refresh.startTime <= prevLoadTime
    BY <1>0, <2>1 DEF LimitSet
  <2>4. refresh'.pc = "handle"
    BY <2>2 DEF LoadedBut
  <2>5. refresh.loadTime # Unset
    BY <1>u, <2>1 DEF Unset
  <2>6. LimitSet'
    BY <2>1, <2>3, <2>4, <2>5 DEF LimitSet, feed
  <2>7. \A m \in Messages : Handled(m) => Handled(m)'
    BY <2>1, <2>2 DEF Handled, LoadedBut
  <2>8. ASSUME NEW h \in Updated(headFails), NEW m \in FileOf(h)
        PROVE  HourOf[m] = h /\ Handled(m)'
    <3>1. HourOf[m] = h
      BY <2>8 DEF FileOf
    <3>2. CASE h \in getFails
      BY <2>2, <3>1, <3>2 DEF LoadedBut, Handled
    <3>3. CASE h \notin getFails
      <4>1. m \in refresh'.left
        BY <2>2, <2>8, <3>3 DEF LoadedBut
      <4> QED  BY <2>4, <3>1, <4>1 DEF Handled
    <3> QED  BY <3>1, <3>2, <3>3
  <2>9. RecordsHandled'
    <3> SUFFICES ASSUME NEW h \in Hours, NEW m \in fileRecords'[h]
                 PROVE  HourOf[m] = h /\ Handled(m)'
      BY DEF RecordsHandled
    <3>1. CASE h \in Updated(headFails)
      BY <2>2, <2>8, <3>1 DEF LoadedBut
    <3>2. CASE h \notin Updated(headFails)
      <4>1. m \in fileRecords[h] /\ m \in Messages
        BY <1>0, <2>2, <3>2 DEF LoadedBut
      <4> QED  BY <1>0, <2>7, <4>1 DEF RecordsHandled
    <3> QED  BY <3>1, <3>2
  <2>10. HoursHandled'
    <3> SUFFICES ASSUME NEW m \in issued, archiveLimit <= DayOf(m), HourOf[m] < refresh.loadTime
                 PROVE  Handled(m)'
      BY <2>1 DEF HoursHandled, feed
    <3>1. m \in Messages /\ HourOf[m] \in Hours /\ HourOf[m] \in Nat /\ refresh.loadTime \in Nat
          /\ refresh.startTime \in Nat
      BY <1>0, <2>1
    <3>2. CASE prevLoadTime # Unset /\ HourOf[m] < prevLoadTime
      BY <1>0, <2>7, <3>1, <3>2 DEF HoursHandled
    <3>3. CASE refresh.startTime <= HourOf[m]
      <4>1. HourOf[m] \in AskedHours
        BY <1>0, <2>1, <2>3, <3>1, <3>3 DEF AskedHours
      <4>2. m \in FileOf(HourOf[m])
        BY DEF FileOf
      <4>3. CASE HourOf[m] \in headFails
        BY <2>2, <4>3 DEF LoadedBut, Handled
      <4>4. CASE HourOf[m] \in Updated(headFails)
        BY <2>8, <4>2, <4>4
      <4>5. CASE HourOf[m] \notin headFails /\ HourOf[m] \notin Updated(headFails)
        <5>1. FileOf(HourOf[m]) = fileRecords[HourOf[m]]
          BY <4>1, <4>5 DEF Updated, UpdatedFiles
        <5> QED  BY <1>0, <2>7, <3>1, <4>2, <5>1 DEF RecordsHandled
      <4> QED  BY <4>3, <4>4, <4>5
    <3>4. CASE prevLoadTime = Unset
      BY <2>1, <2>3, <3>1, <3>3, <3>4, DayAfter
    <3>5. CASE prevLoadTime # Unset /\ ~(HourOf[m] < prevLoadTime)
      <4>1. prevLoadTime \in Nat /\ refresh.startTime <= prevLoadTime
        BY <1>0, <2>3, <3>5
      <4> QED  BY <3>1, <3>3, <3>5, <4>1
    <3> QED  BY <3>2, <3>4, <3>5
  <2> QED  BY <2>6, <2>9, <2>10 DEF FeedInv
<1>5. CASE HandleLive
  <2>1. /\ refresh.pc = "handle" /\ refresh.left # {}
        /\ UNCHANGED <<feed, fileRecords, prevLoadTime, archiveLimit, missedHours>>
    BY <1>5 DEF HandleLive
  <2>2. PICK m : refresh' = [pc |-> "handle", left |-> refresh.left \ {m}] /\ polled' = polled \cup {m}
    BY <1>5 DEF HandleLive
  <2>3. refresh'.pc = "handle" /\ refresh'.left = refresh.left \ {m}
    BY <2>2
  <2>4. \A n : Handled(n) => Handled(n)'
    BY <2>1, <2>2, <2>3 DEF Handled
  <2>5. LimitSet'
    BY <1>0, <2>1, <2>3 DEF LimitSet, feed
  <2>6. RecordsHandled' /\ HoursHandled'
    BY <1>0, <2>1, <2>4 DEF RecordsHandled, HoursHandled, feed
  <2> QED  BY <2>5, <2>6 DEF FeedInv
<1>6. CASE EndTextRefresh
  <2>1. /\ refresh.pc = "handle" /\ refresh.left = {} /\ refresh'.pc = "idle"
        /\ UNCHANGED <<feed, fileRecords, prevLoadTime, archiveLimit, polled, missedHours>>
    BY <1>6 DEF EndTextRefresh, history, NotRunning
  <2>2. \A n : Handled(n) => Handled(n)'
    BY <2>1 DEF Handled
  <2>3. LimitSet'
    BY <1>0, <2>1 DEF LimitSet, feed
  <2>4. RecordsHandled' /\ HoursHandled'
    BY <1>0, <2>1, <2>2 DEF RecordsHandled, HoursHandled, feed
  <2> QED  BY <2>3, <2>4 DEF FeedInv
<1>7. ASSUME NEW d \in SelectDays, SelectArchiveTime(d) PROVE FeedInv'
  BY <1>a, <1>7 DEF SelectArchiveTime
<1>8. CASE UpdateArchiveDates
  BY <1>a, <1>8 DEF UpdateArchiveDates, history
<1>9. CASE ListArchives
  BY <1>a, <1>9 DEF ListArchives
<1>10. CASE MoveToLoadList
  BY <1>a, <1>10 DEF MoveToLoadList, history
<1>11. CASE LoadTextProducts
  BY <1>a, <1>11 DEF LoadTextProducts
<1>12. CASE HandleArchived
  BY <1>a, <1>12 DEF HandleArchived, history
<1>13. CASE ArchiveHandled
  BY <1>a, <1>13 DEF ArchiveHandled, history
<1>14. CASE PruneArchives
  BY <1>a, <1>14 DEF PruneArchives, history
<1>15. CASE ErasePruned
  BY <1>a, <1>15 DEF ErasePruned, history
<1>16. CASE AnnouncePruned
  BY <1>a, <1>16 DEF AnnouncePruned, history
<1>17. CASE UNCHANGED <<feed, live, archives, textEvents, liveEvents, history>>
  BY <1>a, <1>17 DEF history
<1> QED
  BY <1>1, <1>2, <1>3, <1>4, <1>5, <1>6, <1>7, <1>8, <1>9, <1>10, <1>11, <1>12, <1>13, <1>14,
     <1>15, <1>16, <1>17
  DEF TextStep, TextNext

LEMMA FeedLoaded == FeedInv => HoursLoaded
  BY DEF FeedInv, HoursHandled, HoursLoaded, Handled, NotRunning

----------------------------------------------------------------------------
(* How many days the archives hold                                           *)

LEMMA DaysFinite ==
  ASSUME NEW S, S \subseteq Days
  PROVE  IsFiniteSet(S) /\ Cardinality(S) \in Nat
<1>1. CeilDay(LastHour) + 1 \in Int /\ 0 \in Int
  <2>1. LastHour \in Hours
    BY Calendar DEF Hours
  <2>2. CeilDay(LastHour) \in Nat
    BY <2>1, Calendar
  <2> QED  BY <2>2
<1>2. IsFiniteSet(Days)
  BY <1>1, FS_Interval DEF Days
<1> QED  BY <1>2, FS_Subset, FS_CardinalityType

LEMMA FewerDays ==
  ASSUME NEW S, NEW T, S \subseteq T, T \subseteq Days, NEW n \in Nat, Cardinality(T) <= n
  PROVE  Cardinality(S) <= n
<1>1. IsFiniteSet(T) /\ S \in SUBSET T
  BY DaysFinite
<1>2. Cardinality(S) <= Cardinality(T)
  BY <1>1, FS_Subset
<1>3. Cardinality(S) \in Nat /\ Cardinality(T) \in Nat
  BY DaysFinite
<1> QED  BY <1>2, <1>3

(* A window adds three days at most.                                         *)
LEMMA ThreeMore ==
  ASSUME NEW S, NEW T, NEW d \in SelectDays, S \subseteq T \cup Window(d), S \subseteq Days,
         T \subseteq Days, NEW n \in Nat, Cardinality(T) <= n
  PROVE  Cardinality(S) <= n + 3
<1> DEFINE W == S \cap Window(d)
           R == S \ Window(d)
<1>1. d \in Nat
  BY Calendar
<1>2. IsFiniteSet(W) /\ Cardinality(W) \in Nat /\ Cardinality(W) <= 3
  BY <1>1, WindowSize
<1>3. R \subseteq T /\ IsFiniteSet(R) /\ Cardinality(R) \in Nat
  BY DaysFinite
<1>4. Cardinality(R) <= n
  BY <1>3, FewerDays
<1>5. /\ S = R \cup W /\ R \cap W = {}
      /\ Cardinality(R \cup W) = Cardinality(R) + Cardinality(W) - Cardinality(R \cap W)
  BY <1>2, <1>3, FS_Union
<1>6. Cardinality(R \cap W) = 0
  BY <1>5, FS_EmptySet
<1>7. Cardinality(S) = Cardinality(R \cup W)
  BY <1>5
<1> HIDE DEF R, W
<1> QED  BY <1>2, <1>3, <1>4, <1>5, <1>6, <1>7

DaysRight == \A d \in Days : \A entries \in unloaded[d] : \A m \in entries : DayOf(m) = d
ListedFew ==
    Cardinality(ListedDays) <= IF selecting.pc \in {"load", "fetch", "handle", "prune"}
                               THEN MaxArchiveDates + 3 ELSE MaxArchiveDates
WithinLimit(x) ==
    /\ Cardinality(EventDays \ Window(x)) <= MaxArchiveDates
    /\ \A m \in selecting.left : DayOf(m) \in Window(x)
EventsFew ==
    /\ selecting.pc \in {"fetch", "handle"} => \E x \in SelectDays : WithinLimit(x)
    /\ selecting.pc = "prune" => Cardinality(EventDays) <= MaxArchiveDates + 3
    /\ selecting.pc \notin {"fetch", "handle", "prune"} =>
          Cardinality(EventDays) <= MaxArchiveDates
ArchInv == DaysRight /\ ListedFew /\ EventsFew

LEMMA ArchInvInit == TextInit => ArchInv
<1> SUFFICES ASSUME TextInit PROVE ArchInv
  OBVIOUS
<1>1. EventDays = {} /\ ListedDays = {} /\ selecting.pc = "idle"
  BY DEF TextInit, EventDays, ListedDays, NotRunning
<1>2. Cardinality({}) = 0 /\ MaxArchiveDates \in Nat
  BY FS_EmptySet, TextEventsAssumption
<1>3. DaysRight
  BY DEF TextInit, DaysRight
<1> QED  BY <1>1, <1>2, <1>3 DEF ArchInv, ListedFew, EventsFew

LEMMA ArchInvStep ==
  ASSUME TextTypeOK, ArchInv, TextStep
  PROVE  ArchInv'
<1>0. /\ archiveEvents \in [Days -> SUBSET EventKeys] /\ selecting \in ArchiveStates
      /\ unloaded \in [Days -> SUBSET SUBSET Messages]
      /\ DaysRight /\ ListedFew /\ EventsFew /\ MaxArchiveDates \in Nat
      /\ EventDays \subseteq Days /\ ListedDays \subseteq Days
      /\ \A m \in Messages : DayOf(m) \in Days
  BY Calendar, TextEventsAssumption DEF TextTypeOK, ArchInv, EventDays, ListedDays
<1>c. /\ Cardinality(EventDays) \in Nat /\ Cardinality(ListedDays) \in Nat
      /\ MaxArchiveDates + 3 \in Nat /\ MaxArchiveDates <= MaxArchiveDates + 3
  BY <1>0, DaysFinite
<1>e. UNCHANGED archiveEvents => EventDays' = EventDays
  BY DEF EventDays
<1>l. UNCHANGED unloaded => ListedDays' = ListedDays /\ DaysRight'
  BY <1>0 DEF ListedDays, DaysRight
<1>a. ASSUME UNCHANGED <<archiveEvents, unloaded, selecting>> PROVE ArchInv'
  <2>1. \A x : WithinLimit(x)' = WithinLimit(x)
    BY <1>a, <1>e DEF WithinLimit
  <2> QED  BY <1>0, <1>a, <1>e, <1>l, <2>1 DEF ArchInv, ListedFew, EventsFew
<1>b. ASSUME UNCHANGED <<archiveEvents, unloaded>>,
             selecting.pc \notin {"load", "fetch", "handle", "prune"},
             selecting'.pc \notin {"load", "fetch", "handle", "prune"}
      PROVE  ArchInv'
  BY <1>0, <1>b, <1>e, <1>l DEF ArchInv, ListedFew, EventsFew
<1>1. ASSUME NEW m \in Messages, Issue(m) PROVE ArchInv'
  BY <1>a, <1>1 DEF Issue, archives
<1>2. ASSUME NEW h \in Hours, HoursPass(h) PROVE ArchInv'
  BY <1>a, <1>2 DEF HoursPass, archives
<1>3. CASE BeginTextRefresh
  BY <1>a, <1>3 DEF BeginTextRefresh, archives
<1>4. CASE LoadUpdatedFiles
  BY <1>a, <1>4 DEF LoadUpdatedFiles, archives
<1>5. CASE HandleLive
  BY <1>a, <1>5 DEF HandleLive, HandleLiveMessage
<1>6. CASE EndTextRefresh
  BY <1>a, <1>6 DEF EndTextRefresh, archives
<1>7. ASSUME NEW d \in SelectDays, SelectArchiveTime(d) PROVE ArchInv'
  BY <1>b, <1>7 DEF SelectArchiveTime, ArchiveGoes, NotRunning
<1>8. CASE UpdateArchiveDates
  BY <1>b, <1>8 DEF UpdateArchiveDates, ArchiveGoes
<1>9. CASE ListArchives
  <2> DEFINE asked == {d \in SelectedDays(selecting.day) : unloaded[d] = {}}
  <2>1. /\ selecting.pc = "list" /\ selecting'.pc = "load" /\ UNCHANGED archiveEvents
    BY <1>9 DEF ListArchives, ArchiveGoes
  <2>2. PICK fails \in SUBSET asked :
          unloaded' = [d \in Days |-> IF d \in asked \ fails THEN {{m \in issued : DayOf(m) = d}}
                                      ELSE unloaded[d]]
    BY <1>9 DEF ListArchives
  <2>3. selecting.day \in SelectDays
    BY <1>0, <2>1, ArchiveShapes
  <2>4. DaysRight'
    <3> SUFFICES ASSUME NEW d \in Days, NEW entries \in unloaded'[d], NEW m \in entries
                 PROVE  DayOf(m) = d
      BY DEF DaysRight
    <3>1. CASE d \in asked \ fails
      BY <2>2, <3>1
    <3>2. CASE d \notin asked \ fails
      BY <1>0, <2>2, <3>2 DEF DaysRight
    <3> QED  BY <3>1, <3>2
  <2>5. ListedFew'
    <3>1. ListedDays' \subseteq ListedDays \cup Window(selecting.day) /\ ListedDays' \subseteq Days
      BY <2>2 DEF ListedDays, SelectedDays, Window
    <3>2. Cardinality(ListedDays) <= MaxArchiveDates
      BY <1>0, <2>1 DEF ListedFew
    <3>3. Cardinality(ListedDays') <= MaxArchiveDates + 3
      BY <1>0, <2>3, <3>1, <3>2, ThreeMore
    <3> QED  BY <2>1, <3>3 DEF ListedFew
  <2>6. EventsFew'
    BY <1>0, <1>e, <2>1 DEF EventsFew
  <2> QED  BY <2>4, <2>5, <2>6 DEF ArchInv
<1>10. CASE MoveToLoadList
  <2>1. selecting.pc = "load" /\ UNCHANGED archiveEvents
    BY <1>10 DEF MoveToLoadList
  <2>2. PICK moved \in SUBSET UNION UNION {unloaded[d] :
                d \in Days \cap (selecting.day - 1) .. (selecting.day + 1)} :
          /\ unloaded' = [d \in Days |-> {entries \ moved : entries \in unloaded[d]}]
          /\ selecting' = [pc |-> "fetch", left |-> moved]
    BY <1>10 DEF MoveToLoadList, ArchiveGoes
  <2>3. selecting.day \in SelectDays
    BY <1>0, <2>1, ArchiveShapes
  <2>4. DaysRight'
    <3> SUFFICES ASSUME NEW d \in Days, NEW entries \in unloaded'[d], NEW m \in entries
                 PROVE  DayOf(m) = d
      BY DEF DaysRight
    <3>1. PICK before \in unloaded[d] : entries = before \ moved
      BY <2>2
    <3> QED  BY <1>0, <3>1 DEF DaysRight
  <2>5. ListedFew'
    <3>1. ListedDays' = ListedDays
      <4>1. \A d \in Days : unloaded'[d] = {} <=> unloaded[d] = {}
        <5> SUFFICES ASSUME NEW d \in Days PROVE unloaded'[d] = {} <=> unloaded[d] = {}
          OBVIOUS
        <5>1. unloaded'[d] = {entries \ moved : entries \in unloaded[d]}
          BY <2>2
        <5> QED  BY <5>1
      <4> QED  BY <4>1 DEF ListedDays
    <3> QED  BY <1>0, <2>1, <2>2, <3>1 DEF ListedFew
  <2>6. \A m \in moved : DayOf(m) \in Window(selecting.day)
    <3> SUFFICES ASSUME NEW m \in moved PROVE DayOf(m) \in Window(selecting.day)
      OBVIOUS
    <3>1. PICK d \in Days \cap (selecting.day - 1) .. (selecting.day + 1) :
             \E entries \in unloaded[d] : m \in entries
      BY <2>2
    <3>2. DayOf(m) = d
      BY <1>0, <3>1 DEF DaysRight
    <3> QED  BY <3>2 DEF Window
  <2>7. EventsFew'
    <3>1. Cardinality(EventDays \ Window(selecting.day)) <= MaxArchiveDates
      <4>1. Cardinality(EventDays) <= MaxArchiveDates
        BY <1>0, <2>1 DEF EventsFew
      <4>2. EventDays \ Window(selecting.day) \subseteq EventDays
        OBVIOUS
      <4> QED  BY <1>0, <4>1, <4>2, FewerDays
    <3> DEFINE day == selecting.day
    <3>2. \E x \in SelectDays : x = day
      BY <2>3
    <3>3. PICK x \in SelectDays : x = day
      BY <3>2
    <3>4. WithinLimit(x)'
      <4>1. selecting'.left = moved
        BY <2>2
      <4> QED  BY <1>e, <2>1, <2>6, <3>1, <3>3, <4>1 DEF WithinLimit
    <3> QED  BY <2>2, <3>4 DEF EventsFew
  <2> QED  BY <2>4, <2>5, <2>7 DEF ArchInv
<1>11. CASE LoadTextProducts
  <2>1. selecting.pc = "fetch" /\ UNCHANGED <<archiveEvents, unloaded>>
    BY <1>11 DEF LoadTextProducts
  <2>2. PICK fails : selecting' = [pc |-> "handle", left |-> selecting.left \ fails]
    BY <1>11 DEF LoadTextProducts, ArchiveGoes
  <2>3. selecting'.pc = "handle" /\ selecting'.left \subseteq selecting.left
    BY <2>2
  <2>4. PICK x \in SelectDays : WithinLimit(x)
    BY <1>0, <2>1 DEF EventsFew
  <2>5. WithinLimit(x)'
    BY <1>e, <2>1, <2>3, <2>4 DEF WithinLimit
  <2>6. EventsFew'
    BY <2>3, <2>5 DEF EventsFew
  <2>7. ListedFew'
    BY <1>0, <1>l, <2>1, <2>3 DEF ListedFew
  <2> QED  BY <1>l, <2>1, <2>6, <2>7 DEF ArchInv
<1>12. CASE HandleArchived
  <2>1. /\ selecting.pc = "handle" /\ selecting.left # {} /\ UNCHANGED unloaded
    BY <1>12 DEF HandleArchived
  <2>2. PICK m \in selecting.left :
           /\ m \in Messages /\ HandleArchiveMessage(m)
           /\ selecting' = [pc |-> "handle", left |-> selecting.left \ {m}]
    <3>1. selecting.left \subseteq Messages
      BY <1>0, <2>1, ArchiveShapes
    <3>2. NextMessage(selecting.left) \in selecting.left
      BY <2>1, <3>1, NextIsOneOf
    <3> QED  BY <1>12, <3>1, <3>2 DEF HandleArchived, ArchiveGoes
  <2>3. selecting'.pc = "handle" /\ selecting'.left \subseteq selecting.left
    BY <2>2
  <2>4. PICK x \in SelectDays : WithinLimit(x)
    BY <1>0, <2>1 DEF EventsFew
  <2>5. \A d \in Days : d # DayOf(m) => archiveEvents'[d] = archiveEvents[d]
    BY <1>0, <2>2 DEF HandleArchiveMessage
  <2>6. EventDays' \ Window(x) \subseteq EventDays \ Window(x)
    BY <2>2, <2>4, <2>5 DEF EventDays, WithinLimit
  <2>7. Cardinality(EventDays' \ Window(x)) <= MaxArchiveDates
    <3>1. EventDays \ Window(x) \subseteq Days
      BY <1>0
    <3> QED  BY <1>0, <2>4, <2>6, <3>1, FewerDays DEF WithinLimit
  <2>8. WithinLimit(x)'
    BY <2>3, <2>4, <2>7 DEF WithinLimit
  <2>9. EventsFew'
    BY <2>3, <2>8 DEF EventsFew
  <2>10. ListedFew'
    BY <1>0, <1>l, <2>1, <2>3 DEF ListedFew
  <2> QED  BY <1>l, <2>1, <2>9, <2>10 DEF ArchInv
<1>13. CASE ArchiveHandled
  <2>1. selecting.pc = "handle" /\ selecting'.pc = "prune" /\ UNCHANGED <<archiveEvents, unloaded>>
    BY <1>13 DEF ArchiveHandled, ArchiveGoes
  <2>2. PICK x \in SelectDays : WithinLimit(x)
    BY <1>0, <2>1 DEF EventsFew
  <2>3. Cardinality(EventDays) <= MaxArchiveDates + 3
    <3>1. /\ EventDays \subseteq (EventDays \ Window(x)) \cup Window(x)
          /\ EventDays \ Window(x) \subseteq Days
      BY <1>0
    <3> QED  BY <1>0, <2>2, <3>1, ThreeMore DEF WithinLimit
  <2>4. EventsFew'
    BY <1>e, <2>1, <2>3 DEF EventsFew
  <2>5. ListedFew'
    BY <1>0, <1>l, <2>1 DEF ListedFew
  <2> QED  BY <1>l, <2>1, <2>4, <2>5 DEF ArchInv
<1>14. CASE PruneArchives
  <2>1. selecting.pc = "prune"
    BY <1>14 DEF PruneArchives
  <2>2. /\ Len(LastDates) \in Nat /\ Len(LastDates) <= MaxArchiveDates
        /\ Cardinality(Kept) = Len(LastDates) /\ Kept \subseteq Days
    BY LastOnes
  <2>3. CASE NothingToPrune
    <3>1. selecting'.pc = "idle" /\ UNCHANGED <<archiveEvents, unloaded>>
      BY <1>14, <2>3 DEF PruneArchives, ArchiveGoes, NotRunning
    <3>2. Cardinality(EventDays) <= MaxArchiveDates /\ Cardinality(ListedDays) <= MaxArchiveDates
      BY <2>2, <2>3 DEF NothingToPrune
    <3> QED  BY <1>e, <1>l, <3>1, <3>2 DEF ArchInv, ListedFew, EventsFew
  <2>4. CASE ~NothingToPrune
    <3>1. /\ selecting'.pc = "erase"
          /\ archiveEvents' = [d \in Days |-> IF d \in Kept THEN archiveEvents[d] ELSE {}]
          /\ unloaded' = [d \in Days |-> IF d \in Kept THEN unloaded[d] ELSE {}]
      BY <1>14, <2>4 DEF PruneArchives, ArchiveGoes
    <3>2. EventDays' \subseteq Kept /\ ListedDays' \subseteq Kept
      BY <3>1 DEF EventDays, ListedDays
    <3>3. Cardinality(EventDays') <= MaxArchiveDates /\ Cardinality(ListedDays') <= MaxArchiveDates
      BY <1>0, <2>2, <3>2, FewerDays
    <3>4. DaysRight'
      BY <1>0, <3>1 DEF DaysRight
    <3> QED  BY <3>1, <3>3, <3>4 DEF ArchInv, ListedFew, EventsFew
  <2> QED  BY <2>3, <2>4
<1>15. CASE ErasePruned
  BY <1>b, <1>15 DEF ErasePruned, ArchiveGoes
<1>16. CASE AnnouncePruned
  BY <1>b, <1>16 DEF AnnouncePruned, ArchiveGoes, NotRunning
<1>17. CASE UNCHANGED <<feed, live, archives, textEvents, liveEvents, history>>
  BY <1>a, <1>17 DEF archives
<1> QED
  BY <1>1, <1>2, <1>3, <1>4, <1>5, <1>6, <1>7, <1>8, <1>9, <1>10, <1>11, <1>12, <1>13, <1>14,
     <1>15, <1>16, <1>17
  DEF TextStep, TextNext

LEMMA ArchFew == ASSUME TextTypeOK, ArchInv PROVE ArchivesBounded
<1>1. /\ selecting \in ArchiveStates /\ EventDays \subseteq Days /\ ListedDays \subseteq Days
      /\ MaxArchiveDates \in Nat /\ ListedFew /\ EventsFew
  BY TextEventsAssumption DEF TextTypeOK, EventDays, ListedDays, ArchInv
<1>2. Cardinality(EventDays) \in Nat /\ Cardinality(ListedDays) \in Nat
  BY <1>1, DaysFinite
<1>3. Cardinality(EventDays) <= MaxArchiveDates + 3 /\ Cardinality(ListedDays) <= MaxArchiveDates + 3
  <2>1. CASE selecting.pc \in {"fetch", "handle"}
    <3>1. PICK x \in SelectDays : WithinLimit(x)
      BY <1>1, <2>1 DEF EventsFew
    <3>2. /\ EventDays \subseteq (EventDays \ Window(x)) \cup Window(x)
          /\ EventDays \ Window(x) \subseteq Days
      BY <1>1
    <3>3. Cardinality(EventDays) <= MaxArchiveDates + 3
      <4>1. Cardinality(EventDays \ Window(x)) <= MaxArchiveDates
        BY <3>1 DEF WithinLimit
      <4> QED  BY <1>1, <3>2, <4>1, ThreeMore
    <3> QED  BY <1>1, <2>1, <3>3 DEF ListedFew
  <2>2. CASE selecting.pc = "prune"
    BY <1>1, <2>2 DEF EventsFew, ListedFew
  <2>3. CASE selecting.pc \notin {"fetch", "handle", "prune"}
    BY <1>1, <1>2, <2>3 DEF EventsFew, ListedFew
  <2> QED  BY <2>1, <2>2, <2>3
<1>4. CASE selecting = NotRunning
  <2>1. selecting.pc = "idle"
    BY <1>4 DEF NotRunning
  <2> QED  BY <1>1, <1>4, <2>1 DEF ArchivesBounded, EventsFew, ListedFew
<1>5. CASE selecting # NotRunning
  BY <1>3, <1>5 DEF ArchivesBounded
<1> QED  BY <1>4, <1>5

----------------------------------------------------------------------------
(* The signals in the queue                                                  *)

Tells(s, m) == s.message = {m}
Removes(s, e) == s.message = {} /\ e \in s.events
QueuedIn(q, m) == \E i \in 1 .. Len(q) : Tells(q[i], m)
RemovalIn(q, e) == \E i \in 1 .. Len(q) : Removes(q[i], e)
Shape(s) == s.message = {} \/ \E m \in Messages : s = AlertUpdated(m)
Shapes(q) == \A i \in 1 .. Len(q) : Shape(q[i])
Once(q, m) == \A i, j \in 1 .. Len(q) : Tells(q[i], m) /\ Tells(q[j], m) => i = j
(* The removal of an event comes before the messages it has got since.       *)
RemovalFirst(q, e) ==
    \A i, j \in 1 .. Len(q) : \A m \in Messages :
        EventOf[m] = e /\ Removes(q[i], e) /\ Tells(q[j], m) => i < j

LEMMA SignalsAre ==
  /\ \A m, n : Tells(AlertUpdated(m), n) <=> n = m
  /\ \A m, e : ~Removes(AlertUpdated(m), e)
  /\ \A m \in Messages : Shape(AlertUpdated(m))
  /\ \A E, m : ~Tells(AlertsRemoved(E), m)
  /\ \A E, e : Removes(AlertsRemoved(E), e) <=> e \in E
  /\ \A E : Shape(AlertsRemoved(E))
  /\ \A s, m, e : ~(Tells(s, m) /\ Removes(s, e))
  /\ \A s, m, n : Tells(s, m) /\ Tells(s, n) => m = n
  BY DEF Tells, Removes, Shape, AlertUpdated, AlertsRemoved

LEMMA QueueAppend ==
  ASSUME NEW q \in Seq(AlertSignals), NEW s \in AlertSignals
  PROVE  /\ \A m : QueuedIn(Append(q, s), m) <=> QueuedIn(q, m) \/ Tells(s, m)
         /\ \A e : RemovalIn(Append(q, s), e) <=> RemovalIn(q, e) \/ Removes(s, e)
         /\ Shapes(q) /\ Shape(s) => Shapes(Append(q, s))
         /\ \A m : Once(q, m) /\ ~(Tells(s, m) /\ QueuedIn(q, m)) => Once(Append(q, s), m)
         /\ \A e : /\ RemovalFirst(q, e)
                   /\ Removes(s, e) => \A m \in Messages : EventOf[m] = e => ~QueuedIn(q, m)
                   => RemovalFirst(Append(q, s), e)
<1> HIDE DEF AlertSignals
<1> DEFINE r == Append(q, s)
           n == Len(q)
<1>1. /\ n \in Nat /\ Len(r) = n + 1 /\ r[n + 1] = s
      /\ \A i \in 1 .. n : r[i] = q[i]
  OBVIOUS
<1> HIDE DEF r
<1>2. \A i : i \in 1 .. Len(r) <=> i \in 1 .. n \/ i = n + 1
  BY <1>1
<1>3. \A i \in 1 .. n : i < n + 1
  BY <1>1
<1> HIDE DEF n
<1>4. \A m : QueuedIn(r, m) <=> (\E i \in 1 .. n : Tells(q[i], m)) \/ Tells(s, m)
  BY <1>1, <1>2 DEF QueuedIn
<1>5. \A e : RemovalIn(r, e) <=> (\E i \in 1 .. n : Removes(q[i], e)) \/ Removes(s, e)
  BY <1>1, <1>2 DEF RemovalIn
<1>6. Shapes(q) /\ Shape(s) => Shapes(r)
  BY <1>1, <1>2 DEF Shapes, n
<1>7. ASSUME NEW m, Once(q, m), ~(Tells(s, m) /\ QueuedIn(q, m)) PROVE Once(r, m)
  BY <1>1, <1>2, <1>7 DEF Once, QueuedIn, n
<1>8. ASSUME NEW e, RemovalFirst(q, e),
             Removes(s, e) => \A m \in Messages : EventOf[m] = e => ~QueuedIn(q, m)
      PROVE  RemovalFirst(r, e)
  <2> SUFFICES ASSUME NEW i \in 1 .. Len(r), NEW j \in 1 .. Len(r), NEW m \in Messages,
                      EventOf[m] = e, Removes(r[i], e), Tells(r[j], m)
               PROVE  i < j
    BY DEF RemovalFirst
  <2>1. CASE i \in 1 .. n /\ j \in 1 .. n
    BY <1>1, <1>8, <2>1 DEF RemovalFirst, n
  <2>2. CASE i \in 1 .. n /\ j = n + 1
    BY <1>3, <2>2
  <2>3. CASE i = n + 1 /\ j \in 1 .. n
    BY <1>1, <1>8, <2>3 DEF QueuedIn, n
  <2>4. CASE i = n + 1 /\ j = n + 1
    BY <1>1, <2>4, SignalsAre
  <2> QED  BY <1>2, <2>1, <2>2, <2>3, <2>4
<1> QED  BY <1>4, <1>5, <1>6, <1>7, <1>8 DEF r, n, QueuedIn, RemovalIn

LEMMA QueueTail ==
  ASSUME NEW q \in Seq(AlertSignals), q # <<>>
  PROVE  /\ Tail(q) \in Seq(AlertSignals)
         /\ \A m : QueuedIn(q, m) <=> Tells(Head(q), m) \/ QueuedIn(Tail(q), m)
         /\ \A e : RemovalIn(q, e) <=> Removes(Head(q), e) \/ RemovalIn(Tail(q), e)
         /\ Shapes(q) => Shape(Head(q)) /\ Shapes(Tail(q))
         /\ \A m : Once(q, m) => Once(Tail(q), m) /\ ~(Tells(Head(q), m) /\ QueuedIn(Tail(q), m))
         /\ \A e : RemovalFirst(q, e) =>
               /\ RemovalFirst(Tail(q), e)
               /\ \A m \in Messages : EventOf[m] = e /\ Tells(Head(q), m) => ~RemovalIn(q, e)
<1> HIDE DEF AlertSignals
<1> DEFINE t == Tail(q)
           n == Len(t)
<1>1. /\ n \in Nat /\ Len(q) = n + 1 /\ Head(q) = q[1] /\ t \in Seq(AlertSignals)
      /\ \A i \in 1 .. n : t[i] = q[i + 1]
  OBVIOUS
<1> HIDE DEF t, n
<1>2. /\ 1 \in 1 .. Len(q)
      /\ \A i \in 1 .. n : i + 1 \in 1 .. Len(q) /\ i + 1 # 1
      /\ \A i \in 1 .. Len(q) : i = 1 \/ \E k \in 1 .. n : i = k + 1
  <2>1. \A i \in 1 .. Len(q) : i = 1 \/ (i - 1 \in 1 .. n /\ i = (i - 1) + 1)
    BY <1>1
  <2> QED  BY <1>1, <2>1
<1>3. \A m : QueuedIn(q, m) <=> Tells(Head(q), m) \/ QueuedIn(t, m)
  BY <1>1, <1>2 DEF QueuedIn, n
<1>4. \A e : RemovalIn(q, e) <=> Removes(Head(q), e) \/ RemovalIn(t, e)
  BY <1>1, <1>2 DEF RemovalIn, n
<1>5. Shapes(q) => Shape(Head(q)) /\ Shapes(t)
  BY <1>1, <1>2 DEF Shapes, n
<1>6. ASSUME NEW m, Once(q, m) PROVE Once(t, m) /\ ~(Tells(Head(q), m) /\ QueuedIn(t, m))
  <2>1. ASSUME NEW i \in 1 .. n, NEW j \in 1 .. n, Tells(t[i], m), Tells(t[j], m) PROVE i = j
    <3>1. i + 1 = j + 1
      BY <1>1, <1>2, <1>6, <2>1 DEF Once
    <3> QED  BY <3>1
  <2>2. ASSUME Tells(Head(q), m), NEW i \in 1 .. n, Tells(t[i], m) PROVE FALSE
    BY <1>1, <1>2, <1>6, <2>2 DEF Once
  <2> QED  BY <2>1, <2>2 DEF Once, QueuedIn, n
<1>7. ASSUME NEW e, RemovalFirst(q, e)
      PROVE  /\ RemovalFirst(t, e)
             /\ \A m \in Messages : EventOf[m] = e /\ Tells(Head(q), m) => ~RemovalIn(q, e)
  <2>1. ASSUME NEW i \in 1 .. n, NEW j \in 1 .. n, NEW m \in Messages,
               EventOf[m] = e, Removes(t[i], e), Tells(t[j], m)
        PROVE  i < j
    <3>1. i + 1 < j + 1
      BY <1>1, <1>2, <1>7, <2>1 DEF RemovalFirst
    <3> QED  BY <3>1
  <2>2. ASSUME NEW m \in Messages, EventOf[m] = e, Tells(Head(q), m), NEW i \in 1 .. Len(q),
               Removes(q[i], e)
        PROVE  FALSE
    <3>1. i < 1
      BY <1>1, <1>2, <1>7, <2>2 DEF RemovalFirst
    <3> QED  BY <1>1, <3>1
  <2> QED  BY <2>1, <2>2 DEF RemovalFirst, RemovalIn, n
<1> QED  BY <1>1, <1>3, <1>4, <1>5, <1>6, <1>7 DEF t

LEMMA QueueKeeping ==
  ASSUME NEW q \in Seq(AlertSignals), NEW T
  PROVE  LET k == Keeping(q, T) IN
         /\ k \in Seq(AlertSignals)
         /\ \A m : QueuedIn(k, m) <=> \E i \in 1 .. Len(q) : q[i] \in T /\ Tells(q[i], m)
         /\ \A e : RemovalIn(k, e) <=> \E i \in 1 .. Len(q) : q[i] \in T /\ Removes(q[i], e)
         /\ Shapes(q) => Shapes(k)
         /\ \A m : Once(q, m) => Once(k, m)
         /\ \A e : RemovalFirst(q, e) => RemovalFirst(k, e)
<1> HIDE DEF AlertSignals
<1> DEFINE k == Keeping(q, T)
           n == Len(q)
           l == Len(k)
<1>1. k \in Seq(AlertSignals) /\ l \in Nat /\ n \in Nat
  BY KeepingPlaces
<1>2. PICK place : KeptAt(place, k, q, T, n)
  BY KeepingPlaces
<1> HIDE DEF k, n, l
<1>3. /\ \A i \in 1 .. l : place[i] \in 1 .. n /\ k[i] = q[place[i]] /\ k[i] \in T
      /\ \A i, j \in 1 .. l : i < j => place[i] < place[j]
      /\ \A i \in 1 .. n : q[i] \in T => \E j \in 1 .. l : place[j] = i
  BY <1>2 DEF KeptAt, l
<1>4. \A i, j \in 1 .. l : place[i] < place[j] => i < j
  <2> SUFFICES ASSUME NEW i \in 1 .. l, NEW j \in 1 .. l, place[i] < place[j], ~(i < j)
               PROVE  FALSE
    OBVIOUS
  <2>1. i = j \/ j < i
    BY <1>1
  <2>2. place[i] \in Nat /\ place[j] \in Nat
    BY <1>1, <1>3
  <2>3. j < i => place[j] < place[i]
    BY <1>3
  <2> QED  BY <2>1, <2>2, <2>3
<1>5. \A i, j \in 1 .. l : place[i] = place[j] => i = j
  <2> SUFFICES ASSUME NEW i \in 1 .. l, NEW j \in 1 .. l, place[i] = place[j] PROVE i = j
    OBVIOUS
  <2>1. i = j \/ j < i \/ i < j
    BY <1>1
  <2>2. place[i] \in Nat /\ place[j] \in Nat
    BY <1>1, <1>3
  <2>3. (j < i => place[j] < place[i]) /\ (i < j => place[i] < place[j])
    BY <1>3
  <2> QED  BY <2>1, <2>2, <2>3
<1>6. ASSUME NEW m PROVE QueuedIn(k, m) <=> \E i \in 1 .. n : q[i] \in T /\ Tells(q[i], m)
  <2>1. ASSUME NEW j \in 1 .. l, Tells(k[j], m)
        PROVE  \E i \in 1 .. n : q[i] \in T /\ Tells(q[i], m)
    BY <1>3, <2>1
  <2>2. ASSUME NEW i \in 1 .. n, q[i] \in T, Tells(q[i], m)
        PROVE  \E j \in 1 .. l : Tells(k[j], m)
    <3>1. PICK j \in 1 .. l : place[j] = i
      BY <1>3, <2>2
    <3> QED  BY <1>3, <2>2, <3>1
  <2> QED  BY <2>1, <2>2 DEF QueuedIn, l
<1>7. ASSUME NEW e PROVE RemovalIn(k, e) <=> \E i \in 1 .. n : q[i] \in T /\ Removes(q[i], e)
  <2>1. ASSUME NEW j \in 1 .. l, Removes(k[j], e)
        PROVE  \E i \in 1 .. n : q[i] \in T /\ Removes(q[i], e)
    BY <1>3, <2>1
  <2>2. ASSUME NEW i \in 1 .. n, q[i] \in T, Removes(q[i], e)
        PROVE  \E j \in 1 .. l : Removes(k[j], e)
    <3>1. PICK j \in 1 .. l : place[j] = i
      BY <1>3, <2>2
    <3> QED  BY <1>3, <2>2, <3>1
  <2> QED  BY <2>1, <2>2 DEF RemovalIn, l
<1>8. Shapes(q) => Shapes(k)
  BY <1>3 DEF Shapes, l, n
<1>9. \A m : Once(q, m) => Once(k, m)
  BY <1>3, <1>5 DEF Once, l, n
<1>10. ASSUME NEW e, RemovalFirst(q, e) PROVE RemovalFirst(k, e)
  <2> SUFFICES ASSUME NEW i \in 1 .. l, NEW j \in 1 .. l, NEW m \in Messages,
                      EventOf[m] = e, Removes(k[i], e), Tells(k[j], m)
               PROVE  i < j
    BY DEF RemovalFirst, l
  <2>1. /\ place[i] \in 1 .. Len(q) /\ place[j] \in 1 .. Len(q)
        /\ Removes(q[place[i]], e) /\ Tells(q[place[j]], m)
    BY <1>3 DEF n
  <2>2. place[i] < place[j]
    BY <1>10, <2>1 DEF RemovalFirst
  <2> QED  BY <1>4, <2>2
<1> QED  BY <1>1, <1>6, <1>7, <1>8, <1>9, <1>10 DEF k, n

----------------------------------------------------------------------------
(* What the maps show                                                        *)

Queued(m) == QueuedIn(signals, m)
RemovalQueued(e) == RemovalIn(signals, e)
RemovalDue(e) == selecting.pc = "announce" /\ e \in selecting.events

SignalsInv ==
    /\ Shapes(signals)
    /\ \A m \in Messages : Once(signals, m) /\ (Queued(m) => m \in textEvents[EventOf[m]])
EventsHold == \A e \in EventKeys : \A m \in textEvents[e] : EventOf[m] = e

(* The segment of a message ends no sooner than that of some later message   *)
(* begins, and no later than that of any whose signal has been handled.      *)
EndsLate(m) == segments[m] = Never \/ \E n \in Later(m) : HourOf[n] <= segments[m]
EndsEarly(m) == \A n \in Later(m) : ~Queued(n) => segments[m] <= HourOf[n]
Drawn(m) ==
    IF m \in textEvents[EventOf[m]] /\ ~Queued(m)
    THEN segments[m] # NoSegment /\ EndsLate(m) /\ EndsEarly(m)
    ELSE segments[m] = NoSegment
Mirrored(e) ==
    /\ RemovalDue(e) => textEvents[e] = {}
    /\ RemovalFirst(signals, e)
    /\ RemovalQueued(e) => \A m \in textEvents[e] : Queued(m)
    /\ \/ RemovalDue(e) \/ RemovalQueued(e)
       \/ \A m \in Messages : EventOf[m] = e => Drawn(m)
MirrorInv == SignalsInv /\ EventsHold /\ \A e \in EventKeys : e \notin overtaken => Mirrored(e)

LEMMA MirrorInvInit == AlertInit => MirrorInv
<1> SUFFICES ASSUME AlertInit PROVE MirrorInv
  OBVIOUS
<1>1. /\ signals = <<>> /\ selecting.pc = "idle"
      /\ \A e \in EventKeys : textEvents[e] = {}
      /\ \A m \in Messages : segments[m] = NoSegment /\ EventOf[m] \in EventKeys
  BY DEF AlertInit, TextInit, NotRunning, EventKeys
<1>2. Len(signals) = 0
  BY <1>1
<1>3. \A i : i \notin 1 .. Len(signals)
  BY <1>2
<1>4. /\ Shapes(signals) /\ \A m : Once(signals, m) /\ ~Queued(m)
      /\ \A e : RemovalFirst(signals, e) /\ ~RemovalQueued(e)
  BY <1>3 DEF Shapes, Once, Queued, QueuedIn, RemovalFirst, RemovalQueued, RemovalIn
<1>5. \A m \in Messages : Drawn(m)
  BY <1>1 DEF Drawn
<1>6. SignalsInv /\ EventsHold
  BY <1>1, <1>4 DEF SignalsInv, EventsHold
<1>7. \A e \in EventKeys : Mirrored(e)
  BY <1>1, <1>4, <1>5 DEF Mirrored
<1> QED  BY <1>6, <1>7 DEF MirrorInv

(* A message is drawn as before if nothing of its event has changed.         *)
LEMMA SameDrawn ==
  ASSUME NEW n \in Messages, Drawn(n), segments'[n] = segments[n],
         textEvents'[EventOf[n]] = textEvents[EventOf[n]],
         Queued(n)' <=> Queued(n),
         \A k \in textEvents[EventOf[n]] : Queued(k)' <=> Queued(k)
  PROVE  Drawn(n)'
<1>1. Later(n)' = Later(n) /\ Later(n) \subseteq textEvents[EventOf[n]]
  BY DEF Later
<1>2. EndsLate(n)' = EndsLate(n)
  BY <1>1 DEF EndsLate
<1>3. EndsEarly(n)' = EndsEarly(n)
  BY <1>1 DEF EndsEarly
<1> QED  BY <1>2, <1>3 DEF Drawn

LEMMA MirrorFrame ==
  ASSUME MirrorInv, UNCHANGED <<textEvents, signals, segments, overtaken>>,
         \A e : RemovalDue(e)' <=> RemovalDue(e)
  PROVE  MirrorInv'
<1>1. \A m : Queued(m)' = Queued(m)
  BY DEF Queued
<1>2. \A e : RemovalQueued(e)' = RemovalQueued(e)
  BY DEF RemovalQueued
<1>3. SignalsInv' /\ EventsHold'
  BY <1>1 DEF MirrorInv, SignalsInv, EventsHold
<1>4. \A n \in Messages : Drawn(n) => Drawn(n)'
  BY <1>1, SameDrawn
<1>5. \A e \in EventKeys : e \notin overtaken' => Mirrored(e)'
  BY <1>1, <1>2, <1>4 DEF MirrorInv, Mirrored
<1> QED  BY <1>3, <1>5 DEF MirrorInv

LEMMA MirrorAdded ==
  ASSUME TextTypeOK, MirrorInv, NEW m \in Messages, AddMessage(m), UNCHANGED segments,
         \A e : RemovalDue(e)' <=> RemovalDue(e)
  PROVE  MirrorInv'
<1> DEFINE e0 == EventOf[m]
<1>0. /\ textEvents \in [EventKeys -> SUBSET Messages] /\ signals \in Seq(AlertSignals)
      /\ textEvents' \in [EventKeys -> SUBSET Messages]
      /\ \A n \in Messages : EventOf[n] \in EventKeys
      /\ SignalsInv /\ EventsHold /\ \A e \in EventKeys : e \notin overtaken => Mirrored(e)
      /\ \A e \in EventKeys :
               textEvents'[e] = textEvents[e] \cup (IF e = EventOf[m] THEN {m} ELSE {})
  BY Added DEF TextTypeOK, EventKeys, MirrorInv
<1>1. CASE m \in textEvents[e0]
  <2>1. UNCHANGED <<signals, overtaken>>
    BY <1>1 DEF AddMessage, alerts
  <2>2. textEvents' = textEvents
    <3>1. textEvents' = [textEvents EXCEPT ![e0] = textEvents[e0] \cup {m}]
      BY DEF AddMessage
    <3>2. textEvents[e0] \cup {m} = textEvents[e0]
      BY <1>1
    <3> QED  BY <1>0, <3>1, <3>2
  <2> QED  BY <2>1, <2>2, MirrorFrame
<1>2. CASE m \notin textEvents[e0]
  <2> DEFINE s == AlertUpdated(m)
  <2>1. /\ signals' = Append(signals, s)
        /\ overtaken' = IF selecting.pc = "announce"
                        THEN overtaken \cup ({EventOf[m]} \cap selecting.events)
                        ELSE overtaken
    BY <1>2 DEF AddMessage
  <2>2. /\ s \in AlertSignals /\ Shape(s)
        /\ \A n : Tells(s, n) <=> n = m
        /\ \A e : ~Removes(s, e)
    <3>1. s \in AlertSignals
      BY <1>0 DEF AlertUpdated, AlertSignals
    <3> QED  BY <3>1, SignalsAre
  <2> HIDE DEF s
  <2>3. ~Queued(m)
    BY <1>0, <1>2 DEF SignalsInv
  <2>4. /\ \A n : Queued(n)' <=> Queued(n) \/ n = m
        /\ \A e : RemovalQueued(e)' <=> RemovalQueued(e)
        /\ Shapes(signals')
        /\ \A n \in Messages : Once(signals', n)
        /\ \A e : RemovalFirst(signals, e) => RemovalFirst(signals', e)
    BY <1>0, <2>1, <2>2, <2>3, QueueAppend DEF Queued, RemovalQueued, SignalsInv
  <2>5. SignalsInv'
    <3>1. \A n \in Messages : Queued(n)' => n \in textEvents'[EventOf[n]]
      BY <1>0, <2>4 DEF SignalsInv
    <3> QED  BY <2>4, <3>1 DEF SignalsInv
  <2>6. EventsHold'
    BY <1>0 DEF EventsHold
  <2>7. ASSUME NEW e \in EventKeys, e \notin overtaken', e # e0 PROVE Mirrored(e)'
    <3>1. Mirrored(e) /\ textEvents'[e] = textEvents[e]
      BY <1>0, <2>1, <2>7
    <3>2. \A k \in textEvents[e] : Queued(k)' <=> Queued(k)
      BY <1>0, <2>4, <2>7 DEF EventsHold
    <3>3. \A n \in Messages : EventOf[n] = e /\ Drawn(n) => Drawn(n)'
      <4> SUFFICES ASSUME NEW n \in Messages, EventOf[n] = e, Drawn(n) PROVE Drawn(n)'
        OBVIOUS
      <4>1. Queued(n)' <=> Queued(n)
        BY <2>4, <2>7
      <4> QED  BY <3>1, <3>2, <4>1, SameDrawn
    <3> QED  BY <2>4, <3>1, <3>2, <3>3 DEF Mirrored
  <2>8. ASSUME e0 \notin overtaken' PROVE Mirrored(e0)'
    <3>1. e0 \notin overtaken /\ ~RemovalDue(e0) /\ e0 \in EventKeys
      BY <1>0, <2>1, <2>8 DEF RemovalDue
    <3>2. Mirrored(e0)
      BY <1>0, <3>1
    <3>3. textEvents'[e0] = textEvents[e0] \cup {m}
      BY <1>0, <3>1
    <3>4. ASSUME NEW n \in Messages, EventOf[n] = e0, Drawn(n) PROVE Drawn(n)'
      <4>1. Later(n) \subseteq Later(n)' /\ Later(n)' \subseteq Later(n) \cup {m}
        BY <3>3, <3>4 DEF Later
      <4>2. CASE n = m
        BY <1>2, <2>4, <3>4, <4>2 DEF Drawn
      <4>3. CASE n # m /\ n \in textEvents[e0] /\ ~Queued(n)
        <5>1. segments[n] # NoSegment /\ EndsLate(n) /\ EndsEarly(n)
          BY <3>4, <4>3 DEF Drawn
        <5>2. EndsLate(n)'
          BY <4>1, <5>1 DEF EndsLate
        <5>3. EndsEarly(n)'
          BY <2>4, <4>1, <5>1 DEF EndsEarly
        <5> QED  BY <2>4, <3>3, <3>4, <4>3, <5>1, <5>2, <5>3 DEF Drawn
      <4>4. CASE n # m /\ ~(n \in textEvents[e0] /\ ~Queued(n))
        BY <2>4, <3>3, <3>4, <4>4 DEF Drawn
      <4> QED  BY <4>2, <4>3, <4>4
    <3> QED  BY <2>4, <3>1, <3>2, <3>3, <3>4 DEF Mirrored
  <2> QED  BY <2>5, <2>6, <2>7, <2>8 DEF MirrorInv
<1> QED  BY <1>1, <1>2

LEMMA MirrorErased ==
  ASSUME TextTypeOK, MirrorInv, ErasePruned, UNCHANGED segments
  PROVE  MirrorInv'
<1> DEFINE E == selecting.events
<1>0. /\ textEvents \in [EventKeys -> SUBSET Messages] /\ signals \in Seq(AlertSignals)
      /\ \A n \in Messages : EventOf[n] \in EventKeys
      /\ SignalsInv /\ EventsHold /\ \A e \in EventKeys : e \notin overtaken => Mirrored(e)
  BY DEF TextTypeOK, EventKeys, MirrorInv
<1>1. /\ selecting.pc = "erase" /\ selecting' = [pc |-> "announce", events |-> E]
      /\ textEvents' = [e \in EventKeys |-> IF e \in E THEN {} ELSE textEvents[e]]
      /\ signals' = Keeping(signals, StillOf(E))
      /\ overtaken' = overtaken \ E
  BY DEF ErasePruned, ArchiveGoes
<1>2. \A e : ~RemovalDue(e) /\ (RemovalDue(e)' <=> e \in E)
  BY <1>1 DEF RemovalDue
<1> HIDE DEF E
<1>3. /\ \A n : Queued(n)' <=> \E i \in 1 .. Len(signals) : signals[i] \in StillOf(E) /\ Tells(signals[i], n)
      /\ \A e : RemovalQueued(e)' <=> \E i \in 1 .. Len(signals) : signals[i] \in StillOf(E) /\ Removes(signals[i], e)
      /\ Shapes(signals') /\ \A n \in Messages : Once(signals', n)
      /\ \A e : RemovalFirst(signals, e) => RemovalFirst(signals', e)
  BY <1>0, <1>1, QueueKeeping DEF Queued, RemovalQueued, SignalsInv
<1>4. \A i \in 1 .. Len(signals) : signals[i] \in AlertSignals
  BY <1>0
<1>5. ASSUME NEW n \in Messages PROVE Queued(n)' <=> Queued(n) /\ EventOf[n] \notin E
  <2>1. ASSUME NEW i \in 1 .. Len(signals), Tells(signals[i], n)
        PROVE  signals[i] \in StillOf(E) <=> EventOf[n] \notin E
    <3>1. signals[i].message = {n} /\ signals[i] \in AlertSignals
      BY <1>4, <2>1 DEF Tells
    <3>2. PICK m \in Messages : signals[i] = AlertUpdated(m)
      BY <1>0, <3>1 DEF SignalsInv, Shapes, Shape
    <3>3. signals[i].events = {EventOf[n]}
      BY <3>1, <3>2 DEF AlertUpdated
    <3> QED  BY <3>1, <3>3 DEF StillOf
  <2> QED  BY <1>3, <2>1 DEF Queued, QueuedIn
<1>6. ASSUME NEW e PROVE RemovalQueued(e)' <=> RemovalQueued(e)
  <2>1. \A i \in 1 .. Len(signals) : Removes(signals[i], e) => signals[i] \in StillOf(E)
    BY <1>4 DEF Removes, StillOf
  <2> QED  BY <1>3, <2>1 DEF RemovalQueued, RemovalIn
<1>7. SignalsInv'
  <2>1. ASSUME NEW n \in Messages, Queued(n)' PROVE n \in textEvents'[EventOf[n]]
    <3>1. Queued(n) /\ EventOf[n] \notin E /\ EventOf[n] \in EventKeys
      BY <1>0, <1>5, <2>1
    <3> QED  BY <1>0, <1>1, <3>1 DEF SignalsInv
  <2> QED  BY <1>3, <2>1 DEF SignalsInv
<1>8. EventsHold'
  BY <1>0, <1>1 DEF EventsHold
<1>9. ASSUME NEW e \in EventKeys, e \in E PROVE Mirrored(e)'
  <2>1. textEvents'[e] = {}
    BY <1>1, <1>9
  <2>2. \A n \in Messages : EventOf[n] = e => ~Queued(n)'
    BY <1>5, <1>9
  <2>3. RemovalFirst(signals', e)
    BY <2>2 DEF RemovalFirst, Queued, QueuedIn
  <2> QED  BY <1>2, <1>9, <2>1, <2>3 DEF Mirrored
<1>10. ASSUME NEW e \in EventKeys, e \notin E, e \notin overtaken PROVE Mirrored(e)'
  <2>1. Mirrored(e) /\ textEvents'[e] = textEvents[e]
    BY <1>0, <1>1, <1>10
  <2>2. \A k \in textEvents[e] : Queued(k)' <=> Queued(k)
    <3> SUFFICES ASSUME NEW k \in textEvents[e] PROVE Queued(k)' <=> Queued(k)
      OBVIOUS
    <3>1. k \in Messages /\ EventOf[k] = e
      BY <1>0 DEF EventsHold
    <3> QED  BY <1>5, <1>10, <3>1
  <2>3. \A n \in Messages : EventOf[n] = e /\ Drawn(n) => Drawn(n)'
    <3> SUFFICES ASSUME NEW n \in Messages, EventOf[n] = e, Drawn(n) PROVE Drawn(n)'
      OBVIOUS
    <3>1. Queued(n)' <=> Queued(n)
      BY <1>5, <1>10
    <3> QED  BY <2>1, <2>2, <3>1, SameDrawn
  <2> QED  BY <1>2, <1>3, <1>6, <1>10, <2>1, <2>2, <2>3 DEF Mirrored
<1> QED  BY <1>1, <1>7, <1>8, <1>9, <1>10 DEF MirrorInv

LEMMA MirrorAnnounced ==
  ASSUME TextTypeOK, MirrorInv, AnnouncePruned, UNCHANGED segments
  PROVE  MirrorInv'
<1> DEFINE E == selecting.events
           s == AlertsRemoved(E)
<1>0. /\ textEvents \in [EventKeys -> SUBSET Messages] /\ signals \in Seq(AlertSignals)
      /\ selecting \in ArchiveStates
      /\ \A n \in Messages : EventOf[n] \in EventKeys
      /\ SignalsInv /\ EventsHold /\ \A e \in EventKeys : e \notin overtaken => Mirrored(e)
  BY DEF TextTypeOK, EventKeys, MirrorInv
<1>1. /\ selecting.pc = "announce" /\ selecting'.pc = "idle"
      /\ signals' = IF E = {} THEN signals ELSE Append(signals, s)
      /\ UNCHANGED <<textEvents, overtaken>>
  BY DEF AnnouncePruned, ArchiveGoes, NotRunning
<1>2. \A e : (RemovalDue(e) <=> e \in E) /\ ~RemovalDue(e)'
  BY <1>1 DEF RemovalDue
<1>3. CASE E = {}
  BY <1>1, <1>2, <1>3, MirrorFrame
<1>4. CASE E # {}
  <2>1. /\ s \in AlertSignals /\ Shape(s)
        /\ \A n : ~Tells(s, n)
        /\ \A e : Removes(s, e) <=> e \in E
    <3>1. E \subseteq EventKeys
      BY <1>0, <1>1, ArchiveShapes
    <3>2. s \in AlertSignals
      BY <3>1 DEF AlertsRemoved, AlertSignals
    <3> QED  BY <3>2, SignalsAre
  <2> HIDE DEF s
  <2>2. signals' = Append(signals, s)
    BY <1>1, <1>4
  <2> HIDE DEF E
  <2>3. /\ \A n : Queued(n)' <=> Queued(n)
        /\ \A e : RemovalQueued(e)' <=> RemovalQueued(e) \/ e \in E
        /\ Shapes(signals')
        /\ \A n \in Messages : Once(signals', n)
    BY <1>0, <2>1, <2>2, QueueAppend DEF Queued, RemovalQueued, SignalsInv
  <2>4. SignalsInv'
    BY <1>0, <1>1, <2>3 DEF SignalsInv
  <2>5. EventsHold'
    BY <1>0, <1>1 DEF EventsHold
  <2>6. ASSUME NEW e \in EventKeys, e \notin overtaken PROVE Mirrored(e)'
    <3>1. Mirrored(e)
      BY <1>0, <2>6
    <3>2. e \in E => textEvents[e] = {}
      BY <1>2, <3>1 DEF Mirrored
    <3>3. e \in E => \A n \in Messages : EventOf[n] = e => ~Queued(n)
      BY <1>0, <3>2 DEF SignalsInv
    <3>4. RemovalFirst(signals', e)
      BY <1>0, <2>1, <2>2, <3>1, <3>3, QueueAppend DEF Mirrored, Queued
    <3>5. \A n \in Messages : Drawn(n) => Drawn(n)'
      BY <1>1, <2>3, SameDrawn
    <3> QED  BY <1>1, <1>2, <2>3, <3>1, <3>2, <3>4, <3>5 DEF Mirrored
  <2> QED  BY <1>1, <2>4, <2>5, <2>6 DEF MirrorInv
<1> QED  BY <1>3, <1>4

(* What the end of a segment is when its message is handled.                 *)
LEMMA EndIs ==
  ASSUME TextTypeOK, NEW m \in Messages
  PROVE  /\ Later(m) \subseteq Messages
         /\ NextBegin(m) \in Hours \cup {Never} /\ NextBegin(m) # NoSegment
         /\ Later(m) = {} => NextBegin(m) = Never
         /\ Later(m) # {} => \E n \in Later(m) : NextBegin(m) = HourOf[n]
         /\ \A n \in Later(m) : NextBegin(m) <= HourOf[n]
<1> DEFINE H == {HourOf[n] : n \in Later(m)}
<1>0. EventOf[m] \in EventKeys /\ textEvents \in [EventKeys -> SUBSET Messages]
  BY DEF TextTypeOK, EventKeys
<1>1. Later(m) \subseteq Messages
  BY <1>0 DEF Later
<1>2. H \subseteq Hours /\ H \subseteq Nat
  BY <1>1, Calendar
<1>3. \A h \in Hours \cup {Never} : h \in Nat /\ h # NoSegment
  <2>1. Never \in Nat /\ \A h \in Hours : h \in Nat
    BY Calendar DEF Never
  <2> QED  BY <2>1 DEF NoSegment
<1>4. CASE Later(m) = {}
  BY <1>3, <1>4 DEF NextBegin
<1>5. CASE Later(m) # {}
  <2>1. H # {}
    BY <1>5
  <2>2. NextBegin(m) = Least(H)
    BY <1>5 DEF NextBegin
  <2> HIDE DEF H
  <2>3. Least(H) \in H /\ \A x \in H : Least(H) <= x
    BY <1>2, <2>1, LeastIs
  <2> QED  BY <1>1, <1>2, <1>3, <1>5, <2>2, <2>3 DEF H
<1> QED  BY <1>1, <1>4, <1>5

SegmentTypes == segments \in [Messages -> Hours \cup {NoSegment, Never}]

LEMMA MirrorAlert ==
  ASSUME AlertTypeOK, MirrorInv, HandleAlert
  PROVE  MirrorInv' /\ SegmentTypes'
<1>0. /\ textEvents \in [EventKeys -> SUBSET Messages] /\ signals \in Seq(AlertSignals)
      /\ segments \in [Messages -> Hours \cup {NoSegment, Never}]
      /\ \A n \in Messages : EventOf[n] \in EventKeys /\ HourOf[n] \in Hours
      /\ SignalsInv /\ EventsHold /\ \A e \in EventKeys : e \notin overtaken => Mirrored(e)
      /\ TextTypeOK
  BY Calendar DEF AlertTypeOK, TextTypeOK, EventKeys, MirrorInv
<1>1. /\ signals # <<>> /\ Head(signals).message # {} /\ signals' = Tail(signals)
      /\ UNCHANGED <<textEvents, selecting, overtaken>>
  BY DEF HandleAlert, archives
<1>2. PICK m \in Messages : Head(signals) = AlertUpdated(m)
  <2>1. Shape(Head(signals))
    BY <1>0, <1>1, QueueTail DEF SignalsInv
  <2> QED  BY <1>1, <2>1 DEF Shape
<1>3. \A n : (Tells(Head(signals), n) <=> n = m) /\ ~Removes(Head(signals), n)
  BY <1>2, SignalsAre
<1> DEFINE c == CHOOSE n \in Messages : Head(signals).message = {n}
           before(x) == {n \in textEvents[EventOf[x]] :
                           segments[n] # NoSegment /\ HourOf[n] < HourOf[x]}
<1>c. segments' = [n \in Messages |-> IF n = c THEN NextBegin(c)
                                      ELSE IF n \in before(c) THEN CutShort(segments[n], HourOf[c])
                                      ELSE segments[n]]
  BY DEF HandleAlert
<1>4. c = m
  <2>1. \A n \in Messages : Head(signals).message = {n} <=> n = m
    BY <1>3 DEF Tells
  <2> QED  BY <2>1
<1> HIDE DEF c
<1> DEFINE e0 == EventOf[m]
           earlier == {n \in textEvents[e0] : segments[n] # NoSegment /\ HourOf[n] < HourOf[m]}
<1>5. segments' = [n \in Messages |-> IF n = m THEN NextBegin(m)
                                      ELSE IF n \in earlier THEN CutShort(segments[n], HourOf[m])
                                      ELSE segments[n]]
  BY <1>4, <1>c
<1> HIDE DEF earlier
<1>6. SegmentTypes'
  <2>1. NextBegin(m) \in Hours \cup {Never}
    BY <1>0, EndIs
  <2>2. \A n \in Messages : CutShort(segments[n], HourOf[m]) \in Hours \cup {NoSegment, Never}
    BY <1>0 DEF CutShort
  <2>3. \A n \in Messages : segments[n] \in Hours \cup {NoSegment, Never}
    BY <1>0
  <2> QED  BY <1>5, <2>1, <2>2, <2>3 DEF SegmentTypes
<1>7. /\ \A n : Queued(n) <=> Queued(n)' \/ n = m
      /\ \A e : RemovalQueued(e)' <=> RemovalQueued(e)
      /\ \A e : RemovalDue(e)' <=> RemovalDue(e)
      /\ \A e : RemovalFirst(signals, e) => RemovalFirst(signals', e)
      /\ ~Queued(m)'
      /\ RemovalFirst(signals, e0) => ~RemovalQueued(e0)
      /\ Shapes(signals') /\ \A n \in Messages : Once(signals', n)
  BY <1>0, <1>1, <1>3, QueueTail DEF Queued, RemovalQueued, RemovalDue, SignalsInv
<1>8. SignalsInv' /\ EventsHold'
  BY <1>0, <1>1, <1>7 DEF SignalsInv, EventsHold
<1>9. ASSUME NEW e \in EventKeys, e \notin overtaken, e # e0 PROVE Mirrored(e)'
  <2>1. Mirrored(e)
    BY <1>0, <1>9
  <2>2. \A n \in Messages : EventOf[n] = e => n # m /\ n \notin earlier
    BY <1>0, <1>9 DEF EventsHold, earlier
  <2>3. \A n \in Messages : EventOf[n] = e => segments'[n] = segments[n] /\ (Queued(n)' <=> Queued(n))
    BY <1>5, <1>7, <2>2
  <2>4. \A k \in textEvents[e] : Queued(k)' <=> Queued(k)
    BY <1>0, <1>7, <1>9 DEF EventsHold
  <2>5. \A n \in Messages : EventOf[n] = e /\ Drawn(n) => Drawn(n)'
    BY <1>1, <2>3, <2>4, SameDrawn
  <2> QED  BY <1>1, <1>7, <2>1, <2>4, <2>5 DEF Mirrored
<1>10. ASSUME e0 \notin overtaken PROVE Mirrored(e0)'
  <2>1. Mirrored(e0) /\ e0 \in EventKeys
    BY <1>0, <1>10
  <2>2. m \in textEvents[e0]
    BY <1>0, <1>7 DEF SignalsInv
  <2>3. ~RemovalDue(e0) /\ ~RemovalQueued(e0)
    BY <1>7, <2>1, <2>2 DEF Mirrored
  <2>4. ASSUME NEW n \in Messages, EventOf[n] = e0 PROVE Drawn(n)'
    <3>1. Drawn(n)
      BY <2>1, <2>3, <2>4 DEF Mirrored
    <3>2. Later(n)' = Later(n) /\ Later(n) \subseteq Messages
      BY <1>0, <1>1, EndIs DEF Later
    <3>3. CASE n = m
      <4>1. segments'[m] = NextBegin(m)
        BY <1>5
      <4>2. segments'[m] # NoSegment /\ \A k \in Later(m) : segments'[m] <= HourOf[k]
        BY <1>0, <4>1, EndIs
      <4>3. EndsLate(m)'
        <5>1. CASE Later(m) = {}
          BY <1>0, <4>1, <5>1, EndIs DEF EndsLate
        <5>2. CASE Later(m) # {}
          <6>1. PICK k \in Later(m) : segments'[m] = HourOf[k]
            BY <1>0, <4>1, <5>2, EndIs
          <6>2. HourOf[k] <= HourOf[k]
            <7>1. k \in Messages
              BY <3>2, <3>3
            <7>2. HourOf[k] \in Nat
              BY <7>1, Calendar
            <7> QED  BY <7>2
          <6> QED  BY <3>2, <3>3, <6>1, <6>2 DEF EndsLate
        <5> QED  BY <5>1, <5>2
      <4>4. EndsEarly(m)'
        BY <3>2, <3>3, <4>2 DEF EndsEarly
      <4> QED  BY <1>1, <1>7, <2>2, <3>3, <4>2, <4>3, <4>4 DEF Drawn
    <3>4. CASE n # m /\ ~(n \in textEvents[e0] /\ ~Queued(n))
      <4>1. segments[n] = NoSegment
        BY <2>4, <3>1, <3>4 DEF Drawn
      <4>2. segments'[n] = NoSegment
        BY <1>5, <3>4, <4>1 DEF earlier
      <4> QED  BY <1>1, <1>7, <2>4, <3>4, <4>2 DEF Drawn
    <3>5. CASE n # m /\ n \in textEvents[e0] /\ ~Queued(n)
      <4>1. segments[n] # NoSegment /\ EndsLate(n) /\ EndsEarly(n)
        BY <2>4, <3>1, <3>5 DEF Drawn
      <4>2. CASE HourOf[n] < HourOf[m]
        <5>1. n \in earlier /\ m \in Later(n)
          BY <2>2, <2>4, <3>5, <4>1, <4>2 DEF earlier, Later
        <5>2. segments'[n] = IF segments[n] > HourOf[m] THEN HourOf[m] ELSE segments[n]
          BY <1>5, <3>5, <5>1 DEF CutShort
        <5>3. /\ segments[n] \in Nat /\ HourOf[m] \in Nat /\ HourOf[m] # NoSegment
              /\ \A k \in Later(n) : HourOf[k] \in Nat
          <6>1. segments[n] \in Hours \cup {Never}
            BY <1>0, <4>1
          <6>2. \A h \in Hours \cup {Never} : h \in Nat
            BY Calendar DEF Never
          <6>3. HourOf[m] # NoSegment
            BY <1>0, <6>2 DEF NoSegment
          <6> QED  BY <1>0, <3>2, <6>1, <6>2, <6>3
        <5>4. segments'[n] <= HourOf[m] /\ segments'[n] <= segments[n] /\ segments'[n] # NoSegment
              /\ segments'[n] \in Nat
          BY <4>1, <5>2, <5>3
        <5>5. EndsLate(n)'
          <6>1. CASE segments'[n] = HourOf[m]
            BY <3>2, <5>1, <5>3, <6>1 DEF EndsLate
          <6>2. CASE segments'[n] = segments[n]
            BY <3>2, <4>1, <6>2 DEF EndsLate
          <6> QED  BY <5>2, <6>1, <6>2
        <5>6. EndsEarly(n)'
          <6> SUFFICES ASSUME NEW k \in Later(n), ~Queued(k)' PROVE segments'[n] <= HourOf[k]
            BY <3>2 DEF EndsEarly
          <6>1. CASE k = m
            BY <5>4, <6>1
          <6>2. CASE k # m
            <7>1. segments[n] <= HourOf[k]
              BY <1>7, <4>1, <6>2 DEF EndsEarly
            <7> QED  BY <5>3, <5>4, <7>1
          <6> QED  BY <6>1, <6>2
        <5> QED  BY <1>1, <1>7, <2>4, <3>5, <5>4, <5>5, <5>6 DEF Drawn
      <4>3. CASE ~(HourOf[n] < HourOf[m])
        <5>1. n \notin earlier /\ m \notin Later(n)
          BY <4>3 DEF earlier, Later
        <5>2. segments'[n] = segments[n]
          BY <1>5, <3>5, <5>1
        <5>3. EndsLate(n)'
          BY <3>2, <4>1, <5>2 DEF EndsLate
        <5>4. EndsEarly(n)'
          BY <1>7, <3>2, <4>1, <5>1, <5>2 DEF EndsEarly
        <5> QED  BY <1>1, <1>7, <2>4, <3>5, <4>1, <5>2, <5>3, <5>4 DEF Drawn
      <4> QED  BY <4>2, <4>3
    <3> QED  BY <3>3, <3>4, <3>5
  <2> QED  BY <1>7, <2>1, <2>3, <2>4 DEF Mirrored
<1> QED  BY <1>1, <1>6, <1>8, <1>9, <1>10 DEF MirrorInv

LEMMA MirrorRemoved ==
  ASSUME AlertTypeOK, MirrorInv, HandleAlertsRemoved
  PROVE  MirrorInv' /\ SegmentTypes'
<1> DEFINE E == Head(signals).events
<1>0. /\ textEvents \in [EventKeys -> SUBSET Messages] /\ signals \in Seq(AlertSignals)
      /\ segments \in [Messages -> Hours \cup {NoSegment, Never}]
      /\ \A n \in Messages : EventOf[n] \in EventKeys
      /\ SignalsInv /\ EventsHold /\ \A e \in EventKeys : e \notin overtaken => Mirrored(e)
  BY DEF AlertTypeOK, TextTypeOK, EventKeys, MirrorInv
<1>1. /\ signals # <<>> /\ Head(signals).message = {} /\ signals' = Tail(signals)
      /\ segments' = [n \in Messages |-> IF EventOf[n] \in E THEN NoSegment ELSE segments[n]]
      /\ UNCHANGED <<textEvents, selecting, overtaken>>
  BY DEF HandleAlertsRemoved, archives
<1>2. \A n : ~Tells(Head(signals), n) /\ (Removes(Head(signals), n) <=> n \in E)
  BY <1>1 DEF Tells, Removes
<1> HIDE DEF E
<1>3. SegmentTypes'
  BY <1>0, <1>1 DEF SegmentTypes
<1>4. /\ \A n : Queued(n)' <=> Queued(n)
      /\ \A e : RemovalQueued(e) <=> RemovalQueued(e)' \/ e \in E
      /\ \A e : RemovalDue(e)' <=> RemovalDue(e)
      /\ \A e : RemovalFirst(signals, e) => RemovalFirst(signals', e)
      /\ Shapes(signals') /\ \A n \in Messages : Once(signals', n)
  BY <1>0, <1>1, <1>2, QueueTail DEF Queued, RemovalQueued, RemovalDue, SignalsInv
<1>5. SignalsInv' /\ EventsHold'
  BY <1>0, <1>1, <1>4 DEF SignalsInv, EventsHold
<1>6. ASSUME NEW e \in EventKeys, e \notin overtaken PROVE Mirrored(e)'
  <2>1. Mirrored(e)
    BY <1>0, <1>6
  <2>2. CASE e \in E
    <3>1. \A k \in textEvents[e] : Queued(k)
      BY <1>4, <2>1, <2>2 DEF Mirrored
    <3>2. ASSUME NEW n \in Messages, EventOf[n] = e PROVE Drawn(n)'
      <4>1. segments'[n] = NoSegment
        BY <1>1, <2>2, <3>2
      <4>2. ~(n \in textEvents'[EventOf[n]] /\ ~Queued(n)')
        BY <1>1, <1>4, <3>1, <3>2
      <4> QED  BY <4>1, <4>2 DEF Drawn
    <3> QED  BY <1>1, <1>4, <2>1, <3>1, <3>2 DEF Mirrored
  <2>3. CASE e \notin E
    <3>1. \A n \in Messages : EventOf[n] = e => segments'[n] = segments[n]
      BY <1>1, <2>3
    <3>2. \A n \in Messages : EventOf[n] = e /\ Drawn(n) => Drawn(n)'
      BY <1>1, <1>4, <3>1, SameDrawn
    <3> QED  BY <1>1, <1>4, <2>1, <2>3, <3>2 DEF Mirrored
  <2> QED  BY <2>2, <2>3
<1> QED  BY <1>1, <1>3, <1>5, <1>6 DEF MirrorInv

LEMMA MirrorTexts ==
  ASSUME TextTypeOK, MirrorInv, TextNext, UNCHANGED segments
  PROVE  MirrorInv'
<1>0. refresh \in RefreshStates /\ selecting \in ArchiveStates
  BY DEF TextTypeOK
<1>a. ASSUME UNCHANGED <<textEvents, alerts>>,
             \/ UNCHANGED selecting
             \/ selecting.pc # "announce" /\ selecting'.pc # "announce"
      PROVE  MirrorInv'
  <2>1. \A e : RemovalDue(e)' <=> RemovalDue(e)
    BY <1>a DEF RemovalDue
  <2> QED  BY <1>a, <2>1, MirrorFrame DEF alerts
<1>1. ASSUME NEW m \in Messages, Issue(m) PROVE MirrorInv'
  BY <1>a, <1>1 DEF Issue, archives
<1>2. ASSUME NEW h \in Hours, HoursPass(h) PROVE MirrorInv'
  BY <1>a, <1>2 DEF HoursPass, archives
<1>3. CASE BeginTextRefresh
  BY <1>a, <1>3 DEF BeginTextRefresh, archives
<1>4. CASE LoadUpdatedFiles
  BY <1>a, <1>4 DEF LoadUpdatedFiles, archives
<1>5. CASE HandleLive
  <2>1. PICK m \in Messages : HandleLiveMessage(m)
    <3>1. NextMessage(refresh.left) \in Messages
      BY <1>0, <1>5, RefreshShapes, NextIsOneOf DEF HandleLive
    <3> QED  BY <1>5, <3>1 DEF HandleLive
  <2>2. UNCHANGED selecting
    BY <1>5 DEF HandleLive
  <2>3. \A e : RemovalDue(e)' <=> RemovalDue(e)
    BY <2>2 DEF RemovalDue
  <2> QED  BY <2>1, <2>3, MirrorAdded DEF HandleLiveMessage
<1>6. CASE EndTextRefresh
  BY <1>a, <1>6 DEF EndTextRefresh, archives
<1>7. ASSUME NEW d \in SelectDays, SelectArchiveTime(d) PROVE MirrorInv'
  BY <1>a, <1>7 DEF SelectArchiveTime, ArchiveGoes, NotRunning
<1>8. CASE UpdateArchiveDates
  BY <1>a, <1>8 DEF UpdateArchiveDates, ArchiveGoes
<1>9. CASE ListArchives
  BY <1>a, <1>9 DEF ListArchives, ArchiveGoes
<1>10. CASE MoveToLoadList
  <2>1. selecting.pc # "announce" /\ selecting'.pc # "announce"
    BY <1>10 DEF MoveToLoadList, ArchiveGoes
  <2> QED  BY <1>a, <1>10, <2>1 DEF MoveToLoadList
<1>11. CASE LoadTextProducts
  <2>1. selecting.pc # "announce" /\ selecting'.pc # "announce"
    BY <1>11 DEF LoadTextProducts, ArchiveGoes
  <2> QED  BY <1>a, <1>11, <2>1 DEF LoadTextProducts
<1>12. CASE HandleArchived
  <2>1. PICK m \in Messages : HandleArchiveMessage(m)
    <3>1. NextMessage(selecting.left) \in Messages
      BY <1>0, <1>12, ArchiveShapes, NextIsOneOf DEF HandleArchived
    <3> QED  BY <1>12, <3>1 DEF HandleArchived
  <2>2. selecting.pc # "announce" /\ selecting'.pc # "announce"
    BY <1>12 DEF HandleArchived, ArchiveGoes
  <2>3. \A e : RemovalDue(e)' <=> RemovalDue(e)
    BY <2>2 DEF RemovalDue
  <2> QED  BY <2>1, <2>3, MirrorAdded DEF HandleArchiveMessage
<1>13. CASE ArchiveHandled
  BY <1>a, <1>13 DEF ArchiveHandled, ArchiveGoes
<1>14. CASE PruneArchives
  <2>1. selecting.pc # "announce" /\ selecting'.pc # "announce"
    BY <1>14 DEF PruneArchives, ArchiveGoes, NotRunning
  <2> QED  BY <1>a, <1>14, <2>1 DEF PruneArchives
<1>15. CASE ErasePruned
  BY <1>15, MirrorErased
<1>16. CASE AnnouncePruned
  BY <1>16, MirrorAnnounced
<1> QED
  BY <1>1, <1>2, <1>3, <1>4, <1>5, <1>6, <1>7, <1>8, <1>9, <1>10, <1>11, <1>12, <1>13, <1>14,
     <1>15, <1>16
  DEF TextNext

LEMMA TextTypesQueue ==
  ASSUME TextTypeOK, signals # <<>>, signals' = Tail(signals),
         UNCHANGED <<feed, live, archives, textEvents, liveEvents, overtaken, history>>
  PROVE  TextTypeOK'
<1>1. signals' \in Seq(AlertSignals)
  BY QueueTail DEF TextTypeOK
<1> QED  BY <1>1 DEF TextTypeOK, feed, live, archives, history

----------------------------------------------------------------------------
(* The theorems                                                              *)

AlertInv == AlertTypeOK /\ EventsInv /\ LoadedInv /\ FeedInv /\ ArchInv /\ MirrorInv

LEMMA AlertInvInit == AlertInit => AlertInv
<1> SUFFICES ASSUME AlertInit PROVE AlertInv
  OBVIOUS
<1>1. TextInit /\ segments \in [Messages -> Hours \cup {NoSegment, Never}]
  BY DEF AlertInit
<1> QED
  BY <1>1, TextTypesInit, EventsInvInit, LoadedInvInit, FeedInvInit, ArchInvInit, MirrorInvInit
  DEF AlertInv, AlertTypeOK

LEMMA AlertInvStep == AlertInv /\ [AlertNext]_alertVars => AlertInv'
<1> SUFFICES ASSUME AlertInv, [AlertNext]_alertVars PROVE AlertInv'
  OBVIOUS
<1>0. /\ AlertTypeOK /\ TextTypeOK /\ EventsInv /\ LoadedInv /\ FeedInv /\ ArchInv /\ MirrorInv
      /\ segments \in [Messages -> Hours \cup {NoSegment, Never}]
  BY DEF AlertInv, AlertTypeOK
<1>1. CASE TextNext /\ UNCHANGED segments
  <2>1. AlertTypeOK'
    BY <1>0, <1>1, TextTypesStep DEF AlertTypeOK
  <2>2. MirrorInv'
    BY <1>0, <1>1, MirrorTexts
  <2> QED
    BY <1>0, <1>1, <2>1, <2>2, EventsInvStep, LoadedInvStep, FeedInvStep, ArchInvStep
    DEF AlertInv, TextStep
<1>2. ASSUME signals # <<>>, signals' = Tail(signals), MirrorInv', SegmentTypes',
             UNCHANGED <<feed, live, archives, textEvents, liveEvents, overtaken, history>>
      PROVE  AlertInv'
  <2>1. AlertTypeOK'
    BY <1>0, <1>2, TextTypesQueue DEF AlertTypeOK, SegmentTypes
  <2>2. TextStep
    BY <1>2 DEF TextStep
  <2> QED
    BY <1>0, <1>2, <2>1, <2>2, EventsInvStep, LoadedInvStep, FeedInvStep, ArchInvStep
    DEF AlertInv
<1>3. CASE HandleAlert
  BY <1>0, <1>2, <1>3, MirrorAlert DEF HandleAlert
<1>4. CASE HandleAlertsRemoved
  BY <1>0, <1>2, <1>4, MirrorRemoved DEF HandleAlertsRemoved
<1>5. CASE UNCHANGED alertVars
  <2>1. UNCHANGED <<feed, live, archives, textEvents, liveEvents, alerts, history>> /\ UNCHANGED segments
    BY <1>5 DEF alertVars, textVars
  <2>2. TextStep /\ UNCHANGED textVars
    BY <1>5, <2>1 DEF TextStep, alertVars
  <2>3. AlertTypeOK'
    BY <1>0, <2>1, <2>2, TextTypesStep DEF AlertTypeOK
  <2>4. MirrorInv'
    <3>1. \A e : RemovalDue(e)' <=> RemovalDue(e)
      BY <2>1 DEF RemovalDue, archives
    <3> QED  BY <1>0, <2>1, <3>1, MirrorFrame DEF alerts
  <2> QED
    BY <1>0, <2>2, <2>3, <2>4, EventsInvStep, LoadedInvStep, FeedInvStep, ArchInvStep
    DEF AlertInv
<1> QED  BY <1>1, <1>3, <1>4, <1>5 DEF AlertNext

LEMMA MirrorsEvents == ASSUME AlertTypeOK, MirrorInv PROVE AlertsMirrorEvents
<1> SUFFICES ASSUME NEW m \in Messages,
                    \A i \in DOMAIN signals : EventOf[m] \notin signals[i].events,
                    selecting.pc = "announce" => EventOf[m] \notin selecting.events,
                    EventOf[m] \notin overtaken
             PROVE  segments[m] = IF m \in textEvents[EventOf[m]] THEN NextBegin(m) ELSE NoSegment
  BY DEF AlertsMirrorEvents
<1>1. /\ signals \in Seq(AlertSignals) /\ EventOf[m] \in EventKeys /\ TextTypeOK
      /\ segments \in [Messages -> Hours \cup {NoSegment, Never}]
      /\ textEvents \in [EventKeys -> SUBSET Messages]
  BY DEF AlertTypeOK, TextTypeOK, EventKeys
<1>2. \A i \in 1 .. Len(signals) : EventOf[m] \notin signals[i].events
  BY <1>1
<1>3. ~RemovalDue(EventOf[m]) /\ ~RemovalQueued(EventOf[m])
  BY <1>2 DEF RemovalDue, RemovalQueued, RemovalIn, Removes
<1>4. ASSUME NEW n \in Messages, EventOf[n] = EventOf[m] PROVE ~Queued(n)
  <2>1. ASSUME NEW i \in 1 .. Len(signals), Tells(signals[i], n) PROVE FALSE
    <3>1. PICK k \in Messages : signals[i] = AlertUpdated(k)
      BY <2>1 DEF MirrorInv, SignalsInv, Shapes, Shape, Tells
    <3>2. n = k
      BY <2>1, <3>1, SignalsAre
    <3>3. EventOf[m] \in signals[i].events
      BY <1>4, <3>1, <3>2 DEF AlertUpdated
    <3> QED  BY <1>2, <3>3
  <2> QED  BY <2>1 DEF Queued, QueuedIn
<1>5. Drawn(m)
  BY <1>1, <1>3 DEF MirrorInv, Mirrored
<1>6. CASE m \notin textEvents[EventOf[m]]
  BY <1>5, <1>6 DEF Drawn
<1>7. CASE m \in textEvents[EventOf[m]]
  <2>1. segments[m] # NoSegment /\ EndsLate(m) /\ EndsEarly(m)
    BY <1>4, <1>5, <1>7 DEF Drawn
  <2>2. \A n \in Later(m) : n \in Messages /\ HourOf[n] \in Nat /\ ~Queued(n)
    <3>1. \A n \in Later(m) : n \in Messages /\ EventOf[n] = EventOf[m]
      BY <1>1 DEF Later, MirrorInv, EventsHold
    <3> QED  BY <1>4, <3>1, Calendar
  <2>3. \A n \in Later(m) : segments[m] <= HourOf[n]
    BY <2>1, <2>2 DEF EndsEarly
  <2>4. segments[m] \in Nat /\ segments[m] <= Never
    <3>1. segments[m] \in Hours \cup {Never}
      BY <1>1, <2>1
    <3>2. Never \in Nat /\ \A h \in Hours : h \in Nat /\ h <= Never
      BY Calendar DEF Never, Hours
    <3> QED  BY <3>1, <3>2
  <2>5. CASE Later(m) = {}
    BY <1>1, <1>7, <2>1, <2>5, EndIs DEF EndsLate
  <2>6. CASE Later(m) # {}
    <3>1. PICK n \in Later(m) : NextBegin(m) = HourOf[n]
      BY <1>1, <2>6, EndIs
    <3>2. \A k \in Later(m) : NextBegin(m) <= HourOf[k]
      BY <1>1, EndIs
    <3>3. segments[m] <= NextBegin(m) /\ NextBegin(m) \in Nat
      BY <2>2, <2>3, <3>1
    <3>4. CASE segments[m] = Never
      <4>1. HourOf[n] <= LastHour /\ LastHour \in Nat
        BY <2>2, TextEventsAssumption DEF Hours
      <4> QED  BY <2>2, <3>1, <3>3, <3>4, <4>1 DEF Never
    <3>5. CASE segments[m] # Never
      <4>1. PICK k \in Later(m) : HourOf[k] <= segments[m]
        BY <2>1, <3>5 DEF EndsLate
      <4>2. segments[m] = NextBegin(m)
        BY <2>2, <2>4, <3>2, <3>3, <4>1
      <4> QED  BY <1>7, <4>2
    <3> QED  BY <3>4, <3>5
  <2> QED  BY <2>5, <2>6
<1> QED  BY <1>6, <1>7

THEOREM AlertInvariant == AlertSpec => []AlertInv
  BY AlertInvInit, AlertInvStep, PTL DEF AlertSpec

(* What the text events and the layers keep has its type.                    *)
THEOREM AlertTypes == AlertSpec => []AlertTypeOK
<1>1. AlertInv => AlertTypeOK
  BY DEF AlertInv
<1> QED  BY <1>1, AlertInvariant, PTL

(* Every event with messages is live, or of an archived day, or about to be  *)
(* erased, and a live event is neither of the others.                        *)
THEOREM EventsAreAccounted == AlertSpec => []EventsAccounted
<1>1. AlertInv => EventsAccounted
  BY DEF AlertInv, EventsInv, Accounted, InArchives, Pruning, EventsAccounted
<1> QED  BY <1>1, AlertInvariant, PTL

(* No message is missed, of the archives or of the feed.                     *)
THEOREM NoneMissed == AlertSpec => []MessagesLoaded
<1>1. AlertInv => MessagesLoaded
  BY LoadedStay, FeedLoaded DEF AlertInv, MessagesLoaded
<1> QED  BY <1>1, AlertInvariant, PTL

(* The archives hold the days kept, and three more during a selection.       *)
THEOREM ArchivesAreBounded == AlertSpec => []ArchivesBounded
<1>1. AlertInv => ArchivesBounded
  BY ArchFew DEF AlertInv, AlertTypeOK
<1> QED  BY <1>1, AlertInvariant, PTL

(* The maps show what is known of an event once its signals are handled.     *)
THEOREM AlertsMirrored == AlertSpec => []AlertsMirrorEvents
<1>1. AlertInv => AlertsMirrorEvents
  BY MirrorsEvents DEF AlertInv
<1> QED  BY <1>1, AlertInvariant, PTL
=============================================================================
