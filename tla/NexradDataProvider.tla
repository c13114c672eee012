--------------------------- MODULE NexradDataProvider ---------------------------
(***************************************************************************)
(* AwsNexradDataProvider: the cache of object keys that a provider keeps of *)
(* a bucket, by the times of the objects, and the list of dates whose       *)
(* objects have been listed, least recently used first.                     *)
(*                                                                          *)
(* One thread at a time refreshes (refreshMutex_); any number ask for the   *)
(* times of a date.  objectsMutex_ is taken for one object, one date or one *)
(* pruning at a time, never across them, and each such section is one step. *)
(* A key is its object's time.  The metadata kept besides (lastModified_,   *)
(* updatePeriod_) and loading an object are left out.                       *)
(***************************************************************************)
EXTENDS Lists, FiniteSets

CONSTANTS
    ObjectTimes, \* times of the objects there are or will be in the bucket
    DayLength,  \* Date(t) is t \div DayLength
    FirstDay,   \* the date on which the program starts
    LastDay,    \* bound: the date on which the model ends
    Threads,    \* threads that call the provider
    MaxObjects, \* kMaxObjects_
    MinDates    \* kMinDatesBeforePruning_

Date(t) == t \div DayLength

ASSUME ProviderAssumption ==
    /\ ObjectTimes \subseteq Nat /\ IsFiniteSet(ObjectTimes)
    /\ DayLength \in Nat \ {0}
    /\ FirstDay \in Nat \ {0} /\ LastDay \in Nat /\ FirstDay <= LastDay
    /\ MaxObjects \in Nat /\ MinDates \in Nat

Days == 0 .. LastDay

VARIABLES
    today,        \* the date of the clock
    published,    \* the objects in the bucket
    objects,      \* the keys of objects_
    objectDates,  \* objectDates_, least recently used first
    refreshDate,  \* refreshDate_
    caller        \* thread -> where it is in a call

providerVars == <<today, published, objects, objectDates, refreshDate, caller>>

(* Where a thread is: "list" before the request of ListObjects, "insert"    *)
(* with objects of the answer left to insert, then "dates", "prune" and     *)
(* "return"; "touch" before UpdateObjectDates in GetTimePointsByDate; "lock" *)
(* in Refresh, with the date it read from the clock, before refreshMutex_.  *)
(* The listing is for a query, or for one of the two days of a refresh.     *)
NotCalling == [pc |-> "idle"]
Purposes == {"query", "yesterday", "today"}
Callers ==
    {NotCalling}
      \cup [pc : {"list"}, date : Days, for : Purposes]
      \cup [pc : {"insert", "dates", "prune", "return"}, date : Days, for : Purposes,
            left : SUBSET ObjectTimes, new : BOOLEAN, found : BOOLEAN,
            success : BOOLEAN]
      \cup [pc : {"touch", "lock"}, date : Days]

Dates == Entries(objectDates)

ProviderTypeOK ==
    /\ today \in FirstDay .. LastDay
    /\ published \subseteq ObjectTimes
    /\ objects \subseteq published
    /\ objectDates \in Seq(Days) /\ Cardinality(Dates) = Len(objectDates)
    /\ refreshDate \in Days
    /\ caller \in [Threads -> Callers]

(* The bucket holds what was observed before the first day.                 *)
ProviderInit ==
    /\ today = FirstDay
    /\ published = {t \in ObjectTimes : Date(t) < FirstDay}
    /\ objects = {}
    /\ objectDates = <<>>
    /\ refreshDate = 0
    /\ caller = [w \in Threads |-> NotCalling]

----------------------------------------------------------------------------
(* The world: objects appear in the order of their times, none before its   *)
(* date, perhaps after it.                                                  *)

Publish(t) ==
    /\ t \notin published
    /\ Date(t) <= today
    /\ \A u \in ObjectTimes : u < t => u \in published
    /\ published' = published \cup {t}
    /\ UNCHANGED <<today, objects, objectDates, refreshDate, caller>>

Midnight ==
    /\ today < LastDay
    /\ today' = today + 1
    /\ UNCHANGED <<published, objects, objectDates, refreshDate, caller>>

----------------------------------------------------------------------------
(* ListObjects                                                              *)

Goto(w, where) == caller' = [caller EXCEPT ![w] = where]

ListObjects(date, for) == [pc |-> "list", date |-> date, for |-> for]

(* The answer: every object of the date, or an error.                       *)
ListSucceeds(w) ==
    /\ caller[w].pc = "list"
    /\ LET answer == {t \in published : Date(t) = caller[w].date}
       IN  Goto(w, [pc |-> IF answer = {} THEN "return" ELSE "insert",
                    date |-> caller[w].date, for |-> caller[w].for,
                    left |-> answer, new |-> FALSE,
                    found |-> answer # {}, success |-> TRUE])
    /\ UNCHANGED <<today, published, objects, objectDates, refreshDate>>

ListFails(w) ==
    /\ caller[w].pc = "list"
    /\ Goto(w, [pc |-> "return", date |-> caller[w].date, for |-> caller[w].for,
                left |-> {}, new |-> FALSE, found |-> FALSE, success |-> FALSE])
    /\ UNCHANGED <<today, published, objects, objectDates, refreshDate>>

(* The objects are inserted one by one, in the order of the answer.         *)
InsertObject(w) ==
    /\ caller[w].pc = "insert"
    /\ LET t == CHOOSE u \in caller[w].left : \A v \in caller[w].left : u <= v
           left == caller[w].left \ {t}
           new == caller[w].new \/ t \notin objects
       IN  /\ objects' = objects \cup {t}
           /\ Goto(w, [pc |-> IF left # {} THEN "insert"
                              ELSE IF new THEN "dates" ELSE "return",
                       date |-> caller[w].date, for |-> caller[w].for,
                       left |-> left, new |-> new,
                       found |-> caller[w].found, success |-> caller[w].success])
    /\ UNCHANGED <<today, published, objectDates, refreshDate>>

(* UpdateObjectDates: out of its old place, to the back of the list.        *)
UpdateObjectDates(date) ==
    objectDates' = Append(Keeping(objectDates, Days \ {date}), date)

(* Mutant of ListedDates: a listing leaves the date list to the query.      *)
ListedDatesForQueries(w) ==
    IF caller[w].for = "query" THEN UpdateObjectDates(caller[w].date)
    ELSE UNCHANGED objectDates

ListedDates(w) == UpdateObjectDates(caller[w].date)

ListUpdatesDates(w) ==
    /\ caller[w].pc = "dates"
    /\ ListedDates(w)
    /\ caller' = [caller EXCEPT ![w].pc = "prune"]
    /\ UNCHANGED <<today, published, objects, refreshDate>>

(* Mutant of TooMany: the limit on objects alone decides.                   *)
TooManyObjects(keys, dates) == Cardinality(keys) > MaxObjects

Prunable(date) == date < today - 1
TooMany(keys, dates) == Cardinality(keys) > MaxObjects /\ dates >= MinDates

(* PruneObjects walks through the date list, from the front to the back, as *)
(* long as there is too much.  Erasing leaves less, so where there is too   *)
(* much at a place, every prunable date before it has been erased.  The     *)
(* clock is read just before the mutex is taken; a midnight in between      *)
(* would only make it spare one more date.                                  *)
PrunableBefore(i) == {j \in 1 .. i - 1 : Prunable(objectDates[j])}
Remaining(dates) == {t \in objects : Date(t) \notin dates}
PrunedPlaces ==
    {i \in 1 .. Len(objectDates) :
        /\ Prunable(objectDates[i])
        /\ TooMany(Remaining({objectDates[j] : j \in PrunableBefore(i)}),
                   Len(objectDates) - Cardinality(PrunableBefore(i)))}
PrunedDates == {objectDates[i] : i \in PrunedPlaces}

PruneObjects(w) ==
    /\ caller[w].pc = "prune"
    /\ objects' = Remaining(PrunedDates)
    /\ objectDates' = Keeping(objectDates, Days \ PrunedDates)
    /\ caller' = [caller EXCEPT ![w].pc = "return"]
    /\ UNCHANGED <<today, published, refreshDate>>

----------------------------------------------------------------------------
(* GetTimePointsByDate                                                      *)

(* The date is there, its times are copied and it is about to be moved to   *)
(* the back of the date list; or it is listed.  No caller asks for a date   *)
(* to come.                                                                 *)
BeginQuery(w, date) ==
    /\ caller[w] = NotCalling
    /\ date <= today
    /\ Goto(w, IF date \in Dates THEN [pc |-> "touch", date |-> date]
                                 ELSE ListObjects(date, "query"))
    /\ UNCHANGED <<today, published, objects, objectDates, refreshDate>>

ReturnToQuery(w) ==
    /\ caller[w].pc = "return"
    /\ caller[w].for = "query"
    /\ Goto(w, IF caller[w].success THEN [pc |-> "touch", date |-> caller[w].date]
                                    ELSE NotCalling)
    /\ UNCHANGED <<today, published, objects, objectDates, refreshDate>>

Touch(w) ==
    /\ caller[w].pc = "touch"
    /\ UpdateObjectDates(caller[w].date)
    /\ Goto(w, NotCalling)
    /\ UNCHANGED <<today, published, objects, refreshDate>>

----------------------------------------------------------------------------
(* Refresh: the clock is read before refreshMutex_ is taken, so the date is *)
(* stale when another refresh held the mutex across midnight.               *)

Refreshing(w) ==
    /\ caller[w].pc \in {"list", "insert", "dates", "prune", "return"}
    /\ caller[w].for # "query"

BeginRefresh(w) ==
    /\ caller[w] = NotCalling
    /\ Goto(w, [pc |-> "lock", date |-> today])
    /\ UNCHANGED <<today, published, objects, objectDates, refreshDate>>

(* While nothing of its date has been found, the day before is listed first. *)
FirstListing(date) ==
    IF refreshDate < date THEN ListObjects(date - 1, "yesterday")
                          ELSE ListObjects(date, "today")

LockRefresh(w) ==
    /\ caller[w].pc = "lock"
    /\ \A x \in Threads : ~Refreshing(x)
    /\ Goto(w, FirstListing(caller[w].date))
    /\ UNCHANGED <<today, published, objects, objectDates, refreshDate>>

ReturnToRefresh(w) ==
    /\ caller[w].pc = "return"
    /\ caller[w].for # "query"
    /\ refreshDate' = IF caller[w].found THEN caller[w].date ELSE refreshDate
    /\ Goto(w, IF caller[w].for = "yesterday"
               THEN ListObjects(caller[w].date + 1, "today")
               ELSE NotCalling)
    /\ UNCHANGED <<today, published, objects, objectDates>>

----------------------------------------------------------------------------
CallStep(w) ==
    \/ ListSucceeds(w)
    \/ ListFails(w)
    \/ InsertObject(w)
    \/ ListUpdatesDates(w)
    \/ PruneObjects(w)
    \/ ReturnToQuery(w)
    \/ Touch(w)
    \/ LockRefresh(w)
    \/ ReturnToRefresh(w)

ProviderNext ==
    \/ \E t \in ObjectTimes : Publish(t)
    \/ Midnight
    \/ \E w \in Threads :
          \/ \E date \in Days : BeginQuery(w, date)
          \/ BeginRefresh(w)
          \/ CallStep(w)

ProviderSpec == ProviderInit /\ [][ProviderNext]_providerVars

----------------------------------------------------------------------------
(* Every cached object can be pruned: its date is in the date list, or a    *)
(* listing that inserted new objects of that date has yet to add it --      *)
(* although objects, dates and pruning take the mutex separately.           *)
NoOrphans ==
    \A t \in objects :
        \/ Date(t) \in Dates
        \/ \E w \in Threads :
              /\ caller[w].pc \in {"insert", "dates"}
              /\ caller[w].date = Date(t)
              /\ caller[w].new

(* Pruning spares what refreshes and live views work on, in whatever order  *)
(* dates were used: no object of today or yesterday leaves the cache, and a *)
(* date only for others used more recently; beside today and yesterday, as  *)
(* many dates as the archive list needs stay behind it.                     *)
PruningSpares ==
    /\ \A t \in objects \ objects' : Date(t) < today - 1
    /\ \A i \in 1 .. Len(objectDates) :
          objectDates[i] \notin Dates' =>
             Cardinality({j \in 1 .. Len(objectDates) : j > i /\ objectDates[j] \in Dates'})
               >= MinDates - 3
PruningSparesRecent == [][PruningSpares]_providerVars

(* The documentation of IsDateCached: whether the time points of the date   *)
(* are cached.  Stated of dates that were complete before the program       *)
(* began, and that nobody is listing.                                       *)
CachedDateIsComplete ==
    \A date \in Dates :
        /\ date < FirstDay
        /\ \A w \in Threads : caller[w] = NotCalling
        => {t \in published : Date(t) = date} \subseteq objects

(* The comment in Refresh: yesterday is listed first, to ensure that no     *)
(* objects near midnight are missed.  Once refreshes have moved on to       *)
(* today, the cache has all that there was of yesterday.                    *)
NothingMissedNearMidnight ==
    /\ refreshDate = today
    /\ \A w \in Threads : ~Refreshing(w)
    => {t \in published : Date(t) = today - 1} \subseteq objects
=============================================================================
