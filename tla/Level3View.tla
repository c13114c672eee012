------------------------------- MODULE Level3View -------------------------------
(***************************************************************************)
(* How a Level 3 radar product view comes to show the time selected for it: *)
(* RadarProductView and Level3RadialView on one side, and on the other      *)
(* RadarProductManagerImpl::GetLevel3ProductRecord, which answers at once   *)
(* and sees to what is missing in the background.                           *)
(*                                                                          *)
(* Three kinds of threads take part.  The GUI thread selects times and      *)
(* handles the queued signals, the view's own pool (one thread, under       *)
(* sweepMutex_) computes sweeps, and the manager's threadPool_ lists times  *)
(* and loads records.  selectedTime_ is shared by the first two without a   *)
(* lock.                                                                    *)
(*                                                                          *)
(* One view is modelled; what other views and the cache do to it is the     *)
(* environment: they load records of the same product, and records expire. *)
(* The days around a selected time that a query covers are one: either all  *)
(* are listed or some are not.                                              *)
(***************************************************************************)
EXTENDS Integers, Sequences, FiniteSets

CONSTANTS
    Times,      \* times of the product's records
    Published,  \* the times the provider lists when it is first asked
    Day,        \* how far from its request a record may be
    Now,        \* the time of the clock
    MaxWork     \* bound: updates, listings, loads and signals under way

Latest == 0     \* the default time point: whatever is the latest

ASSUME ViewAssumption ==
    /\ Times \subseteq Nat \ {Latest}
    /\ Published \subseteq Times
    /\ Day \in Nat /\ Now \in Nat /\ MaxWork \in Nat \ {0}

(* Finitely many records: any of their times have a first and a last.       *)
ASSUME TimesAreFinite ==
    \A S \in SUBSET Times : S # {} =>
        /\ \E k \in S : \A l \in S : k <= l
        /\ \E k \in S : \A l \in S : l <= k

Requests == Times \cup {Latest}

VARIABLES
    selected,  \* selectedTime_
    status,    \* loadStatus_
    shown,     \* the time of graphicMessage_, or Latest before the first
    updates,   \* calls of ComputeSweep waiting in the view's pool
    compute,   \* the call of ComputeSweep that is running
    listed,    \* the provider has cached the days that requests are about
    keys,      \* the keys of the product's record map
    alive,     \* the times whose records the weak references still find
    listings,  \* request -> PopulateLevel3ProductTimes tasks posted for it
    loads,     \* time -> loads posted for it
    signals,   \* signals queued for the GUI thread, oldest first
    failed,    \* history: the times whose last load brought no record
    missed     \* history: a reload was announced to the view too early

view == <<selected, status, shown, updates, compute>>
store == <<listed, keys, alive, listings, loads>>
viewVars == <<selected, status, shown, updates, compute, listed, keys, alive,
              listings, loads, signals, failed, missed>>

Statuses == {"ProductNotLoaded", "ListingProducts", "LoadingProduct",
             "ProductLoaded", "ProductNotAvailable"}

(* ComputeSweep before it asks for the data, and with the answer.           *)
Idle == [pc |-> "idle"]
Computations ==
    {Idle}
      \cup [pc : {"ask"}, requested : Requests]
      \cup [pc : {"answered"}, requested : Requests, found : Requests,
            status : Statuses]

Signals == [kind : {"DataReloaded"}, time : Times]
             \cup [kind : {"ProductTimesPopulated"}, time : Requests]

ViewTypeOK ==
    /\ selected \in Requests
    /\ status \in Statuses
    /\ shown \in Requests
    /\ updates \in 0 .. MaxWork
    /\ compute \in Computations
    /\ listed \in BOOLEAN
    /\ keys \subseteq Times /\ alive \subseteq keys
    /\ listings \in [Requests -> 0 .. MaxWork]
    /\ loads \in [Times -> 0 .. MaxWork]
    /\ signals \in Seq(Signals) /\ Len(signals) <= MaxWork
    /\ failed \subseteq Times
    /\ missed \in BOOLEAN

(* A view is created, given a time and initialized.                         *)
ViewInit ==
    /\ selected \in Requests
    /\ status = "ProductNotLoaded"
    /\ shown = Latest
    /\ updates = 1
    /\ compute = Idle
    /\ listed = FALSE
    /\ keys = {}
    /\ alive = {}
    /\ listings = [r \in Requests |-> 0]
    /\ loads = [t \in Times |-> 0]
    /\ signals = <<>>
    /\ failed = {}
    /\ missed = FALSE

----------------------------------------------------------------------------
(* Work under way.  No step of the view, the manager or the signals adds    *)
(* to it, but that a call is still under way beside what it has asked for:  *)
(* an update becomes a call, that asks for at most one listing or load,     *)
(* that becomes at most one signal, and that at most one update.            *)
Pieces(kind, about, n) == {<<kind, about, i>> : i \in 1 .. n}

UnderWay ==
    Pieces("update", Latest, updates)
      \cup Pieces("compute", Latest, IF compute = Idle THEN 0 ELSE 1)
      \cup (UNION {Pieces("listing", r, listings[r]) : r \in Requests})
      \cup (UNION {Pieces("load", t, loads[t]) : t \in Times})
      \cup Pieces("signal", Latest, Len(signals))

Work == Cardinality(UnderWay)

----------------------------------------------------------------------------
(* The GUI thread.                                                          *)

(* MapWidget::SelectTime: the selection, then an update.                    *)
SelectViewTime(r) ==
    /\ Work < MaxWork
    /\ selected' = r
    /\ updates' = updates + 1
    /\ UNCHANGED <<status, shown, compute, store, signals, failed, missed>>

(* Mutant of Concerns: signals about the latest data are overlooked.        *)
ConcernsNotLatest(signal) == signal.time = selected /\ selected # Latest

(* The view's handlers update it when a signal is about what is selected.   *)
Concerns(signal) == signal.time = selected

HandleSignal ==
    /\ signals # <<>>
    /\ signals' = Tail(signals)
    /\ updates' = IF Concerns(Head(signals)) THEN updates + 1 ELSE updates
    /\ missed' = \/ missed
                 \/ /\ Head(signals).kind = "DataReloaded"
                    /\ compute.pc = "answered"
                    /\ compute.found = Head(signals).time
                    /\ ~Concerns(Head(signals))
    /\ UNCHANGED <<selected, status, shown, compute, store, failed>>

----------------------------------------------------------------------------
(* ComputeSweep, in the view's pool.                                        *)

BeginComputeSweep ==
    /\ compute = Idle
    /\ updates > 0
    /\ updates' = updates - 1
    /\ compute' = [pc |-> "ask", requested |-> selected]
    /\ missed' = FALSE
    /\ UNCHANGED <<selected, status, shown, store, signals, failed>>

(* GetBoundedElementPointer: the last key that is not after r; before all   *)
(* keys, the first one.  The latest request takes the last of all.          *)
Bounded(r) ==
    LET notAfter == {k \in keys : r = Latest \/ k <= r}
    IN  IF notAfter # {} THEN CHOOSE k \in notAfter : \A l \in notAfter : l <= k
                         ELSE CHOOSE k \in keys : \A l \in keys : k <= l

(* The record is within a day of the request, or of now.                    *)
WithinDay(k, r) ==
    IF r = Latest THEN k > Now - Day ELSE k - r < Day /\ r - k < Day

Answer(found, answer) ==
    compute' = [pc |-> "answered", requested |-> compute.requested,
                found |-> found, status |-> answer]

(* The days around the request are not all cached: list them.               *)
AskListing ==
    /\ ~listed
    /\ listings' = [listings EXCEPT ![compute.requested] = @ + 1]
    /\ Answer(compute.requested, "ListingProducts")
    /\ UNCHANGED <<loads, failed>>

AskNotAvailable ==
    /\ listed
    /\ keys # {} => ~WithinDay(Bounded(compute.requested), compute.requested)
    /\ Answer(compute.requested, "ProductNotAvailable")
    /\ UNCHANGED <<listings, loads, failed>>

(* The record is found alive, or has expired and is loaded again.           *)
AskRecord ==
    /\ listed
    /\ keys # {}
    /\ LET found == Bounded(compute.requested)
       IN  /\ WithinDay(found, compute.requested)
           /\ IF found \in alive
              THEN /\ Answer(found, "ProductLoaded")
                   /\ UNCHANGED <<loads, failed>>
              ELSE /\ loads' = [loads EXCEPT ![found] = @ + 1]
                   /\ failed' = failed \ {found}
                   /\ Answer(found, "LoadingProduct")
    /\ UNCHANGED listings

GetLevel3ProductRecord ==
    /\ compute.pc = "ask"
    /\ AskListing \/ AskNotAvailable \/ AskRecord
    /\ UNCHANGED <<selected, status, shown, updates, listed, keys, alive, signals,
                   missed>>

(* Mutant of AcceptAnswer: the time that was found is not selected.         *)
AcceptAnswerKeepingSelection ==
    /\ compute.pc = "answered"
    /\ status' = compute.status
    /\ shown' = IF compute.status = "ProductLoaded" THEN compute.found ELSE shown
    /\ compute' = Idle
    /\ UNCHANGED <<selected, updates, store, signals, failed, missed>>

(* The rest of ComputeSweep: a different time that was found is selected,   *)
(* and a message is kept and drawn.                                         *)
AcceptAnswer ==
    /\ compute.pc = "answered"
    /\ status' = compute.status
    /\ selected' = IF compute.requested # compute.found THEN compute.found ELSE selected
    /\ shown' = IF compute.status = "ProductLoaded" THEN compute.found ELSE shown
    /\ compute' = Idle
    /\ UNCHANGED <<updates, store, signals, failed, missed>>

----------------------------------------------------------------------------
(* The manager's threadPool_.                                               *)

(* Mutant of Populated: only a listing that succeeds is announced.          *)
PopulatedQuietly(r) ==
    signals' = IF listed'
               THEN Append(signals, [kind |-> "ProductTimesPopulated", time |-> r])
               ELSE signals

(* Mutant of Populated: every day that was listed is announced.             *)
PopulatedDaily(r) ==
    LET signal == [kind |-> "ProductTimesPopulated", time |-> r]
    IN  signals' = signals \o <<signal, signal, signal>>

(* The end of a listing, announced whether it succeeded or not.             *)
Populated(r) ==
    signals' = Append(signals, [kind |-> "ProductTimesPopulated", time |-> r])

EndListing(r) ==
    /\ listings[r] > 0
    /\ listings' = [listings EXCEPT ![r] = @ - 1]
    /\ Populated(r)
    /\ UNCHANGED <<view, alive, loads, failed, missed>>

(* The provider lists every day, or fails for some and caches nothing new.  *)
PopulateLevel3ProductTimes(r) ==
    /\ listed' = TRUE
    /\ keys' = keys \cup Published
    /\ EndListing(r)

PopulateFails(r) ==
    /\ UNCHANGED <<listed, keys>>
    /\ EndListing(r)

(* LoadProviderData through RequestComplete: the record is stored, and its  *)
(* reload announced.                                                        *)
LoadRecord(t) ==
    /\ loads[t] > 0
    /\ loads' = [loads EXCEPT ![t] = @ - 1]
    /\ alive' = alive \cup {t}
    /\ signals' = Append(signals, [kind |-> "DataReloaded", time |-> t])
    /\ failed' = failed \ {t}
    /\ UNCHANGED <<view, listed, keys, listings, missed>>

(* There is no such object, or it is not valid: nothing is announced.       *)
LoadFails(t) ==
    /\ loads[t] > 0
    /\ loads' = [loads EXCEPT ![t] = @ - 1]
    /\ failed' = failed \cup {t}
    /\ UNCHANGED <<view, listed, keys, alive, listings, signals, missed>>

----------------------------------------------------------------------------
(* The environment.                                                         *)

(* Another view of the product asks for a record that has expired.          *)
OtherViewLoads(t) ==
    /\ Work < MaxWork
    /\ t \in keys \ alive
    /\ loads' = [loads EXCEPT ![t] = @ + 1]
    /\ failed' = failed \ {t}
    /\ UNCHANGED <<view, listed, keys, alive, listings, signals, missed>>

(* Other records push one out of the cache.  A queued signal holds its own. *)
RecordExpires(t) ==
    /\ t \in alive
    /\ \A i \in DOMAIN signals :
          signals[i] # [kind |-> "DataReloaded", time |-> t]
    /\ alive' = alive \ {t}
    /\ UNCHANGED <<view, listed, keys, listings, loads, signals, failed, missed>>

(* A refresh finds a new object.  Its key enters the map with the next      *)
(* request; nobody looks before.                                            *)
NewObject(t) ==
    /\ t \notin keys
    /\ keys' = keys \cup {t}
    /\ UNCHANGED <<view, listed, alive, listings, loads, signals, failed, missed>>

----------------------------------------------------------------------------
ComputeStep == BeginComputeSweep \/ GetLevel3ProductRecord \/ AcceptAnswer

ViewNext ==
    \/ \E r \in Requests : SelectViewTime(r)
    \/ HandleSignal
    \/ ComputeStep
    \/ \E r \in Requests : PopulateLevel3ProductTimes(r) \/ PopulateFails(r)
    \/ \E t \in Times :
          \/ LoadRecord(t)
          \/ LoadFails(t)
          \/ OtherViewLoads(t)
          \/ RecordExpires(t)
          \/ NewObject(t)

(* The threads run what is queued for them, and a provider that is asked to *)
(* list again and again does so in the end.                                 *)
ViewFairness ==
    /\ WF_viewVars(HandleSignal)
    /\ WF_viewVars(ComputeStep)
    /\ \A r \in Requests :
          /\ WF_viewVars(PopulateLevel3ProductTimes(r) \/ PopulateFails(r))
          /\ SF_viewVars(PopulateLevel3ProductTimes(r))
    /\ \A t \in Times : WF_viewVars(LoadRecord(t) \/ LoadFails(t))

ViewSpec == ViewInit /\ [][ViewNext]_viewVars /\ ViewFairness

----------------------------------------------------------------------------
(* Nothing is queued for the view and nothing runs.                         *)
AtRest == updates = 0 /\ compute = Idle

Queued(kind, r) ==
    \E i \in DOMAIN signals : signals[i] = [kind |-> kind, time |-> r]

(* A view that waits for a listing is going to be told: a listing for what  *)
(* it has selected now is posted, or its signal is on the way, whatever     *)
(* was selected while earlier listings ran.                                 *)
ListingIsAwaited ==
    AtRest /\ status = "ListingProducts" =>
        listings[selected] > 0 \/ Queued("ProductTimesPopulated", selected)

(* A view that waits for a record is going to be told, with two exceptions: *)
(* the load brought nothing, or its end was announced before the view had   *)
(* taken over the time that was found.                                      *)
LoadingIsAwaited ==
    AtRest /\ status = "LoadingProduct" =>
        \/ /\ selected \in Times
           /\ loads[selected] > 0 \/ Queued("DataReloaded", selected)
        \/ selected \in failed
        \/ missed

(* A view that has loaded shows the time it has selected, though the GUI    *)
(* thread and the sweep computation both write the selection.               *)
LoadedShowsSelected ==
    AtRest /\ status = "ProductLoaded" => shown = selected

(* A view that waits is going to be told.                                   *)
WaitingIsAwaited == ListingIsAwaited /\ LoadingIsAwaited

(* A view does not list for ever: a listing that failed is asked for again  *)
(* until one succeeds, and the view moves on.                               *)
ListingEnds == status = "ListingProducts" ~> status # "ListingProducts"

(* The comment in Level3ProductView: if the data associated with the        *)
(* currently selected time is reloaded, the view is updated.  So a view     *)
(* that goes on waiting for a record waits for one that was not loaded.     *)
ReloadUpdatesView ==
    AtRest /\ status = "LoadingProduct" =>
        \/ /\ selected \in Times
           /\ loads[selected] > 0 \/ Queued("DataReloaded", selected)
        \/ selected \in failed
=============================================================================
