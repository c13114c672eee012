------------------------------ MODULE Views_proofs ------------------------------
(***************************************************************************)
(* The view of a Level 3 product, for any times and any amount of work      *)
(* under way.                                                               *)
(*                                                                          *)
(* A view that waits is going to be told, and one that has loaded shows     *)
(* what it has selected.  The argument: while no update is queued, the time *)
(* that the running computation asks about is the one selected, so that the *)
(* listing or load it posts is announced to a view that still wants it, or  *)
(* to one that has an update queued.  And there is never more work under    *)
(* way than the environment may add: a call is not counted once it has      *)
(* asked, then no step of the view or the manager raises the number.        *)
(***************************************************************************)
EXTENDS Level3View, Lists_proofs

ViewTypes ==
    /\ selected \in Requests
    /\ status \in Statuses
    /\ updates \in Nat
    /\ compute \in Computations
    /\ keys \subseteq Times
    /\ listings \in [Requests -> Nat]
    /\ loads \in [Times -> Nat]
    /\ signals \in Seq(Signals)
    /\ failed \subseteq Times
    /\ missed \in BOOLEAN

(* A listing for r, a record of t, or what tells of it is under way.        *)
ListingComes(r) == listings[r] > 0 \/ Queued("ProductTimesPopulated", r)
RecordComes(t) ==
    t \in Times /\ (loads[t] > 0 \/ Queued("DataReloaded", t))

(* The computation is about what is selected, unless an update is queued.   *)
OwnSelection == updates = 0 /\ compute # Idle => selected = compute.requested

(* A computation that has asked for a listing will be told of it.           *)
AskedListing ==
    updates = 0 /\ compute.pc = "answered" /\ compute.status = "ListingProducts" =>
        compute.found = compute.requested /\ ListingComes(compute.requested)

(* A computation that has asked for a record will be told of it, with the    *)
(* two exceptions.                                                          *)
AskedRecord ==
    updates = 0 /\ compute.pc = "answered" /\ compute.status = "LoadingProduct" =>
        RecordComes(compute.found) \/ compute.found \in failed \/ missed

Computing == OwnSelection /\ AskedListing /\ AskedRecord

WaitInv == ViewTypes /\ Computing /\ WaitingIsAwaited /\ LoadedShowsSelected

----------------------------------------------------------------------------
(* The queue of signals.                                                    *)

LEMMA SignalAdded ==
    ASSUME ViewTypes, NEW signal \in Signals, signals' = Append(signals, signal)
    PROVE  /\ signals' \in Seq(Signals)
           /\ \A kind, r : Queued(kind, r) => Queued(kind, r)'
           /\ \A kind, r : signal = [kind |-> kind, time |-> r] => Queued(kind, r)'
  <1>1. signals' \in Seq(Signals) /\ DOMAIN signals' = 1 .. Len(signals) + 1
    BY DEF ViewTypes
  <1>2. /\ \A i \in DOMAIN signals : i \in DOMAIN signals' /\ signals'[i] = signals[i]
        /\ Len(signals) + 1 \in DOMAIN signals'
        /\ signals'[Len(signals) + 1] = signal
    BY DEF ViewTypes
  <1> QED  BY <1>1, <1>2 DEF Queued

LEMMA SignalTaken ==
    ASSUME ViewTypes, signals # <<>>, signals' = Tail(signals)
    PROVE  /\ Head(signals) \in Signals /\ signals' \in Seq(Signals)
           /\ \A kind, r : Queued(kind, r) =>
                 Queued(kind, r)' \/ Head(signals) = [kind |-> kind, time |-> r]
  <1>1. Head(signals) \in Signals /\ signals' \in Seq(Signals)
    BY DEF ViewTypes
  <1>2. ASSUME NEW kind, NEW r, NEW i \in DOMAIN signals,
               signals[i] = [kind |-> kind, time |-> r],
               Head(signals) # [kind |-> kind, time |-> r]
        PROVE  Queued(kind, r)'
    <2>1. i # 1 /\ i \in 1 .. Len(signals)
      BY <1>2 DEF ViewTypes
    <2>2. i - 1 \in DOMAIN signals' /\ signals'[i - 1] = signals[i]
      BY <2>1 DEF ViewTypes
    <2> QED  BY <1>2, <2>2 DEF Queued
  <1> QED  BY <1>1, <1>2 DEF Queued

----------------------------------------------------------------------------
LEMMA WaitInit == ViewInit => WaitInv
  <1> SUFFICES ASSUME ViewInit PROVE WaitInv
    OBVIOUS
  <1>1. ViewTypes
    <2>1. signals \in Seq(Signals) /\ compute \in Computations /\ updates \in Nat
      BY DEF ViewInit, Computations
    <2>2. listings \in [Requests -> Nat] /\ loads \in [Times -> Nat]
      BY DEF ViewInit
    <2>3. status \in Statuses /\ missed \in BOOLEAN
      BY DEF ViewInit, Statuses
    <2> QED  BY <2>1, <2>2, <2>3 DEF ViewInit, ViewTypes
  <1>2. Computing
    BY DEF ViewInit, Computing, OwnSelection, AskedListing, AskedRecord, Idle
  <1>3. WaitingIsAwaited /\ LoadedShowsSelected
    BY DEF ViewInit, WaitingIsAwaited, ListingIsAwaited, LoadingIsAwaited,
           LoadedShowsSelected
  <1> QED  BY <1>1, <1>2, <1>3 DEF WaitInv

(* Work that goes on beside the view: what it waits for is still to come.   *)
LEMMA BesideView ==
    ASSUME WaitInv, ViewTypes', UNCHANGED view,
           missed => missed',
           \A r \in Requests : ListingComes(r) => ListingComes(r)',
           \A t \in Times : RecordComes(t) \/ t \in failed =>
                               RecordComes(t)' \/ t \in failed'
    PROVE  WaitInv'
  <1> USE DEF WaitInv, view
  <1>1. OwnSelection'
    BY DEF Computing, OwnSelection
  <1>2. AskedListing'
    <2>1. compute.pc = "answered" => compute.requested \in Requests
      BY DEF ViewTypes, Computations, Idle
    <2> QED  BY <2>1 DEF Computing, AskedListing
  <1>3. AskedRecord'
    <2>1. compute.found \notin Times =>
             ~RecordComes(compute.found) /\ compute.found \notin failed
      BY DEF RecordComes, ViewTypes
    <2> QED  BY <2>1 DEF Computing, AskedRecord
  <1>4. WaitingIsAwaited'
    <2>1. ListingIsAwaited'
      BY DEF WaitingIsAwaited, ListingIsAwaited, AtRest, ListingComes, ViewTypes
    <2>2. LoadingIsAwaited'
      <3>1. selected \notin Times => ~RecordComes(selected) /\ selected \notin failed
        BY DEF RecordComes, ViewTypes
      <3> QED
        BY <3>1 DEF WaitingIsAwaited, LoadingIsAwaited, AtRest, RecordComes
    <2> QED  BY <2>1, <2>2 DEF WaitingIsAwaited
  <1>5. LoadedShowsSelected'
    BY DEF LoadedShowsSelected, AtRest
  <1> QED  BY <1>1, <1>2, <1>3, <1>4, <1>5 DEF Computing

----------------------------------------------------------------------------
(* Steps on the GUI thread.                                                 *)

LEMMA SelectKeepsInv ==
    ASSUME WaitInv, NEW r \in Requests, SelectViewTime(r) PROVE WaitInv'
  <1>1. ViewTypes' /\ updates' # 0
    BY DEF WaitInv, ViewTypes, SelectViewTime, store
  <1>2. Computing' /\ WaitingIsAwaited' /\ LoadedShowsSelected'
    BY <1>1 DEF Computing, OwnSelection, AskedListing, AskedRecord, AtRest,
                WaitingIsAwaited, ListingIsAwaited, LoadingIsAwaited, LoadedShowsSelected
  <1> QED  BY <1>1, <1>2 DEF WaitInv

(* A signal that concerns the view queues an update.  One that does not is   *)
(* not what a view at rest waits for, nor what a computation about the       *)
(* selected time has asked for; the reload it may have asked for is missed.  *)
LEMMA SignalKeepsInv ==
    ASSUME WaitInv, HandleSignal PROVE WaitInv'
  <1> USE DEF WaitInv
  <1>1. /\ signals # <<>> /\ signals' = Tail(signals)
        /\ updates' = IF Concerns(Head(signals)) THEN updates + 1 ELSE updates
        /\ UNCHANGED <<selected, status, shown, compute, listed, keys, alive,
                       listings, loads, failed>>
        /\ missed' \in BOOLEAN /\ (missed => missed')
    BY DEF HandleSignal, store, ViewTypes
  <1>2. /\ Head(signals) \in Signals /\ signals' \in Seq(Signals)
        /\ \A kind, r : Queued(kind, r) =>
              Queued(kind, r)' \/ Head(signals) = [kind |-> kind, time |-> r]
    BY <1>1, SignalTaken
  <1>3. ViewTypes'
    BY <1>1, <1>2 DEF ViewTypes
  <1>4. CASE updates' # 0
    BY <1>3, <1>4 DEF Computing, OwnSelection, AskedListing, AskedRecord, AtRest,
                WaitingIsAwaited, ListingIsAwaited, LoadingIsAwaited, LoadedShowsSelected
  <1>5. CASE updates' = 0
    <2>1. updates = 0 /\ Head(signals).time # selected
      BY <1>1, <1>5 DEF ViewTypes, Concerns
    <2>2. /\ ListingComes(selected) => ListingComes(selected)'
          /\ RecordComes(selected) => RecordComes(selected)'
      BY <1>1, <1>2, <2>1 DEF ListingComes, RecordComes
    <2>3. OwnSelection'
      BY <1>1, <2>1 DEF Computing, OwnSelection
    <2>4. AskedListing'
      <3>1. compute.pc = "answered" => compute.requested = selected
        BY <2>1 DEF Computing, OwnSelection, Idle
      <3> QED  BY <1>1, <2>1, <2>2, <3>1 DEF Computing, AskedListing
    <2>5. AskedRecord'
      <3> SUFFICES ASSUME compute.pc = "answered", compute.status = "LoadingProduct"
                   PROVE  RecordComes(compute.found)' \/ compute.found \in failed \/ missed'
        BY <1>1 DEF AskedRecord, RecordComes
      <3>1. RecordComes(compute.found) \/ compute.found \in failed \/ missed
        BY <2>1 DEF Computing, AskedRecord
      <3>2. ASSUME RecordComes(compute.found), ~RecordComes(compute.found)'
            PROVE  missed'
        <4>1. Head(signals) = [kind |-> "DataReloaded", time |-> compute.found]
          BY <1>1, <1>2, <3>2 DEF RecordComes
        <4> QED  BY <2>1, <4>1 DEF HandleSignal, Concerns
      <3> QED  BY <1>1, <3>1, <3>2
    <2>6. WaitingIsAwaited'
      BY <1>1, <2>1, <2>2 DEF WaitingIsAwaited, ListingIsAwaited, LoadingIsAwaited,
                              AtRest, ListingComes, RecordComes
    <2>7. LoadedShowsSelected'
      BY <1>1, <2>1 DEF LoadedShowsSelected, AtRest
    <2> QED  BY <1>3, <2>3, <2>4, <2>5, <2>6, <2>7 DEF Computing
  <1> QED  BY <1>4, <1>5

----------------------------------------------------------------------------
(* Steps of the computation.                                                *)

LEMMA BeginKeepsInv ==
    ASSUME WaitInv, BeginComputeSweep PROVE WaitInv'
  <1>1. /\ compute' = [pc |-> "ask", requested |-> selected]
        /\ updates' = updates - 1 /\ updates > 0 /\ missed' = FALSE
        /\ UNCHANGED <<selected, status, shown, listed, keys, alive, listings, loads,
                       signals, failed>>
    BY DEF BeginComputeSweep, store
  <1>2. compute' \in Computations
    BY <1>1 DEF WaitInv, ViewTypes, Computations
  <1>3. ViewTypes'
    <2>1. updates' \in Nat
      BY <1>1 DEF WaitInv, ViewTypes
    <2>2. missed' \in BOOLEAN
      BY <1>1
    <2> HIDE DEF Idle
    <2> QED  BY <1>1, <1>2, <2>1, <2>2 DEF WaitInv, ViewTypes
  <1>4. Computing'
    BY <1>1 DEF Computing, OwnSelection, AskedListing, AskedRecord
  <1>5. WaitingIsAwaited' /\ LoadedShowsSelected'
    BY <1>1 DEF WaitingIsAwaited, ListingIsAwaited, LoadingIsAwaited,
                LoadedShowsSelected, AtRest, Idle
  <1> QED  BY <1>3, <1>4, <1>5 DEF WaitInv

(* The record that is found for a request is one of those there are.        *)
LEMMA BoundedIsKey ==
    ASSUME keys \subseteq Times, keys # {}, NEW r \in Requests
    PROVE  Bounded(r) \in keys
  <1> DEFINE notAfter == {k \in keys : r = Latest \/ k <= r}
  <1>1. CASE notAfter # {}
    <2>1. \E k \in notAfter : \A l \in notAfter : l <= k
      BY <1>1, TimesAreFinite
    <2> QED  BY <1>1, <2>1 DEF Bounded
  <1>2. CASE notAfter = {}
    <2>1. \E k \in keys : \A l \in keys : k <= l
      BY TimesAreFinite
    <2> QED  BY <1>2, <2>1 DEF Bounded
  <1> QED  BY <1>1, <1>2

LEMMA AskKeepsInv ==
    ASSUME WaitInv, GetLevel3ProductRecord PROVE WaitInv'
  <1> USE DEF WaitInv
  <1>1. /\ compute.pc = "ask" /\ compute.requested \in Requests /\ compute # Idle
        /\ UNCHANGED <<selected, status, shown, updates, listed, keys, alive, signals,
                       missed>>
    BY DEF GetLevel3ProductRecord, ViewTypes, Computations, Idle
  <1>2. PICK requested \in Requests : requested = compute.requested
    BY <1>1
  <1>3. PICK found \in Requests, answer \in Statuses :
           /\ compute' = [pc |-> "answered", requested |-> requested,
                          found |-> found, status |-> answer]
           /\ answer = "ListingProducts" =>
                 found = requested /\ ListingComes(requested)'
           /\ answer = "LoadingProduct" => RecordComes(found)'
           /\ listings' \in [Requests -> Nat] /\ loads' \in [Times -> Nat]
           /\ failed' \subseteq Times
    <2>1. CASE AskListing
      <3>1. listings' \in [Requests -> Nat] /\ listings'[requested] > 0
        BY <1>2, <2>1 DEF AskListing, ViewTypes
      <3>2. ListingComes(requested)'
        BY <3>1 DEF ListingComes
      <3>3. /\ compute' = [pc |-> "answered", requested |-> requested,
                           found |-> requested, status |-> "ListingProducts"]
            /\ UNCHANGED <<loads, failed>>
        BY <1>2, <2>1 DEF AskListing, Answer
      <3> QED  BY <3>1, <3>2, <3>3 DEF Statuses, ViewTypes
    <2>2. CASE AskNotAvailable
      <3>1. /\ compute' = [pc |-> "answered", requested |-> requested,
                           found |-> requested, status |-> "ProductNotAvailable"]
            /\ UNCHANGED <<listings, loads, failed>>
        BY <1>2, <2>2 DEF AskNotAvailable, Answer
      <3> QED  BY <3>1 DEF Statuses, ViewTypes
    <2>3. CASE AskRecord
      <3>1. PICK found \in Times : found = Bounded(requested)
        BY <1>2, <2>3, BoundedIsKey DEF AskRecord, ViewTypes
      <3>2. listings' = listings
        BY <2>3 DEF AskRecord
      <3>3. CASE found \in alive
        <4>1. /\ compute' = [pc |-> "answered", requested |-> requested,
                             found |-> found, status |-> "ProductLoaded"]
              /\ UNCHANGED <<loads, failed>>
          BY <1>2, <2>3, <3>1, <3>3 DEF AskRecord, Answer
        <4> QED  BY <3>1, <3>2, <4>1 DEF Statuses, ViewTypes, Requests
      <3>4. CASE found \notin alive
        <4>1. /\ compute' = [pc |-> "answered", requested |-> requested,
                             found |-> found, status |-> "LoadingProduct"]
              /\ loads' = [loads EXCEPT ![found] = @ + 1]
              /\ failed' = failed \ {found}
          BY <1>2, <2>3, <3>1, <3>4 DEF AskRecord, Answer
        <4>2. RecordComes(found)' /\ loads' \in [Times -> Nat]
          BY <3>1, <4>1 DEF RecordComes, ViewTypes
        <4> QED  BY <3>1, <3>2, <4>1, <4>2 DEF Statuses, ViewTypes, Requests
      <3> QED  BY <3>3, <3>4
    <2> QED  BY <2>1, <2>2, <2>3 DEF GetLevel3ProductRecord
  <1>4. /\ compute' \in Computations /\ compute' # Idle
        /\ compute'.pc = "answered" /\ compute'.requested = requested
        /\ compute'.found = found /\ compute'.status = answer
    BY <1>1, <1>3 DEF Computations, Idle
  <1>5. ViewTypes'
    BY <1>1, <1>3, <1>4 DEF ViewTypes
  <1>6. OwnSelection'
    BY <1>1, <1>2, <1>4 DEF Computing, OwnSelection
  <1>7. AskedListing'
    BY <1>3, <1>4 DEF AskedListing, ListingComes
  <1>8. AskedRecord'
    BY <1>3, <1>4 DEF AskedRecord, RecordComes
  <1>9. WaitingIsAwaited' /\ LoadedShowsSelected'
    BY <1>4 DEF WaitingIsAwaited, ListingIsAwaited, LoadingIsAwaited,
                LoadedShowsSelected, AtRest
  <1> QED  BY <1>5, <1>6, <1>7, <1>8, <1>9 DEF Computing

LEMMA AcceptKeepsInv ==
    ASSUME WaitInv, AcceptAnswer PROVE WaitInv'
  <1> USE DEF WaitInv
  <1>1. /\ compute.pc = "answered" /\ compute # Idle
        /\ compute.found \in Requests /\ compute.status \in Statuses
    BY DEF AcceptAnswer, ViewTypes, Computations, Idle
  <1>2. /\ status' = compute.status /\ compute' = Idle
        /\ selected' = IF compute.requested # compute.found THEN compute.found
                                                            ELSE selected
        /\ shown' = IF compute.status = "ProductLoaded" THEN compute.found ELSE shown
        /\ UNCHANGED <<updates, listed, keys, alive, listings, loads, signals, failed,
                       missed>>
    BY DEF AcceptAnswer, store
  <1>3. Idle \in Computations /\ Idle.pc # "answered"
    BY DEF Computations, Idle
  <1>4. ViewTypes'
    BY <1>1, <1>2, <1>3 DEF ViewTypes
  <1>5. Computing'
    BY <1>2, <1>3 DEF Computing, OwnSelection, AskedListing, AskedRecord
  <1>6. updates = 0 => selected' = compute.found
    BY <1>1, <1>2 DEF Computing, OwnSelection
  <1>7. LoadedShowsSelected'
    BY <1>2, <1>6 DEF LoadedShowsSelected, AtRest
  <1>8. ListingIsAwaited'
    BY <1>1, <1>2, <1>6 DEF ListingIsAwaited, AtRest, Computing, AskedListing,
                            ListingComes, Queued
  <1>9. LoadingIsAwaited'
    BY <1>1, <1>2, <1>6 DEF LoadingIsAwaited, AtRest, Computing, AskedRecord,
                            RecordComes, Queued
  <1> QED  BY <1>4, <1>5, <1>7, <1>8, <1>9 DEF WaitingIsAwaited

----------------------------------------------------------------------------
(* Steps beside the view.                                                   *)

LEMMA ListingKeepsInv ==
    ASSUME WaitInv, NEW r \in Requests,
           PopulateLevel3ProductTimes(r) \/ PopulateFails(r)
    PROVE  WaitInv'
  <1> DEFINE signal == [kind |-> "ProductTimesPopulated", time |-> r]
  <1>1. /\ listings[r] > 0 /\ listings' = [listings EXCEPT ![r] = @ - 1]
        /\ signals' = Append(signals, signal)
        /\ UNCHANGED <<view, alive, loads, failed, missed>>
        /\ keys' = keys \/ keys' = keys \cup Published
    BY DEF PopulateLevel3ProductTimes, PopulateFails, EndListing, Populated
  <1>2. /\ signals' \in Seq(Signals)
        /\ \A kind, q : Queued(kind, q) => Queued(kind, q)'
        /\ Queued("ProductTimesPopulated", r)'
    <2>1. signal \in Signals
      BY DEF Signals
    <2>2. signal = [kind |-> "ProductTimesPopulated", time |-> r]
      OBVIOUS
    <2> HIDE DEF signal
    <2> QED  BY <1>1, <2>1, <2>2, SignalAdded DEF WaitInv
  <1>3. ViewTypes'
    <2>1. listings' \in [Requests -> Nat]
      BY <1>1 DEF WaitInv, ViewTypes
    <2>2. keys' \subseteq Times
      BY <1>1, ViewAssumption DEF WaitInv, ViewTypes
    <2>3. UNCHANGED <<selected, status, updates, compute, loads, failed, missed>>
      BY <1>1 DEF view
    <2> QED  BY <1>2, <2>1, <2>2, <2>3 DEF WaitInv, ViewTypes
  <1>4. \A q \in Requests : ListingComes(q) => ListingComes(q)'
    BY <1>1, <1>2 DEF ListingComes, WaitInv, ViewTypes
  <1>5. \A t \in Times : RecordComes(t) => RecordComes(t)'
    BY <1>1, <1>2 DEF RecordComes
  <1> QED  BY <1>1, <1>3, <1>4, <1>5, BesideView

LEMMA StoreKeepsInv ==
    ASSUME WaitInv, NEW t \in Times,
           \/ LoadRecord(t) \/ LoadFails(t) \/ OtherViewLoads(t)
           \/ RecordExpires(t) \/ NewObject(t)
    PROVE  WaitInv'
  <1> USE DEF WaitInv
  <1>1. CASE LoadRecord(t)
    <2> DEFINE signal == [kind |-> "DataReloaded", time |-> t]
    <2>1. /\ loads[t] > 0 /\ loads' = [loads EXCEPT ![t] = @ - 1]
          /\ signals' = Append(signals, signal) /\ failed' = failed \ {t}
          /\ UNCHANGED <<view, keys, listings, missed>>
      BY <1>1 DEF LoadRecord
    <2>2. /\ signals' \in Seq(Signals)
          /\ \A kind, q : Queued(kind, q) => Queued(kind, q)'
          /\ Queued("DataReloaded", t)'
      <3>1. signal \in Signals
        BY DEF Signals
      <3> QED  BY <2>1, <3>1, SignalAdded
    <2>3. ViewTypes'
      BY <2>1, <2>2 DEF ViewTypes, view
    <2>4. \A q \in Requests : ListingComes(q) => ListingComes(q)'
      BY <2>1, <2>2 DEF ListingComes
    <2>5. \A u \in Times : RecordComes(u) \/ u \in failed =>
                               RecordComes(u)' \/ u \in failed'
      BY <2>1, <2>2 DEF RecordComes, ViewTypes
    <2> QED  BY <2>1, <2>3, <2>4, <2>5, BesideView
  <1>2. CASE LoadFails(t)
    <2>1. /\ loads' = [loads EXCEPT ![t] = @ - 1] /\ loads[t] > 0
          /\ failed' = failed \cup {t}
          /\ UNCHANGED <<view, keys, listings, signals, missed>>
      BY <1>2 DEF LoadFails
    <2>2. ViewTypes'
      BY <2>1 DEF ViewTypes, view
    <2>3. \A q \in Requests : ListingComes(q) => ListingComes(q)'
      BY <2>1 DEF ListingComes, Queued
    <2>4. \A u \in Times : RecordComes(u) \/ u \in failed =>
                               RecordComes(u)' \/ u \in failed'
      BY <2>1 DEF RecordComes, Queued, ViewTypes
    <2> QED  BY <2>1, <2>2, <2>3, <2>4, BesideView
  <1>3. CASE OtherViewLoads(t)
    <2>1. /\ loads' = [loads EXCEPT ![t] = @ + 1] /\ failed' = failed \ {t}
          /\ UNCHANGED <<view, keys, listings, signals, missed>>
      BY <1>3 DEF OtherViewLoads
    <2>2. ViewTypes'
      BY <2>1 DEF ViewTypes, view
    <2>3. \A q \in Requests : ListingComes(q) => ListingComes(q)'
      BY <2>1 DEF ListingComes, Queued
    <2>4. \A u \in Times : RecordComes(u) \/ u \in failed =>
                               RecordComes(u)' \/ u \in failed'
      BY <2>1 DEF RecordComes, Queued, ViewTypes
    <2> QED  BY <2>1, <2>2, <2>3, <2>4, BesideView
  <1>4. CASE RecordExpires(t) \/ NewObject(t)
    <2>1. /\ UNCHANGED <<view, listings, loads, signals, failed, missed>>
          /\ keys' \subseteq keys \cup {t}
      BY <1>4 DEF RecordExpires, NewObject
    <2>2. ViewTypes'
      BY <2>1 DEF ViewTypes, view
    <2>3. \A q \in Requests : ListingComes(q) => ListingComes(q)'
      BY <2>1 DEF ListingComes, Queued
    <2>4. \A u \in Times : RecordComes(u) \/ u \in failed =>
                               RecordComes(u)' \/ u \in failed'
      BY <2>1 DEF RecordComes, Queued
    <2> QED  BY <2>1, <2>2, <2>3, <2>4, BesideView
  <1> QED  BY <1>1, <1>2, <1>3, <1>4

LEMMA StepKeepsInv == WaitInv /\ [ViewNext]_viewVars => WaitInv'
  <1>1. WaitInv /\ UNCHANGED viewVars => WaitInv'
    BY DEF viewVars, WaitInv, ViewTypes, Computing, OwnSelection, AskedListing,
           AskedRecord, ListingComes, RecordComes, Queued, WaitingIsAwaited,
           ListingIsAwaited, LoadingIsAwaited, LoadedShowsSelected, AtRest
  <1> QED
    BY <1>1, SelectKeepsInv, SignalKeepsInv, BeginKeepsInv, AskKeepsInv, AcceptKeepsInv,
       ListingKeepsInv, StoreKeepsInv
    DEF ViewNext, ComputeStep

----------------------------------------------------------------------------
(* A view at rest that waits for a listing or a record is going to be told   *)
(* of it, but for a load that brought nothing or was announced too early.    *)
THEOREM WaitingAwaited == ViewSpec => []WaitingIsAwaited
  <1>1. WaitInv => WaitingIsAwaited
    BY DEF WaitInv
  <1> QED  BY <1>1, WaitInit, StepKeepsInv, PTL DEF ViewSpec

(* A view at rest that has loaded shows the time that is selected, though    *)
(* the computation may select another time than the user did.               *)
THEOREM LoadedSelected == ViewSpec => []LoadedShowsSelected
  <1>1. WaitInv => LoadedShowsSelected
    BY DEF WaitInv
  <1> QED  BY <1>1, WaitInit, StepKeepsInv, PTL DEF ViewSpec

----------------------------------------------------------------------------
(* Work under way.  A call that has asked is not counted here, as what it   *)
(* has asked for is: this number no step of the view raises.                *)

Charged == {w \in UnderWay : w[1] = "compute" => compute.pc = "ask"}

(* The n-th of a kind of work about a request is charged.                   *)
HasWork(kind, r, n) ==
    \/ kind = "update" /\ r = Latest /\ n \in 1 .. updates
    \/ kind = "compute" /\ r = Latest /\ n = 1 /\ compute # Idle /\ compute.pc = "ask"
    \/ kind = "listing" /\ r \in Requests /\ n \in 1 .. listings[r]
    \/ kind = "load" /\ r \in Times /\ n \in 1 .. loads[r]
    \/ kind = "signal" /\ r = Latest /\ n \in 1 .. Len(signals)

WorkIsBounded == IsFiniteSet(Charged) /\ Cardinality(Charged) <= MaxWork

LEMMA PieceIs ==
    ASSUME NEW k, NEW q, NEW m
    PROVE  /\ \A kind, r, n : <<kind, r, n>> \in Pieces(k, q, m) <=>
                 kind = k /\ r = q /\ n \in 1 .. m
           /\ \A w \in Pieces(k, q, m) : w = <<w[1], w[2], w[3]>>
  BY DEF Pieces

LEMMA UnderWayHas ==
    /\ \A kind, r, n : <<kind, r, n>> \in UnderWay <=>
          \/ kind = "update" /\ r = Latest /\ n \in 1 .. updates
          \/ kind = "compute" /\ r = Latest /\ n = 1 /\ compute # Idle
          \/ kind = "listing" /\ r \in Requests /\ n \in 1 .. listings[r]
          \/ kind = "load" /\ r \in Times /\ n \in 1 .. loads[r]
          \/ kind = "signal" /\ r = Latest /\ n \in 1 .. Len(signals)
    /\ \A w \in UnderWay : w = <<w[1], w[2], w[3]>>
  <1>1. \A w : w \in UnderWay <=>
              \/ w \in Pieces("update", Latest, updates)
              \/ w \in Pieces("compute", Latest, IF compute = Idle THEN 0 ELSE 1)
              \/ \E r \in Requests : w \in Pieces("listing", r, listings[r])
              \/ \E t \in Times : w \in Pieces("load", t, loads[t])
              \/ w \in Pieces("signal", Latest, Len(signals))
    BY DEF UnderWay
  <1> QED  BY <1>1, PieceIs

LEMMA ChargedHas ==
    /\ \A kind, r, n : <<kind, r, n>> \in Charged <=> HasWork(kind, r, n)
    /\ \A w \in Charged : w = <<w[1], w[2], w[3]>>
  BY UnderWayHas DEF Charged, HasWork

LEMMA ChargedHasNext ==
    /\ \A kind, r, n : <<kind, r, n>> \in Charged' <=> HasWork(kind, r, n)'
    /\ \A w \in Charged' : w = <<w[1], w[2], w[3]>>
  <1>1. \A w : w \in UnderWay' <=>
              \/ w \in Pieces("update", Latest, updates')
              \/ w \in Pieces("compute", Latest, IF compute' = Idle THEN 0 ELSE 1)
              \/ \E r \in Requests : w \in Pieces("listing", r, listings'[r])
              \/ \E t \in Times : w \in Pieces("load", t, loads'[t])
              \/ w \in Pieces("signal", Latest, Len(signals)')
    BY DEF UnderWay
  <1>2. /\ \A kind, r, n : <<kind, r, n>> \in UnderWay' <=>
              \/ kind = "update" /\ r = Latest /\ n \in 1 .. updates'
              \/ kind = "compute" /\ r = Latest /\ n = 1 /\ compute' # Idle
              \/ kind = "listing" /\ r \in Requests /\ n \in 1 .. listings'[r]
              \/ kind = "load" /\ r \in Times /\ n \in 1 .. loads'[r]
              \/ kind = "signal" /\ r = Latest /\ n \in 1 .. Len(signals)'
        /\ \A w \in UnderWay' : w = <<w[1], w[2], w[3]>>
    BY <1>1, PieceIs
  <1> QED  BY <1>2 DEF Charged, HasWork

LEMMA OneForOne ==
    ASSUME NEW A, IsFiniteSet(A), NEW a \in A, NEW b, NEW B, B \subseteq (A \ {a}) \cup {b}
    PROVE  IsFiniteSet(B) /\ Cardinality(B) <= Cardinality(A)
  <1>1. PICK C : C = A \ {a}
    OBVIOUS
  <1>2. /\ IsFiniteSet(C) /\ Cardinality(C) = Cardinality(A) - 1
        /\ Cardinality(A) \in Nat /\ Cardinality(C) \in Nat
    BY <1>1, FS_RemoveElement, FS_CardinalityType
  <1>3. PICK D : D = C \cup {b}
    OBVIOUS
  <1>4. IsFiniteSet(D) /\ Cardinality(D) <= Cardinality(C) + 1
    BY <1>2, <1>3, FS_AddElement
  <1>5. IsFiniteSet(B) /\ Cardinality(B) <= Cardinality(D)
    <2>1. B \subseteq D
      BY <1>1, <1>3
    <2> QED  BY <2>1, <1>4, FS_Subset
  <1> QED  BY <1>2, <1>4, <1>5, FS_CardinalityType

LEMMA OneMore ==
    ASSUME NEW A, IsFiniteSet(A), NEW b, NEW B, B \subseteq A \cup {b}
    PROVE  IsFiniteSet(B) /\ Cardinality(B) <= Cardinality(A) + 1
  <1>1. PICK D : D = A \cup {b}
    OBVIOUS
  <1>2. IsFiniteSet(D) /\ Cardinality(D) <= Cardinality(A) + 1 /\ Cardinality(A) \in Nat
    BY <1>1, FS_AddElement, FS_CardinalityType
  <1>3. IsFiniteSet(B) /\ Cardinality(B) <= Cardinality(D)
    BY <1>1, <1>2, FS_Subset
  <1> QED  BY <1>2, <1>3, FS_CardinalityType

(* One piece of work becomes another one or none.                           *)
LEMMA WorkMovesOn ==
    ASSUME WorkIsBounded, MaxWork \in Nat,
           NEW k0, NEW r0, NEW n0, HasWork(k0, r0, n0), NEW k1, NEW r1, NEW n1,
           \A kind, r, n : HasWork(kind, r, n)' =>
               \/ HasWork(kind, r, n) /\ ~(kind = k0 /\ r = r0 /\ n = n0)
               \/ kind = k1 /\ r = r1 /\ n = n1
    PROVE  WorkIsBounded'
  <1>1. PICK a, b : a = <<k0, r0, n0>> /\ b = <<k1, r1, n1>>
    OBVIOUS
  <1>2. a \in Charged
    BY <1>1, ChargedHas
  <1>3. ASSUME NEW w \in Charged' PROVE w \in (Charged \ {a}) \cup {b}
    <2>1. PICK kind, r, n : w = <<kind, r, n>>
      BY ChargedHasNext
    <2>2. HasWork(kind, r, n)'
      BY <2>1, ChargedHasNext
    <2>3. CASE HasWork(kind, r, n) /\ ~(kind = k0 /\ r = r0 /\ n = n0)
      <3>1. <<kind, r, n>> \in Charged
        BY <2>3, ChargedHas
      <3> QED  BY <1>1, <2>1, <2>3, <3>1
    <2>4. CASE kind = k1 /\ r = r1 /\ n = n1
      BY <1>1, <2>1, <2>4
    <2> QED  BY <2>2, <2>3, <2>4
  <1>4. IsFiniteSet(Charged') /\ Cardinality(Charged') <= Cardinality(Charged)
    <2>1. PICK A, B : A = Charged /\ B = Charged'
      OBVIOUS
    <2>2. IsFiniteSet(A) /\ a \in A /\ B \subseteq (A \ {a}) \cup {b}
      BY <1>2, <1>3, <2>1 DEF WorkIsBounded
    <2>3. IsFiniteSet(B) /\ Cardinality(B) <= Cardinality(A)
      BY <2>2, OneForOne
    <2> QED  BY <2>1, <2>3
  <1> QED  BY <1>4, FS_CardinalityType DEF WorkIsBounded

(* The environment adds one, while there is less than the bound.            *)
LEMMA WorkAdded ==
    ASSUME WorkIsBounded, MaxWork \in Nat, Work < MaxWork,
           NEW k1, NEW r1, NEW n1,
           \A kind, r, n : HasWork(kind, r, n)' =>
               HasWork(kind, r, n) \/ (kind = k1 /\ r = r1 /\ n = n1)
    PROVE  WorkIsBounded'
  <1>1. PICK A, B, U, b, c :
            /\ A = Charged /\ B = Charged' /\ U = UnderWay
            /\ b = <<k1, r1, n1>> /\ c = <<"compute", Latest, 1>>
    OBVIOUS
  <1>2. ASSUME NEW w \in B PROVE w \in A \cup {b}
    <2>1. PICK kind, r, n : w = <<kind, r, n>>
      BY <1>1, ChargedHasNext
    <2>2. HasWork(kind, r, n)'
      BY <1>1, <2>1, ChargedHasNext
    <2> QED  BY <1>1, <2>1, <2>2, ChargedHas
  <1>3. U \subseteq A \cup {c} /\ A \in SUBSET U
    <2>1. A \in SUBSET U
      BY <1>1 DEF Charged
    <2>2. ASSUME NEW w \in U, w \notin A PROVE w = c
      <3>1. w[1] = "compute"
        BY <1>1, <2>2 DEF Charged
      <3>2. w = <<w[1], w[2], w[3]>> /\ w[2] = Latest /\ w[3] = 1
        <4>1. U = UnderWay
          BY <1>1
        <4>2. /\ \A kind, r, n : <<kind, r, n>> \in U /\ kind = "compute" => r = Latest /\ n = 1
              /\ \A x \in U : x = <<x[1], x[2], x[3]>>
          BY <4>1, UnderWayHas
        <4> QED  BY <3>1, <4>2
      <3> QED  BY <1>1, <3>1, <3>2
    <2> QED  BY <2>1, <2>2
  <1>4. IsFiniteSet(A) /\ IsFiniteSet(U)
    BY <1>1, <1>3, OneMore DEF WorkIsBounded
  <1>5. Cardinality(A) <= Cardinality(U) /\ Cardinality(A) \in Nat /\ Cardinality(U) \in Nat
    BY <1>3, <1>4, FS_Subset, FS_CardinalityType
  <1>6. Cardinality(U) < MaxWork
    BY <1>1 DEF Work
  <1>7. IsFiniteSet(B) /\ Cardinality(B) <= Cardinality(A) + 1
    BY <1>2, <1>4, OneMore
  <1>8. Cardinality(B) \in Nat
    BY <1>7, FS_CardinalityType
  <1> QED  BY <1>1, <1>5, <1>6, <1>7, <1>8 DEF WorkIsBounded

(* So many of a kind are under way at most.                                 *)
LEMMA WorkOfKind ==
    ASSUME WorkIsBounded, MaxWork \in Nat, NEW kind, NEW r, NEW m \in Nat,
           \A n \in 1 .. m : HasWork(kind, r, n)
    PROVE  m <= MaxWork
  <1> DEFINE f == [n \in 1 .. m |-> <<kind, r, n>>]
  <1>1. f \in [1 .. m -> Charged]
    BY ChargedHas
  <1>2. f \in Injection(1 .. m, Charged)
    <2>1. \A x, y \in 1 .. m : f[x] = f[y] => x = y
      OBVIOUS
    <2> QED  BY <1>1, <2>1, Fun_IsInj
  <1> HIDE DEF f
  <1>3. Cardinality(1 .. m) <= Cardinality(Charged)
    BY <1>2, FS_Injection DEF WorkIsBounded
  <1>4. Cardinality(1 .. m) = m
    BY FS_Interval
  <1>5. Cardinality(Charged) \in Nat
    BY FS_CardinalityType DEF WorkIsBounded
  <1> QED  BY <1>3, <1>4, <1>5 DEF WorkIsBounded

(* Nothing is added.                                                        *)
LEMMA WorkKept ==
    ASSUME WorkIsBounded, MaxWork \in Nat,
           \A kind, r, n : HasWork(kind, r, n)' => HasWork(kind, r, n)
    PROVE  WorkIsBounded'
  <1>1. PICK A, B : A = Charged /\ B = Charged'
    OBVIOUS
  <1>2. ASSUME NEW w \in B PROVE w \in A
    <2>1. PICK kind, r, n : w = <<kind, r, n>>
      BY <1>1, ChargedHasNext
    <2>2. HasWork(kind, r, n)'
      BY <1>1, <2>1, ChargedHasNext
    <2> QED  BY <1>1, <2>1, <2>2, ChargedHas
  <1>3. IsFiniteSet(B) /\ Cardinality(B) <= Cardinality(A)
    BY <1>1, <1>2, FS_Subset DEF WorkIsBounded
  <1>4. Cardinality(A) \in Nat /\ Cardinality(B) \in Nat
    BY <1>1, <1>3, FS_CardinalityType DEF WorkIsBounded
  <1> QED  BY <1>1, <1>3, <1>4 DEF WorkIsBounded

(* What is found alive has a key, and so has what is loaded.                *)
KeysAreKnown ==
    /\ shown \in Requests /\ listed \in BOOLEAN
    /\ alive \subseteq keys
    /\ \A t \in Times : loads[t] > 0 => t \in keys

LEMMA WorkInit == ViewInit => WorkIsBounded /\ KeysAreKnown
  <1> SUFFICES ASSUME ViewInit PROVE WorkIsBounded /\ KeysAreKnown
    OBVIOUS
  <1>1. KeysAreKnown
    <2>1. shown = Latest /\ listed = FALSE /\ alive = {} /\ loads = [t \in Times |-> 0]
      BY DEF ViewInit
    <2>2. \A t \in Times : loads[t] = 0
      BY <2>1
    <2>3. Latest \in Requests
      BY DEF Requests
    <2>4. alive \subseteq keys
      BY <2>1
    <2>5. \A t \in Times : ~(loads[t] > 0)
      BY <2>2
    <2> QED  BY <2>1, <2>3, <2>4, <2>5 DEF KeysAreKnown
  <1>2. ASSUME NEW w \in Charged PROVE w = <<"update", Latest, 1>>
    <2>1. PICK kind, r, n : w = <<kind, r, n>>
      BY ChargedHas
    <2>2. HasWork(kind, r, n)
      BY <2>1, ChargedHas
    <2>3. kind = "update" /\ r = Latest /\ n = 1
      BY <2>2 DEF ViewInit, HasWork
    <2> QED  BY <2>1, <2>3
  <1>3. PICK A, b : A = Charged /\ b = <<"update", Latest, 1>>
    OBVIOUS
  <1>4. A \in SUBSET {b} /\ IsFiniteSet({b}) /\ Cardinality({b}) = 1
    BY <1>2, <1>3, FS_Singleton
  <1>5. IsFiniteSet(A) /\ Cardinality(A) <= 1 /\ Cardinality(A) \in Nat
    BY <1>4, FS_Subset, FS_CardinalityType
  <1>6. MaxWork \in Nat \ {0}
    BY ViewAssumption
  <1> QED  BY <1>1, <1>3, <1>5, <1>6 DEF WorkIsBounded

LEMMA WorkOfView ==
    ASSUME ViewTypes, WorkIsBounded,
           \/ \E r \in Requests : SelectViewTime(r)
           \/ HandleSignal \/ BeginComputeSweep \/ AcceptAnswer
    PROVE  WorkIsBounded'
  <1> USE ViewAssumption
  <1>1. CASE \E r \in Requests : SelectViewTime(r)
    <2>1. /\ Work < MaxWork /\ updates' = updates + 1
          /\ UNCHANGED <<compute, listings, loads, signals>>
      BY <1>1 DEF SelectViewTime, store
    <2>2. \A kind, r, n : HasWork(kind, r, n)' =>
             HasWork(kind, r, n) \/ (kind = "update" /\ r = Latest /\ n = updates + 1)
      BY <2>1 DEF HasWork, ViewTypes
    <2> QED  BY <2>1, <2>2, WorkAdded
  <1>2. CASE HandleSignal
    <2>1. /\ signals # <<>> /\ Len(signals') = Len(signals) - 1 /\ Len(signals) \in Nat \ {0}
          /\ updates' = updates \/ updates' = updates + 1
          /\ UNCHANGED <<compute, listings, loads>>
      BY <1>2 DEF HandleSignal, store, ViewTypes
    <2>2. HasWork("signal", Latest, Len(signals))
      BY <2>1 DEF HasWork
    <2>3. \A kind, r, n : HasWork(kind, r, n)' =>
             \/ HasWork(kind, r, n) /\ ~(kind = "signal" /\ r = Latest /\ n = Len(signals))
             \/ kind = "update" /\ r = Latest /\ n = updates + 1
      BY <2>1 DEF HasWork, ViewTypes
    <2> QED  BY <2>2, <2>3, WorkMovesOn
  <1>3. CASE BeginComputeSweep
    <2>1. /\ compute = Idle /\ updates > 0 /\ updates' = updates - 1
          /\ UNCHANGED <<listings, loads, signals>>
      BY <1>3 DEF BeginComputeSweep, store
    <2>2. HasWork("update", Latest, updates)
      BY <2>1 DEF HasWork, ViewTypes
    <2>3. \A kind, r, n : HasWork(kind, r, n)' =>
             \/ HasWork(kind, r, n) /\ ~(kind = "update" /\ r = Latest /\ n = updates)
             \/ kind = "compute" /\ r = Latest /\ n = 1
      BY <2>1 DEF HasWork, ViewTypes
    <2> QED  BY <2>2, <2>3, WorkMovesOn
  <1>4. CASE AcceptAnswer
    <2>1. compute' = Idle /\ UNCHANGED <<updates, listings, loads, signals>>
      BY <1>4 DEF AcceptAnswer, store
    <2>2. \A kind, r, n : HasWork(kind, r, n)' => HasWork(kind, r, n)
      BY <2>1 DEF HasWork
    <2> QED  BY <2>2, WorkKept
  <1> QED  BY <1>1, <1>2, <1>3, <1>4

LEMMA WorkOfCall ==
    ASSUME ViewTypes, WorkIsBounded, GetLevel3ProductRecord
    PROVE  WorkIsBounded'
  <1> USE ViewAssumption
  <1>1. /\ compute.pc = "ask" /\ compute.requested \in Requests /\ compute # Idle
        /\ UNCHANGED <<updates, keys, signals>>
    BY DEF GetLevel3ProductRecord, ViewTypes, Computations, Idle
  <1>2. HasWork("compute", Latest, 1)
    BY <1>1 DEF HasWork
  <1>3. compute'.pc # "ask"
    BY DEF GetLevel3ProductRecord, AskListing, AskNotAvailable, AskRecord, Answer
  <1>4. CASE AskListing
    <2>1. PICK q \in Requests : q = compute.requested
      BY <1>1
    <2>2. listings' = [listings EXCEPT ![q] = @ + 1] /\ UNCHANGED loads
      BY <1>4, <2>1 DEF AskListing
    <2>3. \A kind, r, n : HasWork(kind, r, n)' =>
             \/ HasWork(kind, r, n) /\ ~(kind = "compute" /\ r = Latest /\ n = 1)
             \/ kind = "listing" /\ r = q /\ n = listings[q] + 1
      BY <1>1, <1>3, <2>2 DEF HasWork, ViewTypes
    <2> QED  BY <1>2, <2>3, WorkMovesOn
  <1>5. CASE UNCHANGED <<listings, loads>>
    <2>1. \A kind, r, n : HasWork(kind, r, n)' => HasWork(kind, r, n)
      BY <1>1, <1>3, <1>5 DEF HasWork
    <2> QED  BY <2>1, WorkKept
  <1>6. CASE AskRecord /\ ~UNCHANGED <<listings, loads>>
    <2>1. PICK t \in Times : t = Bounded(compute.requested)
      BY <1>1, <1>6, BoundedIsKey DEF AskRecord, ViewTypes
    <2>2. loads' = [loads EXCEPT ![t] = @ + 1] /\ UNCHANGED listings
      BY <1>6, <2>1 DEF AskRecord
    <2>3. \A kind, r, n : HasWork(kind, r, n)' =>
             \/ HasWork(kind, r, n) /\ ~(kind = "compute" /\ r = Latest /\ n = 1)
             \/ kind = "load" /\ r = t /\ n = loads[t] + 1
      BY <1>1, <1>3, <2>2 DEF HasWork, ViewTypes
    <2> QED  BY <1>2, <2>3, WorkMovesOn
  <1> QED  BY <1>4, <1>5, <1>6 DEF GetLevel3ProductRecord, AskNotAvailable

LEMMA WorkOfManager ==
    ASSUME ViewTypes, WorkIsBounded,
           \/ \E r \in Requests : PopulateLevel3ProductTimes(r) \/ PopulateFails(r)
           \/ \E t \in Times : \/ LoadRecord(t) \/ LoadFails(t) \/ OtherViewLoads(t)
                               \/ RecordExpires(t) \/ NewObject(t)
           \/ UNCHANGED viewVars
    PROVE  WorkIsBounded'
  <1> USE ViewAssumption
  <1>1. ASSUME NEW q \in Requests, EndListing(q) PROVE WorkIsBounded'
    <2>1. PICK signal : signals' = Append(signals, signal)
      BY <1>1 DEF EndListing, Populated
    <2>2. /\ Len(signals') = Len(signals) + 1 /\ Len(signals) \in Nat
          /\ listings[q] > 0 /\ listings' = [listings EXCEPT ![q] = @ - 1]
          /\ UNCHANGED <<updates, compute, loads>>
      <3>1. signals \in Seq(Signals)
        BY DEF ViewTypes
      <3> QED  BY <1>1, <2>1, <3>1 DEF EndListing, view
    <2>3. HasWork("listing", q, listings[q])
      BY <2>2 DEF HasWork, ViewTypes
    <2>4. \A kind, r, n : HasWork(kind, r, n)' =>
             \/ HasWork(kind, r, n) /\ ~(kind = "listing" /\ r = q /\ n = listings[q])
             \/ kind = "signal" /\ r = Latest /\ n = Len(signals) + 1
      BY <2>2 DEF HasWork, ViewTypes
    <2> QED  BY <2>3, <2>4, WorkMovesOn
  <1>2. ASSUME NEW t \in Times, LoadRecord(t) PROVE WorkIsBounded'
    <2>1. /\ Len(signals') = Len(signals) + 1 /\ Len(signals) \in Nat
          /\ loads[t] > 0 /\ loads' = [loads EXCEPT ![t] = @ - 1]
          /\ UNCHANGED <<updates, compute, listings>>
      BY <1>2 DEF LoadRecord, view, ViewTypes
    <2>2. HasWork("load", t, loads[t])
      BY <2>1 DEF HasWork, ViewTypes
    <2>3. \A kind, r, n : HasWork(kind, r, n)' =>
             \/ HasWork(kind, r, n) /\ ~(kind = "load" /\ r = t /\ n = loads[t])
             \/ kind = "signal" /\ r = Latest /\ n = Len(signals) + 1
      BY <2>1 DEF HasWork, ViewTypes
    <2> QED  BY <2>2, <2>3, WorkMovesOn
  <1>3. ASSUME NEW t \in Times, LoadFails(t) PROVE WorkIsBounded'
    <2>1. /\ loads[t] > 0 /\ loads' = [loads EXCEPT ![t] = @ - 1]
          /\ UNCHANGED <<updates, compute, listings, signals>>
      BY <1>3 DEF LoadFails, view
    <2>2. \A kind, r, n : HasWork(kind, r, n)' => HasWork(kind, r, n)
      BY <2>1 DEF HasWork, ViewTypes
    <2> QED  BY <2>2, WorkKept
  <1>4. ASSUME NEW t \in Times, OtherViewLoads(t) PROVE WorkIsBounded'
    <2>1. /\ Work < MaxWork /\ loads' = [loads EXCEPT ![t] = @ + 1]
          /\ UNCHANGED <<updates, compute, listings, signals>>
      BY <1>4 DEF OtherViewLoads, view
    <2>2. \A kind, r, n : HasWork(kind, r, n)' =>
             HasWork(kind, r, n) \/ (kind = "load" /\ r = t /\ n = loads[t] + 1)
      BY <2>1 DEF HasWork, ViewTypes
    <2> QED  BY <2>1, <2>2, WorkAdded
  <1>5. ASSUME UNCHANGED <<updates, compute, listings, loads, signals>>
        PROVE  WorkIsBounded'
    <2>1. \A kind, r, n : HasWork(kind, r, n)' => HasWork(kind, r, n)
      BY <1>5 DEF HasWork
    <2> QED  BY <2>1, WorkKept
  <1> QED
    BY <1>1, <1>2, <1>3, <1>4, <1>5 DEF PopulateLevel3ProductTimes, PopulateFails,
       RecordExpires, NewObject, viewVars, view

LEMMA KnownStep ==
    ViewTypes /\ KeysAreKnown /\ [ViewNext]_viewVars => KeysAreKnown'
  <1> SUFFICES ASSUME ViewTypes, KeysAreKnown, [ViewNext]_viewVars PROVE KeysAreKnown'
    OBVIOUS
  <1> USE DEF KeysAreKnown
  <1>1. CASE UNCHANGED <<listed, keys, alive, loads>> /\ shown' \in Requests
    BY <1>1
  <1>2. ASSUME AcceptAnswer PROVE shown' \in Requests
    <2>1. compute.found \in Requests
      BY <1>2 DEF AcceptAnswer, ViewTypes, Computations, Idle
    <2> QED  BY <1>2, <2>1 DEF AcceptAnswer
  <1>3. ASSUME AskRecord, UNCHANGED <<shown, listed, keys, alive>>, compute.requested \in Requests
        PROVE  KeysAreKnown'
    <2>1. PICK t \in keys : t = Bounded(compute.requested)
      BY <1>3, BoundedIsKey DEF AskRecord, ViewTypes
    <2>2. loads' = loads \/ loads' = [loads EXCEPT ![t] = @ + 1]
      BY <1>3, <2>1 DEF AskRecord
    <2> QED  BY <1>3, <2>1, <2>2 DEF ViewTypes
  <1>4. CASE GetLevel3ProductRecord
    <2>1. UNCHANGED <<shown, listed, keys, alive>> /\ compute.requested \in Requests
      BY <1>4 DEF GetLevel3ProductRecord, ViewTypes, Computations, Idle
    <2> QED
      BY <1>1, <1>3, <1>4, <2>1 DEF GetLevel3ProductRecord, AskListing, AskNotAvailable
  <1>5. CASE \E r \in Requests : PopulateLevel3ProductTimes(r) \/ PopulateFails(r)
    BY <1>5 DEF PopulateLevel3ProductTimes, PopulateFails, EndListing, view
  <1>6. CASE \E t \in Times : LoadRecord(t) \/ LoadFails(t) \/ OtherViewLoads(t)
    <2>1. PICK t \in Times : LoadRecord(t) \/ LoadFails(t) \/ OtherViewLoads(t)
      BY <1>6
    <2>2. UNCHANGED <<shown, listed, keys>>
      BY <2>1 DEF LoadRecord, LoadFails, OtherViewLoads, view
    <2>3. t \in keys /\ (alive' = alive \/ alive' = alive \cup {t})
      BY <2>1 DEF LoadRecord, LoadFails, OtherViewLoads
    <2>4. loads' = [loads EXCEPT ![t] = @ - 1] \/ loads' = [loads EXCEPT ![t] = @ + 1]
      BY <2>1 DEF LoadRecord, LoadFails, OtherViewLoads
    <2> QED  BY <2>2, <2>3, <2>4 DEF ViewTypes
  <1>7. CASE \E t \in Times : RecordExpires(t) \/ NewObject(t)
    BY <1>7 DEF RecordExpires, NewObject, view
  <1>8. CASE \/ \E r \in Requests : SelectViewTime(r)
             \/ HandleSignal \/ BeginComputeSweep \/ AcceptAnswer \/ UNCHANGED viewVars
    BY <1>1, <1>2, <1>8 DEF SelectViewTime, HandleSignal, BeginComputeSweep, AcceptAnswer,
       viewVars, store
  <1> QED  BY <1>4, <1>5, <1>6, <1>7, <1>8 DEF ViewNext, ComputeStep

LEMMA WorkStep ==
    WaitInv /\ WorkIsBounded /\ KeysAreKnown /\ [ViewNext]_viewVars
      => WorkIsBounded' /\ KeysAreKnown'
  <1> SUFFICES ASSUME WaitInv, WorkIsBounded, KeysAreKnown, [ViewNext]_viewVars
               PROVE  WorkIsBounded' /\ KeysAreKnown'
    OBVIOUS
  <1>1. ViewTypes
    BY DEF WaitInv
  <1>2. WorkIsBounded'
    BY <1>1, WorkOfView, WorkOfCall, WorkOfManager DEF ViewNext, ComputeStep
  <1> QED  BY <1>1, <1>2, KnownStep

(* The view and the manager have their types; of every kind of work there   *)
(* is never more than the environment may add, as no handler adds to it.    *)
THEOREM ViewTypesHold == ViewSpec => []ViewTypeOK
  <1>1. ASSUME WaitInv, WorkIsBounded, KeysAreKnown
        PROVE  ViewTypeOK
    <2>1. ViewTypes /\ MaxWork \in Nat
      BY <1>1, ViewAssumption DEF WaitInv
    <2>2. updates \in 0 .. MaxWork
      <3>1. updates \in Nat /\ \A n \in 1 .. updates : HasWork("update", Latest, n)
        BY <2>1 DEF HasWork, ViewTypes
      <3> QED  BY <1>1, <2>1, <3>1, WorkOfKind
    <2>3. listings \in [Requests -> 0 .. MaxWork]
      <3>1. ASSUME NEW r \in Requests PROVE listings[r] \in 0 .. MaxWork
        <4>1. listings[r] \in Nat /\ \A n \in 1 .. listings[r] : HasWork("listing", r, n)
          BY <2>1 DEF HasWork, ViewTypes
        <4> QED  BY <1>1, <2>1, <4>1, WorkOfKind
      <3> QED  BY <2>1, <3>1 DEF ViewTypes
    <2>4. loads \in [Times -> 0 .. MaxWork]
      <3>1. ASSUME NEW t \in Times PROVE loads[t] \in 0 .. MaxWork
        <4>1. loads[t] \in Nat /\ \A n \in 1 .. loads[t] : HasWork("load", t, n)
          BY <2>1 DEF HasWork, ViewTypes
        <4> QED  BY <1>1, <2>1, <4>1, WorkOfKind
      <3> QED  BY <2>1, <3>1 DEF ViewTypes
    <2>5. Len(signals) <= MaxWork
      <3>1. Len(signals) \in Nat /\ \A n \in 1 .. Len(signals) : HasWork("signal", Latest, n)
        BY <2>1 DEF HasWork, ViewTypes
      <3> QED  BY <1>1, <2>1, <3>1, WorkOfKind
    <2> QED  BY <1>1, <2>1, <2>2, <2>3, <2>4, <2>5 DEF ViewTypeOK, ViewTypes, KeysAreKnown
  <1> QED  BY <1>1, WaitInit, StepKeepsInv, WorkInit, WorkStep, PTL DEF ViewSpec
=============================================================================
