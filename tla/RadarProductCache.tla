--------------------------- MODULE RadarProductCache ---------------------------
(***************************************************************************)
(* The records of one radar product kept by RadarProductManager: an index   *)
(* from times to weak references, a list of recently used records that      *)
(* keeps them alive, and the loads that fill both.                          *)
(*                                                                          *)
(* Loads of provider data and loads of files each run under a mutex of      *)
(* their own, so one of each kind may be under way.  A record lives as long *)
(* as somebody holds a strong reference: the recent list, a view, the file  *)
(* index, or the request of a load that has just finished.  What the loads  *)
(* read is left out; a record is its time and its identity as an object.    *)
(***************************************************************************)
EXTENDS Integers, Sequences, FiniteSets

CONSTANTS
    Times,     \* times of the product's records
    Files,     \* times of the records in files a user may open
    Objects,   \* identities of record objects, reused when nobody refers to one
    Views,     \* radar product views
    Loaders,   \* threads that run LoadNexradFile
    MinLimit,  \* the smallest cache limit
    Limits,    \* the cache limits SetCacheLimit is asked for
    Listings   \* the sets of times a provider may list

ASSUME CacheAssumption ==
    /\ MinLimit \in Nat \ {0}
    /\ Limits \subseteq Nat
    /\ Files \subseteq Times
    /\ Listings \subseteq SUBSET Times

Records == [time : Times, object : Objects]

VARIABLES
    keys,           \* the times that are keys of the record map
    recordMap,      \* key -> what its weak reference was last set to, or {}
    recentRecords,  \* most recently used first
    cacheLimit,
    fileIndex,      \* records of loaded files, kept until Cleanup
    held,           \* view -> the records it holds
    requests,       \* posted LoadProviderData tasks, by their times
    mutexOwner,     \* kind of load -> the loader that holds its mutex, or {}
    loader,         \* loader -> where it is in LoadNexradFile
    useOrder        \* history: the times stored so far, latest use first

vars == <<keys, recordMap, recentRecords, cacheLimit, fileIndex, held, requests,
          mutexOwner, loader, useOrder>>

Kinds == {"provider", "file"}  \* loadLevel2/3DataMutex_ and fileLoadMutex_

(* "load" with the mutex held, "store" with a new record, "complete" with   *)
(* the record that was stored and the mutex released.                       *)
Idle == [pc |-> "idle"]

LoaderStates ==
    {Idle}
      \cup [pc : {"load"}, kind : Kinds, time : Times]
      \cup [pc : {"store", "complete"}, kind : Kinds, record : Records]

TypeOK ==
    /\ keys \in SUBSET Times
    /\ recordMap \in [Times -> SUBSET Records]
    /\ \A t \in Times : \A r \in recordMap[t] : r.time = t
    /\ recentRecords \in Seq(Records)
    /\ cacheLimit \in Nat /\ cacheLimit >= MinLimit
    /\ fileIndex \in SUBSET Records
    /\ held \in [Views -> SUBSET Records]
    /\ requests \in SUBSET Times
    /\ mutexOwner \in [Kinds -> SUBSET Loaders]
    /\ loader \in [Loaders -> LoaderStates]
    /\ useOrder \in Seq(Times)

Init ==
    /\ keys = {}
    /\ recordMap = [t \in Times |-> {}]
    /\ recentRecords = <<>>
    /\ cacheLimit = MinLimit
    /\ fileIndex = {}
    /\ held = [v \in Views |-> {}]
    /\ requests = {}
    /\ mutexOwner = [k \in Kinds |-> {}]
    /\ loader = [w \in Loaders |-> Idle]
    /\ useOrder = <<>>

Elements(s) == {s[i] : i \in DOMAIN s}

(* Strong references: views hold the records they draw, a request holds the *)
(* record it completes with.  A record not yet stored is its loader's own.  *)
InViews == UNION {held[v] : v \in Views}
InRequests == {loader[w].record : w \in {x \in Loaders : loader[x].pc = "complete"}}
Live == Elements(recentRecords) \cup fileIndex \cup InViews \cup InRequests

(* weak_ptr::lock() on the reference at t: the record, if it is alive.      *)
Lock(t) == recordMap[t] \cap Live

----------------------------------------------------------------------------
(* The times a provider lists become keys; a key that exists keeps its      *)
(* reference.                                                               *)
(* Mutant of PopulateProductTimes: listed times are assigned, not inserted. *)
PopulateProductTimesAssigning(listed) ==
    /\ keys' = keys \cup listed
    /\ recordMap' = [t \in Times |-> IF t \in listed THEN {} ELSE recordMap[t]]
    /\ UNCHANGED <<recentRecords, cacheLimit, fileIndex, held, requests,
                   mutexOwner, loader, useOrder>>

PopulateProductTimes(listed) ==
    /\ keys' = keys \cup listed
    /\ recordMap' = [t \in Times |-> IF t \in listed \ keys THEN {} ELSE recordMap[t]]
    /\ UNCHANGED <<recentRecords, cacheLimit, fileIndex, held, requests,
                   mutexOwner, loader, useOrder>>

(* A view asks for the record at a key.  A live record is handed to it; for *)
(* one that has expired a load is posted.                                   *)
GetProductRecord(v, t) ==
    /\ t \in keys
    /\ IF Lock(t) # {}
       THEN /\ held' = [held EXCEPT ![v] = Lock(t)]
            /\ UNCHANGED requests
       ELSE /\ requests' = requests \cup {t}
            /\ UNCHANGED held
    /\ UNCHANGED <<keys, recordMap, recentRecords, cacheLimit, fileIndex, mutexOwner,
                   loader, useOrder>>

(* The view has computed its sweep and lets go of the record.               *)
ReleaseRecord(v) ==
    /\ held[v] # {}
    /\ held' = [held EXCEPT ![v] = {}]
    /\ UNCHANGED <<keys, recordMap, recentRecords, cacheLimit, fileIndex, requests,
                   mutexOwner, loader, useOrder>>

(* Mutant of SetCacheLimit: the lower bound is forgotten.                   *)
SetCacheLimitUnbounded(limit) ==
    /\ cacheLimit' = limit
    /\ UNCHANGED <<keys, recordMap, recentRecords, fileIndex, held, requests,
                   mutexOwner, loader, useOrder>>

SetCacheLimit(limit) ==
    /\ cacheLimit' = IF limit < MinLimit THEN MinLimit ELSE limit
    /\ UNCHANGED <<keys, recordMap, recentRecords, fileIndex, held, requests,
                   mutexOwner, loader, useOrder>>

Cleanup ==
    /\ fileIndex # {}
    /\ fileIndex' = {}
    /\ UNCHANGED <<keys, recordMap, recentRecords, cacheLimit, held, requests,
                   mutexOwner, loader, useOrder>>

----------------------------------------------------------------------------
(* LoadNexradFile: from taking the mutex of its kind to RequestComplete.    *)

BeginLoad(w, kind, t) ==
    /\ loader[w] = Idle
    /\ mutexOwner[kind] = {}
    /\ mutexOwner' = [mutexOwner EXCEPT ![kind] = {w}]
    /\ loader' = [loader EXCEPT ![w] = [pc |-> "load", kind |-> kind, time |-> t]]

(* A task posted by LoadProviderData.                                       *)
BeginProviderLoad(w, t) ==
    /\ t \in requests
    /\ requests' = requests \ {t}
    /\ BeginLoad(w, "provider", t)
    /\ UNCHANGED <<keys, recordMap, recentRecords, cacheLimit, fileIndex, held, useOrder>>

(* LoadFile of a file that is not in the index.  A file that is answers at  *)
(* once, and changes nothing here.                                          *)
BeginFileLoad(w, t) ==
    /\ BeginLoad(w, "file", t)
    /\ UNCHANGED <<keys, recordMap, recentRecords, cacheLimit, fileIndex, held,
                   requests, useOrder>>

(* The file is there -- taken from a live record, or read -- and a new      *)
(* record object is made for it, one nobody refers to.                      *)
Unreferenced(r) ==
    /\ r \notin Live
    /\ r \notin recordMap[r.time]
    /\ \A w \in Loaders : loader[w].pc = "store" => loader[w].record # r

CreateRecord(w) ==
    /\ loader[w].pc = "load"
    /\ \E r \in Records :
          /\ r.time = loader[w].time
          /\ Unreferenced(r)
          /\ loader' = [loader EXCEPT ![w] =
                          [pc |-> "store", kind |-> loader[w].kind, record |-> r]]
    /\ UNCHANGED <<keys, recordMap, recentRecords, cacheLimit, fileIndex, held,
                   requests, mutexOwner, useOrder>>

(* The provider has no such object, or the file is not valid: the request   *)
(* completes without a record.                                              *)
LoadFails(w) ==
    /\ loader[w].pc = "load"
    /\ mutexOwner' = [mutexOwner EXCEPT ![loader[w].kind] = {}]
    /\ loader' = [loader EXCEPT ![w] = Idle]
    /\ UNCHANGED <<keys, recordMap, recentRecords, cacheLimit, fileIndex, held,
                   requests, useOrder>>

(* UpdateRecentRecords: to the front, out of its old place, then trim.      *)
(* An element occurs in the list at most once.                              *)
Position(s, r) == CHOOSE i \in DOMAIN s : s[i] = r
Without(s, r) ==
    IF r \in Elements(s)
    THEN SubSeq(s, 1, Position(s, r) - 1) \o SubSeq(s, Position(s, r) + 1, Len(s))
    ELSE s
Trim(s, n) == IF Len(s) > n THEN SubSeq(s, 1, n) ELSE s

(* Mutant of UpdateRecentRecords: a record that is there stays in place.    *)
UpdateRecentRecordsFifo(list, r) ==
    IF r \in Elements(list) THEN list ELSE Trim(<<r>> \o list, cacheLimit)

UpdateRecentRecords(list, r) == Trim(<<r>> \o Without(list, r), cacheLimit)

(* Mutant of Stored: the new record is kept beside a live one.              *)
StoredAnew(r) == r

(* The record StoreRadarProductRecord keeps: the live one, if there is one. *)
Stored(r) ==
    IF Lock(r.time) = {} THEN r ELSE CHOOSE live \in Lock(r.time) : TRUE

(* StoreRadarProductRecord, under the record mutex; LoadNexradFile then     *)
(* lets go of its own mutex and completes the request.                      *)
StoreRadarProductRecord(w) ==
    /\ loader[w].pc = "store"
    /\ LET stored == Stored(loader[w].record)
       IN  /\ keys' = keys \cup {stored.time}
           /\ recordMap' = [recordMap EXCEPT ![stored.time] = {stored}]
           /\ recentRecords' = UpdateRecentRecords(recentRecords, stored)
           /\ loader' = [loader EXCEPT ![w] = [pc |-> "complete",
                            kind |-> loader[w].kind, record |-> stored]]
           /\ useOrder' = <<stored.time>> \o Without(useOrder, stored.time)
    /\ mutexOwner' = [mutexOwner EXCEPT ![loader[w].kind] = {}]
    /\ UNCHANGED <<cacheLimit, fileIndex, held, requests>>

(* RequestComplete: a file's record enters the file index, a reloaded one   *)
(* is announced to the views, and the request is destroyed.                 *)
CompleteRequest(w) ==
    /\ loader[w].pc = "complete"
    /\ fileIndex' = IF loader[w].kind = "file"
                    THEN {r \in fileIndex : r.time # loader[w].record.time}
                           \cup {loader[w].record}
                    ELSE fileIndex
    /\ loader' = [loader EXCEPT ![w] = Idle]
    /\ UNCHANGED <<keys, recordMap, recentRecords, cacheLimit, held, requests,
                   mutexOwner, useOrder>>

----------------------------------------------------------------------------
Next ==
    \/ \E listed \in Listings : PopulateProductTimes(listed)
    \/ \E v \in Views, t \in Times : GetProductRecord(v, t)
    \/ \E v \in Views : ReleaseRecord(v)
    \/ \E limit \in Limits : SetCacheLimit(limit)
    \/ Cleanup
    \/ \E w \in Loaders :
          \/ \E t \in Times : BeginProviderLoad(w, t)
          \/ \E t \in Files : BeginFileLoad(w, t)
          \/ CreateRecord(w)
          \/ LoadFails(w)
          \/ StoreRadarProductRecord(w)
          \/ CompleteRequest(w)

Spec == Init /\ [][Next]_vars

----------------------------------------------------------------------------
(* The index finds every record that is alive: whatever loads raced, from   *)
(* the provider or from files, and whichever records expired in between,    *)
(* no record object that somebody holds is shadowed by another of its time. *)
(* So all holders of a time share one record, and none is loaded twice.     *)
LiveRecordIsIndexed == \A r \in Live : r.time \in keys /\ recordMap[r.time] = {r}

(* The recent list is a least-recently-used cache: its times are the latest *)
(* uses, in order and without repetition, however the limit moved.          *)
RecentIsLatestUses ==
    /\ Len(recentRecords) <= Len(useOrder)
    /\ \A i \in 1 .. Len(recentRecords) : recentRecords[i].time = useOrder[i]

(* The record just stored is kept, and nothing that was more recently used  *)
(* than a record that stays is dropped: a view whose record was reloaded    *)
(* finds it again as long as fewer than MinLimit other times are used.      *)
ReloadedRecordStays ==
    \A i \in 1 .. Len(useOrder) :
        i <= MinLimit => Lock(useOrder[i]) # {}

(* By times, the recent list is a least-recently-used cache: although two   *)
(* kinds of loads race, records expire and are made anew and views let go   *)
(* of them, nothing but a store and a change of the limit changes it, and a *)
(* time never stands in it twice.                                           *)
Lru == INSTANCE LruCache WITH
          Keys <- Times, MinCapacity <- MinLimit,
          cached <- [i \in DOMAIN recentRecords |-> recentRecords[i].time],
          capacity <- cacheLimit

ImplementsLru == Lru!LruSpec
=============================================================================
