----------------------------- MODULE Stores_proofs -----------------------------
(*****************************************************************************)
(* Theorems about what is kept of the radar: the record cache of a product,  *)
(* and the object cache of a provider.                                       *)
(*****************************************************************************)
EXTENDS MC_Stores, Lists_proofs

----------------------------------------------------------------------------
(*****************************************************************************)
(* RadarProductCache, for any times, record objects, views, loaders and      *)
(* limits.                                                                   *)
(*****************************************************************************)

----------------------------------------------------------------------------
(* The list operations.                                                     *)

(* Removing an element: what is left, and where it stands.                  *)
LEMMA WithoutPresent ==
    ASSUME NEW S, NEW s \in Seq(S), NEW r, r \in Elements(s)
    PROVE  /\ Position(s, r) \in 1 .. Len(s)
           /\ s[Position(s, r)] = r
           /\ Without(s, r) \in Seq(S)
           /\ Len(Without(s, r)) = Len(s) - 1
           /\ \A i \in 1 .. Len(s) - 1 :
                 Without(s, r)[i] = IF i < Position(s, r) THEN s[i] ELSE s[i + 1]
<1> DEFINE p == Position(s, r)
           a == SubSeq(s, 1, p - 1)
           b == SubSeq(s, p + 1, Len(s))
<1>1. p \in 1 .. Len(s) /\ s[p] = r
  BY DEF Position, Elements
<1> HIDE DEF p
<1>2. /\ a \in Seq(S) /\ Len(a) = p - 1
      /\ \A i \in 1 .. p - 1 : a[i] = s[i]
  BY <1>1, SubSeqProperties
<1>3. /\ b \in Seq(S) /\ Len(b) = Len(s) - p
      /\ \A i \in 1 .. Len(s) - p : b[i] = s[p + i]
  <2>1. CASE p < Len(s)
    BY <1>1, <2>1, SubSeqProperties
  <2>2. CASE p = Len(s)
    BY <1>1, <2>2, SubSeqProperties
  <2> QED
    BY <1>1, <2>1, <2>2
<1> HIDE DEF a, b
<1>4. /\ a \o b \in Seq(S) /\ Len(a \o b) = Len(s) - 1
      /\ \A i \in 1 .. Len(s) - 1 : (a \o b)[i] = IF i < p THEN s[i] ELSE s[i + 1]
  <2>1. a \o b \in Seq(S) /\ Len(a \o b) = Len(a) + Len(b)
    BY <1>2, <1>3, ConcatProperties
  <2>2. ASSUME NEW i \in 1 .. Len(s) - 1
        PROVE  (a \o b)[i] = IF i < p THEN s[i] ELSE s[i + 1]
    <3>1. (a \o b)[i] = IF i <= Len(a) THEN a[i] ELSE b[i - Len(a)]
      BY <1>1, <1>2, <1>3, ConcatProperties
    <3>2. ASSUME i < p
          PROVE  (a \o b)[i] = s[i]
      BY <1>1, <1>2, <3>1, <3>2
    <3>3. ASSUME ~(i < p)
          PROVE  (a \o b)[i] = s[i + 1]
      <4>1. i - Len(a) \in 1 .. Len(s) - p /\ p + (i - Len(a)) = i + 1
        BY <1>1, <1>2, <3>3
      <4> QED
        <5>1. (a \o b)[i] = b[i - Len(a)]
          BY <1>1, <1>2, <3>1, <3>3, <4>1
        <5>2. b[i - Len(a)] = s[p + (i - Len(a))]
          BY <1>3, <4>1
        <5>3. b[i - Len(a)] = s[i + 1]
          BY <4>1, <5>2
        <5> QED
          BY <1>1, <3>3, <5>1, <5>3
    <3> QED
      BY <3>2, <3>3
  <2> QED
    BY <1>1, <1>2, <1>3, <2>1, <2>2
<1>5. Without(s, r) = a \o b
  BY DEF Without, a, b, p
<1> QED
  BY <1>1, <1>4, <1>5 DEF p

LEMMA WithoutAbsent ==
    ASSUME NEW s, NEW r, r \notin Elements(s)
    PROVE  Without(s, r) = s
BY DEF Without

LEMMA WithoutType ==
    ASSUME NEW S, NEW s \in Seq(S), NEW r
    PROVE  Without(s, r) \in Seq(S) /\ Elements(Without(s, r)) \subseteq Elements(s)
<1>1. CASE r \in Elements(s)
  BY <1>1, WithoutPresent DEF Elements
<1>2. CASE r \notin Elements(s)
  BY <1>2, WithoutAbsent
<1> QED
  BY <1>1, <1>2

LEMMA TrimProperties ==
    ASSUME NEW S, NEW s \in Seq(S), NEW n \in Nat
    PROVE  /\ Trim(s, n) \in Seq(S)
           /\ Len(Trim(s, n)) = IF Len(s) > n THEN n ELSE Len(s)
           /\ \A i \in 1 .. Len(Trim(s, n)) : Trim(s, n)[i] = s[i]
           /\ Elements(Trim(s, n)) \subseteq Elements(s)
<1>1. /\ Trim(s, n) \in Seq(S)
      /\ Len(Trim(s, n)) = IF Len(s) > n THEN n ELSE Len(s)
      /\ \A i \in 1 .. Len(Trim(s, n)) : Trim(s, n)[i] = s[i]
  BY SubSeqProperties DEF Trim
<1> QED
  BY <1>1 DEF Elements

(* The recent list after a use: the record in front, and nobody new.        *)
LEMMA UpdateRecentProperties ==
    ASSUME NEW s \in Seq(Records), NEW r \in Records, cacheLimit \in Nat
    PROVE  /\ UpdateRecentRecords(s, r) \in Seq(Records)
           /\ Elements(UpdateRecentRecords(s, r)) \subseteq Elements(s) \cup {r}
<1> DEFINE m == <<r>> \o Without(s, r)
<1>1. Without(s, r) \in Seq(Records) /\ Elements(Without(s, r)) \subseteq Elements(s)
  BY WithoutType
<1>2. m \in Seq(Records) /\ Elements(m) \subseteq Elements(s) \cup {r}
  <2>1. /\ m \in Seq(Records) /\ Len(m) = Len(Without(s, r)) + 1
        /\ \A i \in 1 .. Len(m) : m[i] = IF i = 1 THEN r ELSE Without(s, r)[i - 1]
    BY <1>1
  <2>2. ASSUME NEW i \in 1 .. Len(m)
        PROVE  m[i] \in Elements(s) \cup {r}
    <3>1. CASE i = 1
      BY <2>1, <3>1
    <3>2. CASE i # 1
      <4>1. i - 1 \in 1 .. Len(Without(s, r))
        BY <1>1, <2>1, <3>2
      <4>2. Without(s, r)[i - 1] \in Elements(Without(s, r))
        BY <1>1, <4>1 DEF Elements
      <4> QED
        BY <1>1, <2>1, <3>2, <4>2
    <3> QED
      BY <3>1, <3>2
  <2> HIDE DEF m
  <2>3. DOMAIN m = 1 .. Len(m)
    BY <2>1
  <2> QED
    BY <2>1, <2>2, <2>3 DEF Elements
<1> HIDE DEF m
<1>3. UpdateRecentRecords(s, r) = Trim(m, cacheLimit)
  BY DEF m, UpdateRecentRecords
<1> QED
  BY <1>2, <1>3, TrimProperties

----------------------------------------------------------------------------
(* Types.                                                                   *)

LEMMA LoaderTypes ==
    ASSUME TypeOK, NEW w \in Loaders
    PROVE  /\ loader[w].pc = "load" =>
                 loader[w].kind \in Kinds /\ loader[w].time \in Times
           /\ loader[w].pc \in {"store", "complete"} =>
                 loader[w].kind \in Kinds /\ loader[w].record \in Records
<1>1. CASE loader[w] = Idle
  BY <1>1 DEF Idle
<1>2. CASE loader[w] \in [pc : {"load"}, kind : Kinds, time : Times]
  BY <1>2
<1>3. CASE loader[w] \in [pc : {"store", "complete"}, kind : Kinds, record : Records]
  BY <1>3
<1> QED
  BY <1>1, <1>2, <1>3 DEF TypeOK, LoaderStates

LEMMA LiveRecords == TypeOK => Live \in SUBSET Records
<1> SUFFICES ASSUME TypeOK, NEW r \in Live
             PROVE  r \in Records
  OBVIOUS
<1>1. CASE r \in Elements(recentRecords)
  BY <1>1 DEF TypeOK, Elements
<1>2. CASE r \in fileIndex \cup InViews
  BY <1>2 DEF TypeOK, InViews
<1>3. CASE r \in InRequests
  BY <1>3, LoaderTypes DEF InRequests
<1> QED
  BY <1>1, <1>2, <1>3 DEF Live

LEMMA StoredProperties ==
    ASSUME TypeOK, LiveRecordIsIndexed, NEW r \in Records
    PROVE  /\ Stored(r) \in Records
           /\ Stored(r).time = r.time
           /\ Stored(r) \in Live \/ (Stored(r) = r /\ \A l \in Live : l.time # r.time)
<1>1. r.time \in Times
  BY DEF Records
<1>2. CASE Lock(r.time) = {}
  <2>1. Stored(r) = r
    BY <1>2 DEF Stored
  <2>2. \A l \in Live : l.time # r.time
    BY <1>2 DEF Lock, LiveRecordIsIndexed
  <2> QED
    BY <2>1, <2>2
<1>3. CASE Lock(r.time) # {}
  <2>1. Stored(r) \in Lock(r.time)
    BY <1>3 DEF Stored
  <2>2. Stored(r) \in Live /\ Stored(r) \in recordMap[r.time]
    BY <2>1 DEF Lock
  <2> QED
    BY <1>1, <2>2 DEF TypeOK
<1> QED
  BY <1>2, <1>3

LEMMA TypeOKInit == Init => TypeOK
BY CacheAssumption DEF Init, TypeOK, LoaderStates

(* A step keeps the types; a load stores a record of its own time.          *)
LEMMA TypeOKInductive ==
    ASSUME TypeOK, LiveRecordIsIndexed, [Next]_vars
    PROVE  TypeOK'
<1> USE CacheAssumption DEF TypeOK
<1>1. ASSUME NEW listed \in Listings, PopulateProductTimes(listed)
      PROVE  TypeOK'
  BY <1>1 DEF PopulateProductTimes
<1>2. ASSUME NEW v \in Views, NEW t \in Times, GetProductRecord(v, t)
      PROVE  TypeOK'
  BY <1>2 DEF GetProductRecord, Lock
<1>3. ASSUME NEW v \in Views, ReleaseRecord(v)
      PROVE  TypeOK'
  BY <1>3 DEF ReleaseRecord
<1>4. ASSUME NEW limit \in Limits, SetCacheLimit(limit)
      PROVE  TypeOK'
  BY <1>4 DEF SetCacheLimit
<1>5. CASE Cleanup
  BY <1>5 DEF Cleanup
<1>6. ASSUME NEW w \in Loaders, NEW t \in Times,
             BeginProviderLoad(w, t) \/ BeginFileLoad(w, t)
      PROVE  TypeOK'
  <2>1. \A k \in Kinds : [pc |-> "load", kind |-> k, time |-> t] \in LoaderStates
    BY DEF LoaderStates
  <2>2. "provider" \in Kinds /\ "file" \in Kinds
    BY DEF Kinds
  <2> QED
    <3>1. PICK k \in Kinds : BeginLoad(w, k, t)
      BY <1>6, <2>2 DEF BeginProviderLoad, BeginFileLoad
    <3>2. /\ loader' \in [Loaders -> LoaderStates]
          /\ mutexOwner' \in [Kinds -> SUBSET Loaders]
      BY <2>1, <3>1 DEF BeginLoad
    <3>3. requests' \in SUBSET Times
      BY <1>6 DEF BeginProviderLoad, BeginFileLoad
    <3> QED
      BY <1>6, <3>2, <3>3 DEF BeginProviderLoad, BeginFileLoad
<1>7. ASSUME NEW w \in Loaders, CreateRecord(w)
      PROVE  TypeOK'
  <2>1. \A r \in Records :
           [pc |-> "store", kind |-> loader[w].kind, record |-> r] \in LoaderStates
    BY <1>7, LoaderTypes DEF CreateRecord, LoaderStates
  <2> QED
    BY <1>7, <2>1 DEF CreateRecord
<1>8. ASSUME NEW w \in Loaders, LoadFails(w)
      PROVE  TypeOK'
  <2>1. Idle \in LoaderStates
    BY DEF LoaderStates
  <2> QED
    BY <1>8, <2>1 DEF LoadFails
<1>9. ASSUME NEW w \in Loaders, StoreRadarProductRecord(w)
      PROVE  TypeOK'
  <2> DEFINE stored == Stored(loader[w].record)
  <2>1. loader[w].kind \in Kinds /\ loader[w].record \in Records
    BY <1>9, LoaderTypes DEF StoreRadarProductRecord
  <2>2. stored \in Records /\ stored.time \in Times
    BY <2>1, StoredProperties DEF Records
  <2> HIDE DEF stored
  <2>3. [pc |-> "complete", kind |-> loader[w].kind, record |-> stored] \in LoaderStates
    BY <2>1, <2>2 DEF LoaderStates
  <2>4. UpdateRecentRecords(recentRecords, stored) \in Seq(Records)
    BY <2>2, UpdateRecentProperties
  <2>5. <<stored.time>> \o Without(useOrder, stored.time) \in Seq(Times)
    BY <2>2, WithoutType
  <2>6. /\ keys' = keys \cup {stored.time}
        /\ recordMap' = [recordMap EXCEPT ![stored.time] = {stored}]
        /\ recentRecords' = UpdateRecentRecords(recentRecords, stored)
        /\ loader' = [loader EXCEPT ![w] =
              [pc |-> "complete", kind |-> loader[w].kind, record |-> stored]]
        /\ useOrder' = <<stored.time>> \o Without(useOrder, stored.time)
        /\ mutexOwner' = [mutexOwner EXCEPT ![loader[w].kind] = {}]
        /\ UNCHANGED <<cacheLimit, fileIndex, held, requests>>
    BY <1>9 DEF StoreRadarProductRecord, stored
  <2> QED
    BY <2>2, <2>3, <2>4, <2>5, <2>6
<1>10. ASSUME NEW w \in Loaders, CompleteRequest(w)
       PROVE  TypeOK'
  <2>1. Idle \in LoaderStates /\ loader[w].record \in Records
    BY <1>10, LoaderTypes DEF LoaderStates, CompleteRequest
  <2> QED
    BY <1>10, <2>1 DEF CompleteRequest
<1>11. CASE UNCHANGED vars
  BY <1>11 DEF vars
<1> QED
  BY <1>1, <1>2, <1>3, <1>4, <1>5, <1>6, <1>7, <1>8, <1>9, <1>10, <1>11 DEF Next

----------------------------------------------------------------------------
(* LiveRecordIsIndexed.                                                     *)

(* A step that lets no record come alive but those already alive, and keeps *)
(* the references of keys, keeps the index complete.                        *)
LEMMA IndexKept ==
    ASSUME TypeOK, LiveRecordIsIndexed,
           Live' \subseteq Live,
           keys \subseteq keys',
           \A t \in keys : recordMap'[t] = recordMap[t]
    PROVE  LiveRecordIsIndexed'
BY DEF LiveRecordIsIndexed

LEMMA LiveRecordIsIndexedInductive ==
    ASSUME TypeOK, LiveRecordIsIndexed, [Next]_vars, TypeOK'
    PROVE  LiveRecordIsIndexed'
<1> USE DEF TypeOK
<1>1. ASSUME NEW listed \in Listings, PopulateProductTimes(listed)
      PROVE  LiveRecordIsIndexed'
  <2>1. Live' = Live
    BY <1>1 DEF PopulateProductTimes, Live, InViews, InRequests, Elements
  <2>2. \A t \in keys : recordMap'[t] = recordMap[t]
    BY <1>1 DEF PopulateProductTimes
  <2> QED
    BY <1>1, <2>1, <2>2, IndexKept DEF PopulateProductTimes
<1>2. ASSUME NEW v \in Views, NEW t \in Times, GetProductRecord(v, t)
      PROVE  LiveRecordIsIndexed'
  <2>1. \A u \in Views : held'[u] \subseteq held[u] \cup Live
    BY <1>2 DEF GetProductRecord, Lock
  <2>2. UNCHANGED <<keys, recordMap, recentRecords, fileIndex, loader>>
    BY <1>2 DEF GetProductRecord
  <2>3. InViews \subseteq Live
    BY DEF Live
  <2>4. InViews' \subseteq Live
    BY <2>1, <2>3 DEF InViews
  <2>5. InRequests' = InRequests
    BY <2>2 DEF InRequests
  <2>6. Live' \subseteq Live
    BY <2>2, <2>4, <2>5 DEF Live, Elements
  <2> QED
    BY <2>2, <2>6, IndexKept
<1>3. ASSUME NEW v \in Views, ReleaseRecord(v)
      PROVE  LiveRecordIsIndexed'
  <2>1. Live' \subseteq Live
    BY <1>3 DEF ReleaseRecord, Live, InViews, InRequests, Elements
  <2> QED
    BY <1>3, <2>1, IndexKept DEF ReleaseRecord
<1>4. ASSUME NEW limit \in Limits, SetCacheLimit(limit)
      PROVE  LiveRecordIsIndexed'
  BY <1>4, IndexKept DEF SetCacheLimit, Live, InViews, InRequests, Elements
<1>5. CASE Cleanup
  <2>1. Live' \subseteq Live
    BY <1>5 DEF Cleanup, Live, InViews, InRequests, Elements
  <2> QED
    BY <1>5, <2>1, IndexKept DEF Cleanup
<1>6. ASSUME NEW w \in Loaders,
             UNCHANGED <<keys, recordMap, recentRecords, fileIndex, held>>,
             \A x \in Loaders : loader'[x].pc = "complete" => loader'[x] = loader[x]
      PROVE  LiveRecordIsIndexed'
  <2>1. Live' \subseteq Live
    BY <1>6 DEF Live, InViews, InRequests, Elements
  <2> QED
    BY <1>6, <2>1, IndexKept
<1>7. ASSUME NEW w \in Loaders, NEW t \in Times,
             BeginProviderLoad(w, t) \/ BeginFileLoad(w, t)
      PROVE  LiveRecordIsIndexed'
  BY <1>6, <1>7 DEF BeginProviderLoad, BeginFileLoad, BeginLoad
<1>8. ASSUME NEW w \in Loaders, CreateRecord(w) \/ LoadFails(w)
      PROVE  LiveRecordIsIndexed'
  BY <1>6, <1>8 DEF CreateRecord, LoadFails, Idle
<1>9. ASSUME NEW w \in Loaders, StoreRadarProductRecord(w)
      PROVE  LiveRecordIsIndexed'
  <2> DEFINE stored == Stored(loader[w].record)
  <2>1. loader[w].record \in Records
    BY <1>9, LoaderTypes DEF StoreRadarProductRecord
  <2>2. /\ stored \in Records
        /\ stored \in Live \/ \A l \in Live : l.time # stored.time
    BY <2>1, StoredProperties
  <2>3. /\ keys' = keys \cup {stored.time}
        /\ recordMap' = [recordMap EXCEPT ![stored.time] = {stored}]
        /\ recentRecords' = UpdateRecentRecords(recentRecords, stored)
        /\ loader' = [loader EXCEPT ![w] =
              [pc |-> "complete", kind |-> loader[w].kind, record |-> stored]]
        /\ UNCHANGED <<fileIndex, held>>
    BY <1>9 DEF StoreRadarProductRecord
  <2> HIDE DEF stored
  <2>4. Live' \subseteq Live \cup {stored}
    <3>1. Elements(recentRecords)' \subseteq Elements(recentRecords) \cup {stored}
      <4>1. Elements(UpdateRecentRecords(recentRecords, stored))
               \subseteq Elements(recentRecords) \cup {stored}
        BY <2>2, UpdateRecentProperties
      <4>2. Elements(recentRecords)' = Elements(UpdateRecentRecords(recentRecords, stored))
        BY <2>3 DEF Elements
      <4> QED
        BY <4>1, <4>2
    <3>2. InRequests' \subseteq InRequests \cup {stored}
      BY <2>3 DEF InRequests
    <3>3. InViews' = InViews /\ fileIndex' = fileIndex
      BY <2>3 DEF InViews
    <3> QED
      BY <3>1, <3>2, <3>3 DEF Live
  <2>5. stored.time \in Times
    BY <2>2 DEF Records
  <2>6. ASSUME NEW l \in Live, l.time = stored.time
        PROVE  l = stored
    BY <2>2, <2>6 DEF LiveRecordIsIndexed
  <2> QED
    BY <2>3, <2>4, <2>5, <2>6, LiveRecords DEF LiveRecordIsIndexed, Records
<1>10. ASSUME NEW w \in Loaders, CompleteRequest(w)
       PROVE  LiveRecordIsIndexed'
  <2>1. loader[w].pc = "complete" /\ loader[w].record \in Live
    BY <1>10 DEF CompleteRequest, Live, InRequests
  <2>2. fileIndex' \subseteq Live
    BY <1>10, <2>1 DEF CompleteRequest, Live, InRequests
  <2>3. \A x \in Loaders : loader'[x].pc = "complete" => loader'[x] = loader[x]
    BY <1>10 DEF CompleteRequest, Idle
  <2>4. UNCHANGED <<keys, recordMap, recentRecords, held>>
    BY <1>10 DEF CompleteRequest
  <2>5. Live' \subseteq Live
    BY <2>2, <2>3, <2>4 DEF Live, InViews, InRequests, Elements
  <2> QED
    BY <2>4, <2>5, IndexKept
<1>11. CASE UNCHANGED vars
  BY <1>11, IndexKept DEF vars, Live, InViews, InRequests, Elements
<1>12. ASSUME NEW w \in Loaders,
              \/ \E t \in Times : BeginProviderLoad(w, t)
              \/ \E t \in Files : BeginFileLoad(w, t)
       PROVE  LiveRecordIsIndexed'
  BY <1>7, <1>12, CacheAssumption
<1> QED
  BY <1>1, <1>2, <1>3, <1>4, <1>5, <1>8, <1>9, <1>10, <1>11, <1>12 DEF Next

LEMMA LiveRecordIsIndexedInit == Init => LiveRecordIsIndexed
BY DEF Init, LiveRecordIsIndexed, Live, InViews, InRequests, Elements, Idle

(* Types hold, and no live record is shadowed in the index: the two carry   *)
(* each other.                                                              *)
THEOREM CacheSafety == Spec => [](TypeOK /\ LiveRecordIsIndexed)
<1> DEFINE Inv == TypeOK /\ LiveRecordIsIndexed
<1>1. Init => Inv
  BY TypeOKInit, LiveRecordIsIndexedInit
<1>2. Inv /\ [Next]_vars => Inv'
  BY TypeOKInductive, LiveRecordIsIndexedInductive
<1> QED
  BY <1>1, <1>2, PTL DEF Spec

----------------------------------------------------------------------------
(* RecentIsLatestUses and ReloadedRecordStays.                              *)

Follows(R, U) ==
    Len(R) <= Len(U) /\ \A i \in 1 .. Len(R) : R[i].time = U[i]


(* The two lists after a use of r, before the recent list is trimmed.       *)
LEMMA UseKeepsFollowing ==
    ASSUME NEW R \in Seq(Records), NEW U \in Seq(Times), NEW r \in Records,
           r.time \in Times,
           Follows(R, U), Distinct(U),
           r \notin Elements(R) => \A i \in 1 .. Len(R) : R[i].time # r.time
    PROVE  LET WR == Without(R, r)
               WU == Without(U, r.time)
           IN  /\ WR \in Seq(Records) /\ WU \in Seq(Times)
               /\ Follows(WR, WU)
               /\ \A i \in 1 .. Len(WU) : WU[i] # r.time
               /\ Distinct(WU)
               /\ Len(R) = Len(U) => Len(WR) = Len(WU)
               /\ Len(WR) >= Len(R) \/ Len(WR) = Len(R) - 1
               /\ Len(WR) = Len(R) - 1 \/ r \notin Elements(R)
<1> DEFINE t == r.time
           WR == Without(R, r)
           WU == Without(U, t)
<1> USE DEF Follows, Distinct
<1>1. WR \in Seq(Records) /\ WU \in Seq(Times)
  BY WithoutType
<1>2. /\ \A i \in 1 .. Len(WU) : WU[i] # t
      /\ Distinct(WU)
  <2>1. CASE t \in Elements(U)
    <3> DEFINE q == Position(U, t)
    <3>1. /\ q \in 1 .. Len(U) /\ U[q] = t
          /\ Len(WU) = Len(U) - 1
          /\ \A i \in 1 .. Len(U) - 1 : WU[i] = IF i < q THEN U[i] ELSE U[i + 1]
      BY <2>1, WithoutPresent
    <3> HIDE DEF q, WU
    <3>2. ASSUME NEW i \in 1 .. Len(WU)
          PROVE  /\ i < q => WU[i] = U[i] /\ i \in 1 .. Len(U)
                 /\ ~(i < q) => WU[i] = U[i + 1] /\ i + 1 \in 1 .. Len(U)
      BY <3>1
    <3>3. ASSUME NEW i \in 1 .. Len(WU)
          PROVE  WU[i] # t
      BY <3>1, <3>2
    <3>4. ASSUME NEW i \in 1 .. Len(WU), NEW j \in 1 .. Len(WU), WU[i] = WU[j]
          PROVE  i = j
      BY <3>1, <3>2, <3>4
    <3> QED
      BY <3>3, <3>4
  <2>2. CASE t \notin Elements(U)
    BY <2>2, WithoutAbsent DEF Elements
  <2> QED
    BY <2>1, <2>2
<1>3. CASE r \in Elements(R)
  <2> DEFINE p == Position(R, r)
  <2>1. /\ p \in 1 .. Len(R) /\ R[p] = r
        /\ Len(WR) = Len(R) - 1
        /\ \A i \in 1 .. Len(R) - 1 : WR[i] = IF i < p THEN R[i] ELSE R[i + 1]
    BY <1>3, WithoutPresent
  <2> HIDE DEF p
  <2>2. p \in 1 .. Len(U) /\ U[p] = t
    BY <2>1
  <2>3. t \in Elements(U)
    BY <2>2 DEF Elements
  <2>4. /\ Position(U, t) = p
        /\ Len(WU) = Len(U) - 1
        /\ \A i \in 1 .. Len(U) - 1 : WU[i] = IF i < p THEN U[i] ELSE U[i + 1]
    <3> DEFINE q == Position(U, t)
    <3>1. /\ q \in 1 .. Len(U) /\ U[q] = t
          /\ Len(WU) = Len(U) - 1
          /\ \A i \in 1 .. Len(U) - 1 : WU[i] = IF i < q THEN U[i] ELSE U[i + 1]
      BY <2>3, WithoutPresent
    <3> HIDE DEF q, WU
    <3>2. q = p
      BY <2>2, <3>1
    <3>3. Len(WU) = Len(U) - 1
          /\ \A i \in 1 .. Len(U) - 1 : WU[i] = IF i < p THEN U[i] ELSE U[i + 1]
      BY <3>1, <3>2
    <3> QED
      BY <3>2, <3>3 DEF q
  <2> HIDE DEF WR, WU
  <2>5. ASSUME NEW i \in 1 .. Len(WR)
        PROVE  WR[i].time = WU[i]
    <3>1. i \in 1 .. Len(R) - 1 /\ i \in 1 .. Len(U) - 1
          /\ i \in 1 .. Len(R) /\ i + 1 \in 1 .. Len(R)
      BY <2>1
    <3>2. R[i].time = U[i] /\ R[i + 1].time = U[i + 1]
      BY <3>1
    <3> QED
      BY <2>1, <2>4, <3>1, <3>2
  <2>6. Len(WR) <= Len(WU)
    BY <2>1, <2>4
  <2> QED
    BY <1>1, <1>2, <2>1, <2>4, <2>5, <2>6 DEF WR, WU
<1>4. CASE r \notin Elements(R)
  <2>1. WR = R
    BY <1>4, WithoutAbsent
  <2>2. CASE t \in Elements(U)
    <3> DEFINE q == Position(U, t)
    <3>1. /\ q \in 1 .. Len(U) /\ U[q] = t
          /\ Len(WU) = Len(U) - 1
          /\ \A i \in 1 .. Len(U) - 1 : WU[i] = IF i < q THEN U[i] ELSE U[i + 1]
      BY <2>2, WithoutPresent
    <3> HIDE DEF q
    <3>2. q > Len(R)
      <4> SUFFICES ASSUME q \in 1 .. Len(R)
                   PROVE  FALSE
        BY <3>1
      <4>1. R[q].time = t
        BY <3>1
      <4> QED
        BY <1>4, <4>1
    <3> HIDE DEF WU, WR
    <3>3. Len(R) <= Len(WU) /\ \A i \in 1 .. Len(R) : WU[i] = U[i]
      BY <3>1, <3>2
    <3>4. Follows(WR, WU)
      BY <2>1, <3>3
    <3> QED
      BY <1>1, <1>2, <1>4, <2>1, <3>1, <3>2, <3>4 DEF WR, WU
  <2>3. CASE t \notin Elements(U)
    <3>1. WU = U
      BY <2>3, WithoutAbsent
    <3> HIDE DEF WU, WR
    <3>2. Follows(WR, WU)
      BY <2>1, <3>1
    <3> QED
      BY <1>1, <1>2, <1>4, <2>1, <3>1, <3>2 DEF WR, WU
  <2> QED
    BY <2>2, <2>3
<1> QED
  BY <1>3, <1>4

(* The inductive strengthening: the latest uses are distinct times, and the *)
(* recent list has dropped one only when it was longer than MinLimit.       *)
UseInv ==
    /\ RecentIsLatestUses
    /\ Distinct(useOrder)
    /\ Len(recentRecords) >= MinLimit \/ Len(recentRecords) = Len(useOrder)

LEMMA UseInvKept ==
    ASSUME UseInv, UNCHANGED <<recentRecords, useOrder>>
    PROVE  UseInv'
BY DEF UseInv, RecentIsLatestUses, Distinct

LEMMA UseInvInductive ==
    ASSUME TypeOK, LiveRecordIsIndexed, UseInv, [Next]_vars
    PROVE  UseInv'
<1> DEFINE R == recentRecords
           U == useOrder
<1>1. ASSUME NEW w \in Loaders, StoreRadarProductRecord(w)
      PROVE  UseInv'
  <2> DEFINE r == Stored(loader[w].record)
             WR == Without(R, r)
             WU == Without(U, r.time)
             m == <<r>> \o WR
             V == <<r.time>> \o WU
  <2>1. loader[w].record \in Records
    BY <1>1, LoaderTypes DEF StoreRadarProductRecord
  <2>2. /\ r \in Records /\ r.time \in Times
        /\ r \in Live \/ \A l \in Live : l.time # r.time
    BY <2>1, StoredProperties DEF Records
  <2>3. recentRecords' = UpdateRecentRecords(R, r) /\ useOrder' = V
    BY <1>1 DEF StoreRadarProductRecord
  <2>4. recentRecords' = Trim(m, cacheLimit)
    BY <2>3 DEF UpdateRecentRecords
  <2>5. R \in Seq(Records) /\ U \in Seq(Times) /\ cacheLimit \in Nat
        /\ MinLimit \in Nat /\ cacheLimit >= MinLimit /\ MinLimit >= 1
    BY CacheAssumption DEF TypeOK
  <2>6. Follows(R, U) /\ Distinct(U)
    BY DEF UseInv, RecentIsLatestUses, Follows
  <2> HIDE DEF r, R, U
  <2>7. r \notin Elements(R) => \A i \in 1 .. Len(R) : R[i].time # r.time
    <3>1. \A i \in 1 .. Len(R) : R[i] \in Elements(R) /\ R[i] \in Live
      BY <2>5 DEF R, Elements, Live
    <3>2. r \in Live => \A l \in Live : l.time = r.time => l = r
      BY DEF LiveRecordIsIndexed
    <3> QED
      BY <2>2, <3>1, <3>2
  <2>8. /\ WR \in Seq(Records) /\ WU \in Seq(Times)
        /\ Follows(WR, WU)
        /\ \A i \in 1 .. Len(WU) : WU[i] # r.time
        /\ Distinct(WU)
        /\ Len(R) = Len(U) => Len(WR) = Len(WU)
        /\ Len(WR) >= Len(R) \/ Len(WR) = Len(R) - 1
        /\ Len(WR) = Len(R) - 1 \/ r \notin Elements(R)
    BY <2>2, <2>5, <2>6, <2>7, UseKeepsFollowing
  <2> HIDE DEF WR, WU
  <2>9. /\ m \in Seq(Records) /\ Len(m) = Len(WR) + 1
        /\ \A i \in 1 .. Len(m) : m[i] = IF i = 1 THEN r ELSE WR[i - 1]
    BY <2>2, <2>8
  <2>10. /\ V \in Seq(Times) /\ Len(V) = Len(WU) + 1
         /\ \A i \in 1 .. Len(V) : V[i] = IF i = 1 THEN r.time ELSE WU[i - 1]
    BY <2>2, <2>8
  <2> HIDE DEF m, V
  <2>11. Follows(m, V)
    <3>1. Len(m) <= Len(V)
      BY <2>8, <2>9, <2>10 DEF Follows
    <3>2. ASSUME NEW i \in 1 .. Len(m), i # 1
          PROVE  m[i].time = V[i]
      <4>1. i - 1 \in 1 .. Len(WR) /\ i \in 1 .. Len(V)
        BY <2>8, <2>9, <3>1, <3>2
      <4>2. WR[i - 1].time = WU[i - 1]
        BY <2>8, <4>1 DEF Follows
      <4> QED
        BY <2>9, <2>10, <3>2, <4>1, <4>2
    <3>3. 1 \in 1 .. Len(m) => m[1].time = V[1]
      BY <2>8, <2>9, <2>10
    <3> QED
      BY <3>1, <3>2, <3>3 DEF Follows
  <2>12. Distinct(V)
    <3>1. ASSUME NEW i \in 1 .. Len(V), NEW j \in 1 .. Len(V), V[i] = V[j]
          PROVE  i = j
      <4>1. /\ i = 1 \/ (i - 1 \in 1 .. Len(WU) /\ V[i] = WU[i - 1])
            /\ j = 1 \/ (j - 1 \in 1 .. Len(WU) /\ V[j] = WU[j - 1])
        BY <2>8, <2>10
      <4>2. V[1] = r.time
        BY <2>8, <2>10
      <4> QED
        BY <2>8, <3>1, <4>1, <4>2 DEF Distinct
    <3> QED
      BY <3>1 DEF Distinct
  <2>13. LET T == Trim(m, cacheLimit)
         IN  /\ T \in Seq(Records)
             /\ Len(T) = IF Len(m) > cacheLimit THEN cacheLimit ELSE Len(m)
             /\ \A i \in 1 .. Len(T) : T[i] = m[i]
    BY <2>5, <2>9, TrimProperties
  <2> DEFINE T == Trim(m, cacheLimit)
  <2>14. Len(T) <= Len(m) /\ (Len(T) >= MinLimit \/ Len(T) = Len(m))
    BY <2>5, <2>9, <2>13
  <2>15. Len(m) >= MinLimit \/ Len(m) = Len(V)
    <3>1. Len(R) >= MinLimit \/ Len(R) = Len(U)
      BY DEF UseInv, R, U
    <3> QED
      BY <2>5, <2>8, <2>9, <2>10, <3>1
  <2> HIDE DEF T
  <2>16. Follows(T, V)
    BY <2>11, <2>13, <2>14 DEF Follows, T
  <2>17. Len(T) >= MinLimit \/ Len(T) = Len(V)
    BY <2>5, <2>14, <2>15, <2>13, <2>9, <2>10, <2>11 DEF T, Follows
  <2>18. recentRecords' = T /\ useOrder' = V
    BY <2>3, <2>4 DEF T
  <2> QED
    BY <2>12, <2>16, <2>17, <2>18
       DEF UseInv, RecentIsLatestUses, Follows, Distinct
<1>2. CASE \/ \E listed \in Listings : PopulateProductTimes(listed)
           \/ \E v \in Views, t \in Times : GetProductRecord(v, t)
           \/ \E v \in Views : ReleaseRecord(v)
           \/ \E limit \in Limits : SetCacheLimit(limit)
           \/ Cleanup
  BY <1>2, UseInvKept
     DEF PopulateProductTimes, GetProductRecord, ReleaseRecord, SetCacheLimit, Cleanup
<1>3. ASSUME NEW w \in Loaders,
             \/ \E t \in Times : BeginProviderLoad(w, t)
             \/ \E t \in Files : BeginFileLoad(w, t)
      PROVE  UseInv'
  BY <1>3, UseInvKept DEF BeginProviderLoad, BeginFileLoad
<1>4. ASSUME NEW w \in Loaders, CreateRecord(w) \/ LoadFails(w) \/ CompleteRequest(w)
      PROVE  UseInv'
  BY <1>4, UseInvKept DEF CreateRecord, LoadFails, CompleteRequest
<1>5. CASE UNCHANGED vars
  BY <1>5, UseInvKept DEF vars
<1> QED
  BY <1>1, <1>2, <1>3, <1>4, <1>5 DEF Next

LEMMA UseInvInit == Init => UseInv
BY CacheAssumption DEF Init, UseInv, RecentIsLatestUses, Distinct

(* The latest MinLimit uses are in the recent list, alive, and indexed.     *)
LEMMA UseInvKeepsRecords ==
    ASSUME TypeOK, LiveRecordIsIndexed, UseInv
    PROVE  ReloadedRecordStays
<1> SUFFICES ASSUME NEW i \in 1 .. Len(useOrder), i <= MinLimit
             PROVE  Lock(useOrder[i]) # {}
  BY DEF ReloadedRecordStays
<1>1. i \in 1 .. Len(recentRecords)
  BY CacheAssumption DEF UseInv, TypeOK
<1>2. recentRecords[i].time = useOrder[i] /\ recentRecords[i] \in Live
  BY <1>1 DEF UseInv, RecentIsLatestUses, Live, Elements, TypeOK
<1> QED
  BY <1>2 DEF LiveRecordIsIndexed, Lock

(* The recent list is an exact least-recently-used list, and what was used  *)
(* within the last MinLimit times can still be found.                       *)
THEOREM RecentSafety == Spec => [](RecentIsLatestUses /\ ReloadedRecordStays)
<1> DEFINE Inv == TypeOK /\ LiveRecordIsIndexed /\ UseInv
<1>1. Init => Inv
  BY TypeOKInit, LiveRecordIsIndexedInit, UseInvInit
<1>2. Inv /\ [Next]_vars => Inv'
  BY TypeOKInductive, LiveRecordIsIndexedInductive, UseInvInductive
<1>3. Inv => RecentIsLatestUses /\ ReloadedRecordStays
  BY UseInvKeepsRecords DEF UseInv
<1> QED
  BY <1>1, <1>2, <1>3, PTL DEF Spec
(* Each of the invariants of the runs, for every value of the constants.    *)

(* Every state of every behaviour is well typed.                            *)
THEOREM CacheTypes == Spec => []TypeOK
BY CacheSafety, PTL

(* The record stored last, and those before it, can still be found.         *)
THEOREM ReloadedStays == Spec => []ReloadedRecordStays
BY RecentSafety, PTL

----------------------------------------------------------------------------
(* The recent list implements LruCache.                                     *)

(* The times of the recent list, which Lru reads as its cached keys.        *)
TimesOf(R) == [i \in DOMAIN R |-> R[i].time]

(* A store is a use of the record's time.                                   *)
LEMMA StoreIsUse ==
    ASSUME TypeOK, LiveRecordIsIndexed, UseInv,
           NEW w \in Loaders, StoreRadarProductRecord(w)
    PROVE  \E k \in Times : Lru!Use(k)
<1> DEFINE R == recentRecords
           r == Stored(loader[w].record)
           C == TimesOf(R)
           m == <<r>> \o Without(R, r)
<1>1. loader[w].record \in Records
  BY LoaderTypes DEF StoreRadarProductRecord
<1>0. r \in Records /\ r.time \in Times
  BY <1>1, StoredProperties DEF Records
<1>t. PICK t \in Times : t = r.time
  BY <1>0
<1>2. /\ r \in Records /\ t \in Times /\ t = r.time
      /\ r \in Live \/ \A l \in Live : l.time # t
  BY <1>0, <1>1, <1>t, StoredProperties
<1>3. recentRecords' = Trim(m, cacheLimit) /\ UNCHANGED cacheLimit
  BY DEF StoreRadarProductRecord, UpdateRecentRecords
<1>4. R \in Seq(Records) /\ cacheLimit \in Nat /\ cacheLimit >= 1
  BY CacheAssumption DEF TypeOK
<1>5. r \notin Elements(R) => \A i \in 1 .. Len(R) : R[i].time # t
  <2>1. \A i \in 1 .. Len(R) : R[i] \in Elements(R) /\ R[i] \in Live
    BY <1>4 DEF Elements, Live
  <2>2. r \in Live => \A l \in Live : l.time = t => l = r
    BY <1>2 DEF LiveRecordIsIndexed
  <2> QED
    BY <1>2, <2>1, <2>2
<1>6. \A i, j \in 1 .. Len(R) : R[i].time = R[j].time => i = j
  <2>1. useOrder \in Seq(Times) /\ Len(R) <= Len(useOrder)
        /\ \A i \in 1 .. Len(R) : R[i].time = useOrder[i]
    BY DEF UseInv, RecentIsLatestUses, TypeOK
  <2>2. \A i \in 1 .. Len(R) : i \in 1 .. Len(useOrder)
    BY <1>4, <2>1
  <2> QED
    BY <2>1, <2>2 DEF UseInv, Distinct
<1> HIDE DEF r, R
<1>7. /\ DOMAIN C = 1 .. Len(R) /\ Len(R) \in Nat /\ Len(C) = Len(R)
      /\ \A i \in 1 .. Len(R) : C[i] = R[i].time
  <2>1. DOMAIN R = 1 .. Len(R) /\ Len(R) \in Nat
    BY <1>4
  <2>2. ASSUME NEW i \in 1 .. Len(R)
        PROVE  R[i].time \in Times
    <3>1. R[i] \in Records
      BY <1>4
    <3> QED
      BY <3>1 DEF Records
  <2>3. C = [i \in 1 .. Len(R) |-> R[i].time]
    BY <2>1 DEF TimesOf
  <2>4. C \in Seq(Times) /\ Len(C) = Len(R)
    BY <2>1, <2>2, <2>3
  <2> QED
    BY <2>1, <2>3, <2>4
<1> HIDE DEF C
<1> DEFINE P == Lru!Place(t)
           n == IF P > Len(C) THEN P ELSE Len(C)
<1>8. P = (IF \E i \in DOMAIN C : C[i] = t
           THEN CHOOSE i \in DOMAIN C : C[i] = t ELSE Len(C) + 1)
  BY DEF Lru!Place, C, TimesOf, R
<1>9. /\ m \in Seq(Records) /\ Len(m) = n
      /\ \A i \in 1 .. n : m[i].time = IF i = 1 THEN t
                                       ELSE IF i <= P THEN C[i - 1] ELSE C[i]
  <2>1. CASE r \in Elements(R)
    <3> DEFINE p == Position(R, r)
               W == Without(R, r)
    <3>1. /\ p \in 1 .. Len(R) /\ R[p] = r
          /\ W \in Seq(Records) /\ Len(W) = Len(R) - 1
          /\ \A i \in 1 .. Len(R) - 1 : W[i] = IF i < p THEN R[i] ELSE R[i + 1]
      BY <1>4, <2>1, WithoutPresent
    <3> HIDE DEF p, W
    <3>2. P = p
      <4>1. \A i \in DOMAIN C : C[i] = t <=> i = p
        BY <1>2, <1>6, <1>7, <3>1
      <4>2. p \in DOMAIN C
        BY <1>7, <3>1
      <4> QED
        BY <1>8, <4>1, <4>2
    <3> HIDE DEF P
    <3>3. n = Len(R)
      <4>1. P \in 1 .. Len(R)
        BY <3>1, <3>2
      <4>2. Len(C) = Len(R) /\ Len(R) \in Nat
        BY <1>7
      <4> QED
        BY <4>1, <4>2
    <3>4. /\ m \in Seq(Records) /\ Len(m) = Len(W) + 1
          /\ \A i \in 1 .. Len(m) : m[i] = IF i = 1 THEN r ELSE W[i - 1]
      BY <1>2, <3>1 DEF W
    <3> HIDE DEF m, n, P
    <3>5. ASSUME NEW i \in 1 .. n, i # 1
          PROVE  m[i].time = IF i <= P THEN C[i - 1] ELSE C[i]
      <4>1. i - 1 \in 1 .. Len(R) - 1 /\ i \in 1 .. Len(m)
        BY <1>7, <3>1, <3>3, <3>4, <3>5
      <4>2. m[i] = IF i - 1 < p THEN R[i - 1] ELSE R[(i - 1) + 1]
        BY <3>1, <3>4, <3>5, <4>1
      <4>3. (i - 1) + 1 = i /\ (i - 1 < p <=> i <= p) /\ i \in 1 .. Len(R)
            /\ i - 1 \in 1 .. Len(R)
        BY <1>7, <3>1, <3>3, <4>1
      <4> QED
        BY <1>7, <3>2, <4>2, <4>3
    <3>6. 1 \in 1 .. n => m[1].time = t
      BY <1>2, <1>7, <3>1, <3>3, <3>4
    <3> QED
      BY <1>7, <3>1, <3>3, <3>4, <3>5, <3>6
  <2>2. CASE r \notin Elements(R)
    <3>1. Without(R, r) = R
      BY <2>2, WithoutAbsent
    <3>2. P = Len(R) + 1
      BY <1>5, <1>7, <1>8, <2>2
    <3>3. n = Len(R) + 1
      BY <1>7, <3>2
    <3>4. /\ m \in Seq(Records) /\ Len(m) = Len(R) + 1
          /\ \A i \in 1 .. Len(m) : m[i] = IF i = 1 THEN r ELSE R[i - 1]
      BY <1>2, <1>4, <3>1
    <3> HIDE DEF m, n, P
    <3>5. ASSUME NEW i \in 1 .. n, i # 1
          PROVE  m[i].time = C[i - 1] /\ i <= P
      <4>1. i - 1 \in 1 .. Len(R) /\ i \in 1 .. Len(m)
        BY <1>7, <3>3, <3>4, <3>5
      <4> QED
        BY <1>7, <3>2, <3>3, <3>4, <3>5, <4>1
    <3>6. 1 \in 1 .. n => m[1].time = t
      BY <1>2, <1>7, <3>3, <3>4
    <3> QED
      BY <1>7, <3>3, <3>4, <3>5, <3>6
  <2> QED
    BY <2>1, <2>2
<1> HIDE DEF m, P
<1>10. n \in Nat /\ n >= 1
  <2>1. P \in Nat /\ P >= 1
    BY <1>7, <1>8
  <2> QED
    BY <1>7, <2>1
<1> HIDE DEF n
<1> DEFINE T == Trim(m, cacheLimit)
           k == Lru!Smaller(cacheLimit, n)
<1>11. /\ T \in Seq(Records) /\ Len(T) = k
       /\ \A i \in 1 .. k : T[i] = m[i] /\ i \in 1 .. n
  <2>1. /\ T \in Seq(Records)
        /\ Len(T) = IF Len(m) > cacheLimit THEN cacheLimit ELSE Len(m)
        /\ \A i \in 1 .. Len(T) : T[i] = m[i]
    BY <1>4, <1>9, TrimProperties
  <2>2. k = IF n > cacheLimit THEN cacheLimit ELSE n
    BY <1>4, <1>10 DEF Lru!Smaller
  <2> HIDE DEF T, k
  <2>3. Len(T) = k /\ k <= n /\ k \in Nat
    BY <1>4, <1>9, <1>10, <2>1, <2>2
  <2> QED
    BY <1>10, <2>1, <2>3
<1> HIDE DEF T, k
<1>12. TimesOf(T) = [i \in 1 .. k |-> IF i = 1 THEN t
                                     ELSE IF i <= P THEN C[i - 1] ELSE C[i]]
  <2>1. DOMAIN T = 1 .. k
    BY <1>11
  <2>2. \A i \in 1 .. k : T[i].time = IF i = 1 THEN t
                                     ELSE IF i <= P THEN C[i - 1] ELSE C[i]
    BY <1>9, <1>11
  <2> QED
    BY <2>1, <2>2 DEF TimesOf
<1>13. recentRecords' = T /\ cacheLimit' = cacheLimit
  BY <1>3 DEF T
<1>14. Lru!Use(t)
  BY <1>12, <1>13 DEF Lru!Use, TimesOf, C, R, P, n, k
<1> QED
  BY <1>2, <1>14

LEMMA LruStep ==
    ASSUME TypeOK, LiveRecordIsIndexed, UseInv, [Next]_vars, TypeOK'
    PROVE  [Lru!LruNext]_<<[i \in DOMAIN recentRecords |-> recentRecords[i].time], cacheLimit>>
<1> DEFINE Stutter == UNCHANGED <<recentRecords, cacheLimit>>
<1>1. Stutter =>
        UNCHANGED <<[i \in DOMAIN recentRecords |-> recentRecords[i].time], cacheLimit>>
  OBVIOUS
<1>2. ASSUME NEW w \in Loaders, StoreRadarProductRecord(w)
      PROVE  Lru!LruNext
  BY <1>2, StoreIsUse DEF Lru!LruNext
<1>3. ASSUME NEW limit \in Limits, SetCacheLimit(limit)
      PROVE  Lru!LruNext
  <2>1. cacheLimit' \in Nat /\ cacheLimit' >= MinLimit /\ UNCHANGED recentRecords
    BY <1>3 DEF SetCacheLimit, TypeOK
  <2> QED
    BY <2>1 DEF Lru!LruNext, Lru!Resize
<1>4. CASE \/ \E listed \in Listings : PopulateProductTimes(listed)
           \/ \E v \in Views, t \in Times : GetProductRecord(v, t)
           \/ \E v \in Views : ReleaseRecord(v)
           \/ Cleanup
  BY <1>4 DEF PopulateProductTimes, GetProductRecord, ReleaseRecord, Cleanup
<1>5. ASSUME NEW w \in Loaders,
             \/ \E t \in Times : BeginProviderLoad(w, t)
             \/ \E t \in Files : BeginFileLoad(w, t)
             \/ CreateRecord(w) \/ LoadFails(w) \/ CompleteRequest(w)
      PROVE  Stutter
  BY <1>5 DEF BeginProviderLoad, BeginFileLoad, CreateRecord, LoadFails, CompleteRequest
<1>6. CASE UNCHANGED vars
  BY <1>6 DEF vars
<1> HIDE DEF Stutter
<1> QED
  BY <1>1, <1>2, <1>3, <1>4, <1>5, <1>6 DEF Next

(* The detailed cache implements the abstract one: every store is a use,    *)
(* every change of the limit a resizing, and everything else a stutter.     *)
THEOREM Refinement == Spec => ImplementsLru
<1> DEFINE Inv == TypeOK /\ LiveRecordIsIndexed /\ UseInv
<1>1. Init => Inv
  BY TypeOKInit, LiveRecordIsIndexedInit, UseInvInit
<1>2. Inv /\ [Next]_vars => Inv'
  BY TypeOKInductive, LiveRecordIsIndexedInductive, UseInvInductive
<1>3. Init => Lru!LruInit
  <2> SUFFICES ASSUME Init
               PROVE  [i \in DOMAIN recentRecords |-> recentRecords[i].time] = << >>
    BY DEF Init, Lru!LruInit
  <2>1. recentRecords = << >> /\ DOMAIN recentRecords = {}
    BY DEF Init
  <2> QED
    BY <2>1
<1>4. Inv /\ Inv' /\ [Next]_vars =>
        [Lru!LruNext]_<<[i \in DOMAIN recentRecords |-> recentRecords[i].time], cacheLimit>>
  BY LruStep
<1> HIDE DEF Inv
<1> QED
  BY <1>1, <1>2, <1>3, <1>4, PTL DEF Spec, ImplementsLru, Lru!LruSpec

----------------------------------------------------------------------------
(*****************************************************************************)
(* NexradDataProvider, for any objects, days, threads and limits. That no    *)
(* object is orphaned rests on what the threads have left to insert; that    *)
(* pruning spares what is recent, on no date being listed that is to come,   *)
(* and none twice.                                                           *)
(*****************************************************************************)

Listing == {"list", "insert", "dates", "prune", "return"}
Answered == {"insert", "dates", "prune", "return"}

(* Nobody works on a date to come; the day before is listed for a refresh;   *)
(* what is left to insert are objects of the date.                          *)
CallOK(c) ==
    /\ c.pc # "idle" => c.date <= today
    /\ c.pc \in Listing /\ c.for = "yesterday" => c.date < today
    /\ c.pc \in Answered => \A t \in c.left : t \in published /\ Date(t) = c.date
    /\ c.pc = "insert" => c.left # {}

CallsOK == \A w \in Threads : CallOK(caller[w])
DatesPast == \A date \in Dates : date <= today

ProviderInv == ProviderTypeOK /\ CallsOK /\ DatesPast /\ NoOrphans

Answer(pc, date, for, left, new, found, success) ==
    [pc |-> pc, date |-> date, for |-> for, left |-> left, new |-> new, found |-> found,
     success |-> success]

LEMMA CallerFields ==
  ASSUME NEW c \in Callers
  PROVE  /\ c.pc \in {"idle", "touch", "lock"} \cup Listing
         /\ c.pc # "idle" => c.date \in Days
         /\ c.pc \in Listing => c.for \in Purposes
         /\ c.pc = "idle" => c = NotCalling
         /\ c.pc \in Answered =>
               /\ c.left \in SUBSET ObjectTimes
               /\ c.new \in BOOLEAN /\ c.found \in BOOLEAN /\ c.success \in BOOLEAN
               /\ c = Answer(c.pc, c.date, c.for, c.left, c.new, c.found, c.success)
<1> USE DEF Listing, Answered
<1>1. CASE c = NotCalling
  BY <1>1 DEF NotCalling
<1>2. CASE c \in [pc : {"list"}, date : Days, for : Purposes]
  BY <1>2
<1>3. CASE c \in [pc : {"insert", "dates", "prune", "return"}, date : Days, for : Purposes,
                  left : SUBSET ObjectTimes, new : BOOLEAN, found : BOOLEAN,
                  success : BOOLEAN]
  BY <1>3 DEF Answer
<1>4. CASE c \in [pc : {"touch", "lock"}, date : Days]
  BY <1>4
<1> QED  BY <1>1, <1>2, <1>3, <1>4 DEF Callers

LEMMA CallersAre ==
  /\ NotCalling \in Callers
  /\ \A date \in Days, for \in Purposes : ListObjects(date, for) \in Callers
  /\ \A pc \in Answered, date \in Days, for \in Purposes, left \in SUBSET ObjectTimes,
        new \in BOOLEAN, found \in BOOLEAN, success \in BOOLEAN :
        Answer(pc, date, for, left, new, found, success) \in Callers
  /\ \A date \in Days : [pc |-> "touch", date |-> date] \in Callers
                     /\ [pc |-> "lock", date |-> date] \in Callers
  BY DEF Callers, NotCalling, ListObjects, Answer, Answered

LEMMA DaysAre ==
  ASSUME ProviderTypeOK
  PROVE  /\ today \in Days /\ today \in Nat /\ refreshDate \in Nat
         /\ \A date \in Days : date \in Nat
         /\ \A date \in Nat : date <= today => date \in Days
         /\ \A t \in ObjectTimes : t \in Nat
  BY ProviderAssumption DEF ProviderTypeOK, Days

(* The date list, without repetition.                                        *)
LEMMA DateList ==
  ProviderTypeOK =>
    objectDates \in Seq(Days) /\ Distinct(objectDates) /\ Dates \subseteq Days
<1>1. ASSUME ProviderTypeOK
      PROVE  objectDates \in Seq(Days) /\ Distinct(objectDates) /\ Dates \subseteq Days
  <2>1. objectDates \in Seq(Days) /\ Cardinality(Dates) = Len(objectDates)
    BY <1>1 DEF ProviderTypeOK
  <2>2. Distinct(objectDates)
    BY <2>1, DistinctCardinality DEF Dates
  <2>3. \A i \in 1 .. Len(objectDates) : objectDates[i] \in Days
    BY <2>1
  <2>4. Dates \subseteq Days
    BY <2>3 DEF Dates, Entries
  <2> QED  BY <2>1, <2>2, <2>4
<1> QED  BY <1>1

LEMMA UpdatedDates ==
  ASSUME ProviderTypeOK, NEW date \in Days, UpdateObjectDates(date)
  PROVE  /\ objectDates' \in Seq(Days) /\ Cardinality(Dates') = Len(objectDates')
         /\ Dates' = Dates \cup {date}
<1> DEFINE K == Keeping(objectDates, Days \ {date})
<1>1. K \in Seq(Days) /\ Distinct(K) /\ Entries(K) = Dates \ {date}
  BY DateList, KeepingPlaces, KeepingDistinct, KeepingEntries DEF Dates
<1>2. objectDates' = Append(K, date)
  BY DEF UpdateObjectDates
<1> HIDE DEF K
<1>3. objectDates' \in Seq(Days) /\ Entries(objectDates') = Dates \cup {date}
  BY <1>1, <1>2, AppendEntries
<1>4. Distinct(objectDates')
  BY <1>1, <1>2, AppendDistinct
<1>5. Cardinality(Entries(objectDates')) = Len(objectDates')
  BY <1>3, <1>4, DistinctCardinality
<1> QED  BY <1>3, <1>5 DEF Dates

LEMMA PrunedList ==
  ASSUME ProviderTypeOK, NEW w \in Threads, PruneObjects(w)
  PROVE  /\ objectDates' \in Seq(Days) /\ Cardinality(Dates') = Len(objectDates')
         /\ Dates' = Dates \ PrunedDates
         /\ objects' = {t \in objects : Date(t) \notin PrunedDates}
         /\ PrunedDates \subseteq Dates /\ \A date \in PrunedDates : Prunable(date)
<1>1. objectDates' = Keeping(objectDates, Days \ PrunedDates) /\ objects' = Remaining(PrunedDates)
  BY DEF PruneObjects
<1>2. objectDates' \in Seq(Days) /\ Entries(objectDates') = Dates \cap (Days \ PrunedDates)
      /\ Distinct(objectDates')
  BY <1>1, DateList, KeepingPlaces, KeepingDistinct, KeepingEntries DEF Dates
<1>3. Cardinality(Entries(objectDates')) = Len(objectDates')
  BY <1>2, DistinctCardinality
<1>4. PrunedDates \subseteq Dates /\ \A date \in PrunedDates : Prunable(date)
  BY DEF PrunedDates, PrunedPlaces, Dates, Entries
<1> QED  BY <1>1, <1>2, <1>3, <1>4, DateList DEF Dates, Remaining

----------------------------------------------------------------------------
(* A step of a thread changes where it is, and what the others may rely on   *)
(* only grows.                                                              *)

LEMMA StepKeepsCalls ==
  ASSUME ProviderInv, NEW w \in Threads, NEW c \in Callers,
         caller' = [caller EXCEPT ![w] = c],
         UNCHANGED <<today, published>>,
         CallOK(c)
  PROVE  caller' \in [Threads -> Callers] /\ CallsOK'
<1>1. caller' \in [Threads -> Callers]
  BY DEF ProviderInv, ProviderTypeOK
<1>2. ASSUME NEW x \in Threads PROVE CallOK(caller'[x])
  <2>1. CASE x = w
    BY <2>1 DEF ProviderInv, ProviderTypeOK
  <2>2. CASE x # w
    BY <2>2 DEF ProviderInv, ProviderTypeOK, CallsOK
  <2> QED  BY <2>1, <2>2
<1>3. CallsOK'
  BY <1>2 DEF CallsOK, CallOK
<1> QED  BY <1>1, <1>3

(* An orphan's listing goes on, unless it is the one that moves.             *)
LEMMA OthersAdopt ==
  ASSUME ProviderInv, NEW w \in Threads, NEW c,
         caller' = [caller EXCEPT ![w] = c],
         objects' = objects, Dates \subseteq Dates',
         \/ ~(caller[w].pc \in {"insert", "dates"} /\ caller[w].new)
         \/ caller[w].date \in Dates'
  PROVE  NoOrphans'
<1> SUFFICES ASSUME NEW t \in objects, Date(t) \notin Dates'
             PROVE  \E x \in Threads : /\ caller'[x].pc \in {"insert", "dates"}
                                       /\ caller'[x].date = Date(t)
                                       /\ caller'[x].new
  BY DEF NoOrphans, Date
<1>1. PICK x \in Threads : /\ caller[x].pc \in {"insert", "dates"}
                           /\ caller[x].date = Date(t)
                           /\ caller[x].new
  BY DEF ProviderInv, NoOrphans
<1>2. x # w
  BY <1>1
<1>3. caller'[x] = caller[x]
  BY <1>2 DEF ProviderInv, ProviderTypeOK
<1> QED  BY <1>1, <1>3

LEMMA ProviderStep ==
  ASSUME ProviderInv, [ProviderNext]_providerVars
  PROVE  ProviderInv'
<1> USE DEF ProviderInv
<1>0. /\ today \in FirstDay .. LastDay /\ published \subseteq ObjectTimes /\ objects \subseteq published
      /\ objectDates \in Seq(Days) /\ Cardinality(Dates) = Len(objectDates)
      /\ refreshDate \in Days /\ caller \in [Threads -> Callers]
  BY DEF ProviderTypeOK
<1>1. ASSUME NEW t \in ObjectTimes, Publish(t) PROVE ProviderInv'
  <2>1. UNCHANGED <<today, objects, objectDates, refreshDate, caller>>
        /\ published' = published \cup {t}
    BY <1>1 DEF Publish
  <2> QED  BY <1>0, <2>1 DEF ProviderTypeOK, CallsOK, CallOK, DatesPast, NoOrphans, Dates, Date
<1>2. CASE Midnight
  <2>1. UNCHANGED <<published, objects, objectDates, refreshDate, caller>>
        /\ today' = today + 1 /\ today' \in FirstDay .. LastDay
    BY <1>0, <1>2, ProviderAssumption DEF Midnight
  <2>2. today' >= today /\ today \in Nat /\ today' \in Nat
    BY <2>1, <1>0, ProviderAssumption
  <2>3. \A w \in Threads : caller[w] \in Callers
    BY <1>0
  <2>4. CallsOK'
    <3> SUFFICES ASSUME NEW w \in Threads PROVE CallOK(caller[w])'
      BY <2>1 DEF CallsOK
    <3>1. CallOK(caller[w]) /\ (caller[w].pc # "idle" => caller[w].date \in Nat)
      BY <2>3, CallerFields, DaysAre DEF CallsOK
    <3>2. caller[w].pc \in Listing => caller[w].pc # "idle"
      BY DEF Listing
    <3> QED  BY <2>1, <2>2, <3>1, <3>2 DEF CallOK, Date
  <2>5. DatesPast'
    BY <2>1, <2>2, DateList, DaysAre DEF DatesPast, Dates
  <2> QED  BY <1>0, <2>1, <2>4, <2>5 DEF ProviderTypeOK, NoOrphans, Dates, Date
<1>3. ASSUME NEW w \in Threads, NEW c \in Callers, caller' = [caller EXCEPT ![w] = c],
             CallOK(c), UNCHANGED <<today, published, objects, objectDates>>,
             refreshDate' \in Days,
             \/ ~(caller[w].pc \in {"insert", "dates"} /\ caller[w].new)
             \/ caller[w].date \in Dates
      PROVE  ProviderInv'
  <2>1. Dates' = Dates
    BY <1>3 DEF Dates
  <2>2. NoOrphans'
    BY <1>3, <2>1, OthersAdopt
  <2>3. caller' \in [Threads -> Callers] /\ CallsOK'
    BY <1>3, StepKeepsCalls
  <2> QED  BY <1>0, <1>3, <2>1, <2>2, <2>3 DEF ProviderTypeOK, DatesPast
<1>4. ASSUME NEW w \in Threads, ListSucceeds(w) PROVE ProviderInv'
  <2> DEFINE answer == {t \in published : Date(t) = caller[w].date}
             c == Answer(IF answer = {} THEN "return" ELSE "insert", caller[w].date,
                         caller[w].for, answer, FALSE, answer # {}, TRUE)
  <2>1. caller[w].pc = "list" /\ caller[w] \in Callers
    BY <1>0, <1>4 DEF ListSucceeds
  <2>2. caller[w].date \in Days /\ caller[w].for \in Purposes
    BY <2>1, CallerFields DEF Listing
  <2>3. c \in Callers
    BY <1>0, <2>2, CallersAre DEF Answered
  <2>4. CallOK(c)
    BY <2>1 DEF CallsOK, CallOK, Answer, Listing, Answered
  <2>5. caller' = [caller EXCEPT ![w] = c]
    BY <1>4 DEF ListSucceeds, Goto, Answer
  <2> HIDE DEF c
  <2> QED  BY <1>0, <1>3, <1>4, <2>1, <2>3, <2>4, <2>5 DEF ListSucceeds
<1>5. ASSUME NEW w \in Threads, ListFails(w) PROVE ProviderInv'
  <2> DEFINE c == Answer("return", caller[w].date, caller[w].for, {}, FALSE, FALSE, FALSE)
  <2>1. caller[w].pc = "list" /\ caller[w] \in Callers
    BY <1>0, <1>5 DEF ListFails
  <2>2. caller[w].date \in Days /\ caller[w].for \in Purposes
    BY <2>1, CallerFields DEF Listing
  <2>3. c \in Callers
    BY <1>0, <2>2, CallersAre DEF Answered
  <2>4. CallOK(c)
    BY <2>1 DEF CallsOK, CallOK, Answer, Listing, Answered
  <2>5. caller' = [caller EXCEPT ![w] = c]
    BY <1>5 DEF ListFails, Goto, Answer
  <2> HIDE DEF c
  <2> QED  BY <1>0, <1>3, <1>5, <2>1, <2>3, <2>4, <2>5 DEF ListFails
<1>6. ASSUME NEW w \in Threads, InsertObject(w) PROVE ProviderInv'
  <2> DEFINE t == CHOOSE u \in caller[w].left : \A v \in caller[w].left : u <= v
             left == caller[w].left \ {t}
             new == caller[w].new \/ t \notin objects
             pc == IF left # {} THEN "insert" ELSE IF new THEN "dates" ELSE "return"
             c == Answer(pc, caller[w].date, caller[w].for, left, new, caller[w].found,
                         caller[w].success)
  <2>1. caller[w].pc = "insert" /\ caller[w] \in Callers
    BY <1>0, <1>6 DEF InsertObject
  <2>2. /\ caller[w].date \in Days /\ caller[w].for \in Purposes
        /\ caller[w].left \in SUBSET ObjectTimes
        /\ caller[w].new \in BOOLEAN /\ caller[w].found \in BOOLEAN /\ caller[w].success \in BOOLEAN
        /\ caller[w] = Answer("insert", caller[w].date, caller[w].for, caller[w].left,
                              caller[w].new, caller[w].found, caller[w].success)
    BY <2>1, CallerFields DEF Listing, Answered
  <2>3. caller[w].left # {} /\ \A u \in caller[w].left : u \in published /\ Date(u) = caller[w].date
    BY <2>1 DEF CallsOK, CallOK, Answered
  <2>4. t \in caller[w].left
    <3>1. \E u \in caller[w].left : \A v \in caller[w].left : u <= v
      <4>1. caller[w].left \subseteq Nat
        BY <2>2, DaysAre
      <4> QED  BY <4>1, <2>3, LeastOfNaturals
    <3> QED  BY <3>1
  <2>5. objects' = objects \cup {t} /\ UNCHANGED <<today, published, objectDates, refreshDate>>
    BY <1>6 DEF InsertObject
  <2>6. caller' = [caller EXCEPT ![w] = c]
    BY <1>6 DEF InsertObject, Goto, Answer
  <2> HIDE DEF t
  <2>7. pc \in Answered /\ new \in BOOLEAN /\ left \in SUBSET ObjectTimes
    BY <2>2 DEF Answered
  <2>8. c \in Callers
    BY <2>2, <2>7, CallersAre
  <2>9. /\ c.pc = pc /\ c.date = caller[w].date /\ c.for = caller[w].for /\ c.left = left
        /\ c.new = new
    BY DEF Answer
  <2>10. pc = "insert" => left # {}
    OBVIOUS
  <2> HIDE DEF c
  <2>11. CallOK(c)
    <3>1. \A u \in left : u \in published /\ Date(u) = caller[w].date
      BY <2>3
    <3>2. caller[w].date <= today /\ (caller[w].for = "yesterday" => caller[w].date < today)
      BY <2>1 DEF CallsOK, CallOK, Listing
    <3> HIDE DEF pc, left, new
    <3> QED  BY <2>9, <2>10, <3>1, <3>2 DEF CallOK
  <2>12. caller' \in [Threads -> Callers] /\ CallsOK'
    BY <2>5, <2>6, <2>8, <2>11, StepKeepsCalls
  <2>13. new => pc \in {"insert", "dates"}
    OBVIOUS
  <2>14. \A x \in Threads : caller'[x] = IF x = w THEN c ELSE caller[x]
    BY <1>0, <2>6
  <2>15. NoOrphans'
    <3> SUFFICES ASSUME NEW u \in objects', Date(u) \notin Dates
                 PROVE  \E x \in Threads : /\ caller'[x].pc \in {"insert", "dates"}
                                           /\ caller'[x].date = Date(u)
                                           /\ caller'[x].new
      BY <2>5 DEF NoOrphans, Date, Dates
    <3>1. CASE u \notin objects
      <4>1. u = t /\ new /\ Date(u) = caller[w].date
        BY <2>3, <2>4, <2>5, <3>1
      <4> HIDE DEF pc, new, left
      <4> QED  BY <2>9, <2>13, <2>14, <4>1
    <3>2. CASE u \in objects
      <4>1. PICK x \in Threads : /\ caller[x].pc \in {"insert", "dates"}
                                 /\ caller[x].date = Date(u)
                                 /\ caller[x].new
        BY <3>2 DEF NoOrphans
      <4>2. CASE x # w
        BY <4>1, <4>2, <2>14
      <4>3. CASE x = w
        <5>1. new /\ Date(u) = caller[w].date
          BY <4>1, <4>3
        <5> HIDE DEF pc, new, left
        <5> QED  BY <2>9, <2>13, <2>14, <5>1
      <4> QED  BY <4>2, <4>3
    <3> QED  BY <3>1, <3>2
  <2>16. objects' \subseteq published'
    BY <1>0, <2>3, <2>4, <2>5
  <2>17. Dates' = Dates
    BY <2>5 DEF Dates
  <2> QED  BY <1>0, <2>5, <2>12, <2>15, <2>16, <2>17 DEF ProviderTypeOK, DatesPast
<1>7. ASSUME NEW w \in Threads, NEW c \in Callers, caller' = [caller EXCEPT ![w] = c], CallOK(c),
             NEW date \in Days, date <= today, UpdateObjectDates(date),
             UNCHANGED <<today, published, objects, refreshDate>>,
             caller[w].pc # "insert", caller[w].pc = "dates" => caller[w].date = date
      PROVE  ProviderInv'
  <2>1. /\ objectDates' \in Seq(Days) /\ Cardinality(Dates') = Len(objectDates')
        /\ Dates' = Dates \cup {date}
    BY <1>7, UpdatedDates
  <2>2. NoOrphans'
    BY <1>7, <2>1, OthersAdopt
  <2>3. caller' \in [Threads -> Callers] /\ CallsOK'
    BY <1>7, StepKeepsCalls
  <2>4. DatesPast'
    BY <1>7, <2>1 DEF DatesPast
  <2> QED  BY <1>0, <1>7, <2>1, <2>2, <2>3, <2>4 DEF ProviderTypeOK
<1>8. ASSUME NEW w \in Threads, ListUpdatesDates(w) PROVE ProviderInv'
  <2> DEFINE c == Answer("prune", caller[w].date, caller[w].for, caller[w].left, caller[w].new,
                         caller[w].found, caller[w].success)
  <2>1. caller[w].pc = "dates" /\ caller[w] \in Callers
    BY <1>0, <1>8 DEF ListUpdatesDates
  <2>2. /\ caller[w].date \in Days /\ caller[w].for \in Purposes
        /\ caller[w].left \in SUBSET ObjectTimes
        /\ caller[w].new \in BOOLEAN /\ caller[w].found \in BOOLEAN /\ caller[w].success \in BOOLEAN
        /\ caller[w] = Answer("dates", caller[w].date, caller[w].for, caller[w].left,
                              caller[w].new, caller[w].found, caller[w].success)
    BY <2>1, CallerFields DEF Listing, Answered
  <2>3. c \in Callers
    BY <2>2, CallersAre DEF Answered
  <2>4. CallOK(c)
    BY <2>1 DEF CallsOK, CallOK, Answer, Listing, Answered
  <2>5. caller' = [caller EXCEPT ![w] = c]
    <3>1. caller' = [caller EXCEPT ![w] = [caller[w] EXCEPT !.pc = "prune"]]
      BY <1>0, <1>8 DEF ListUpdatesDates
    <3>2. [caller[w] EXCEPT !.pc = "prune"] = c
      BY <2>2 DEF Answer
    <3> QED  BY <3>1, <3>2
  <2>6. caller[w].date <= today
    BY <2>1 DEF CallsOK, CallOK
  <2> HIDE DEF c
  <2> QED
    BY <1>7, <1>8, <2>1, <2>2, <2>3, <2>4, <2>5, <2>6 DEF ListUpdatesDates, ListedDates
<1>9. ASSUME NEW w \in Threads, PruneObjects(w) PROVE ProviderInv'
  <2> DEFINE c == Answer("return", caller[w].date, caller[w].for, caller[w].left, caller[w].new,
                         caller[w].found, caller[w].success)
  <2>1. caller[w].pc = "prune" /\ caller[w] \in Callers
    BY <1>0, <1>9 DEF PruneObjects
  <2>2. /\ caller[w].date \in Days /\ caller[w].for \in Purposes
        /\ caller[w].left \in SUBSET ObjectTimes
        /\ caller[w].new \in BOOLEAN /\ caller[w].found \in BOOLEAN /\ caller[w].success \in BOOLEAN
        /\ caller[w] = Answer("prune", caller[w].date, caller[w].for, caller[w].left,
                              caller[w].new, caller[w].found, caller[w].success)
    BY <2>1, CallerFields DEF Listing, Answered
  <2>3. c \in Callers
    BY <2>2, CallersAre DEF Answered
  <2>4. CallOK(c)
    BY <2>1 DEF CallsOK, CallOK, Answer, Listing, Answered
  <2>5. caller' = [caller EXCEPT ![w] = c]
    <3>1. caller' = [caller EXCEPT ![w] = [caller[w] EXCEPT !.pc = "return"]]
      BY <1>0, <1>9 DEF PruneObjects
    <3>2. [caller[w] EXCEPT !.pc = "return"] = c
      BY <2>2 DEF Answer
    <3> QED  BY <3>1, <3>2
  <2> HIDE DEF c
  <2>6. UNCHANGED <<today, published, refreshDate>>
    BY <1>9 DEF PruneObjects
  <2>7. caller' \in [Threads -> Callers] /\ CallsOK'
    BY <2>3, <2>4, <2>5, <2>6, StepKeepsCalls
  <2>8. /\ objectDates' \in Seq(Days) /\ Cardinality(Dates') = Len(objectDates')
        /\ Dates' = Dates \ PrunedDates
        /\ objects' = {t \in objects : Date(t) \notin PrunedDates}
    BY <1>9, PrunedList
  <2>9. NoOrphans'
    <3> SUFFICES ASSUME NEW t \in objects', Date(t) \notin Dates'
                 PROVE  \E x \in Threads : /\ caller'[x].pc \in {"insert", "dates"}
                                           /\ caller'[x].date = Date(t)
                                           /\ caller'[x].new
      BY DEF NoOrphans, Date
    <3>1. t \in objects /\ Date(t) \notin Dates
      BY <2>8
    <3>2. PICK x \in Threads : /\ caller[x].pc \in {"insert", "dates"}
                               /\ caller[x].date = Date(t)
                               /\ caller[x].new
      BY <3>1 DEF NoOrphans
    <3>3. caller'[x] = caller[x]
      BY <1>0, <2>1, <2>5, <3>2
    <3> QED  BY <3>2, <3>3
  <2>10. DatesPast'
    BY <2>6, <2>8 DEF DatesPast
  <2> QED  BY <1>0, <2>6, <2>7, <2>8, <2>9, <2>10 DEF ProviderTypeOK
<1>10. ASSUME NEW w \in Threads, NEW date \in Days, BeginQuery(w, date) PROVE ProviderInv'
  <2> DEFINE c == IF date \in Dates THEN [pc |-> "touch", date |-> date]
                                    ELSE ListObjects(date, "query")
  <2>1. c \in Callers
    BY CallersAre DEF Purposes
  <2>2. date <= today /\ caller[w] = NotCalling /\ caller' = [caller EXCEPT ![w] = c]
        /\ UNCHANGED <<today, published, objects, objectDates, refreshDate>>
    BY <1>10 DEF BeginQuery, Goto
  <2>3. CallOK(c)
    BY <2>2 DEF CallOK, ListObjects, Listing, Answered
  <2>4. caller[w].pc = "idle"
    BY <2>2 DEF NotCalling
  <2> HIDE DEF c
  <2> QED  BY <1>0, <1>3, <2>1, <2>2, <2>3, <2>4
<1>11. ASSUME NEW w \in Threads, ReturnToQuery(w) PROVE ProviderInv'
  <2> DEFINE c == IF caller[w].success THEN [pc |-> "touch", date |-> caller[w].date] ELSE NotCalling
  <2>1. caller[w].pc = "return" /\ caller[w] \in Callers
    BY <1>0, <1>11 DEF ReturnToQuery
  <2>2. caller[w].date \in Days /\ caller[w].date <= today
    BY <2>1, CallerFields DEF CallsOK, CallOK
  <2>3. c \in Callers
    BY <2>2, CallersAre
  <2>4. CallOK(c)
    BY <2>2 DEF CallOK, NotCalling, Listing, Answered
  <2>5. caller' = [caller EXCEPT ![w] = c]
        /\ UNCHANGED <<today, published, objects, objectDates, refreshDate>>
    BY <1>11 DEF ReturnToQuery, Goto
  <2> HIDE DEF c
  <2> QED  BY <1>0, <1>3, <2>1, <2>3, <2>4, <2>5
<1>12. ASSUME NEW w \in Threads, Touch(w) PROVE ProviderInv'
  <2>1. caller[w].pc = "touch" /\ caller[w] \in Callers
    BY <1>0, <1>12 DEF Touch
  <2>2. caller[w].date \in Days /\ caller[w].date <= today
    BY <2>1, CallerFields DEF CallsOK, CallOK
  <2>3. NotCalling \in Callers /\ CallOK(NotCalling)
    BY CallersAre DEF CallOK, NotCalling, Listing, Answered
  <2> QED  BY <1>7, <1>12, <2>1, <2>2, <2>3 DEF Touch, Goto
<1>13. ASSUME NEW w \in Threads, BeginRefresh(w) PROVE ProviderInv'
  <2> DEFINE c == [pc |-> "lock", date |-> today]
  <2>1. c \in Callers
    BY CallersAre, DaysAre
  <2>2. caller[w] = NotCalling /\ caller' = [caller EXCEPT ![w] = c]
        /\ UNCHANGED <<today, published, objects, objectDates, refreshDate>>
    BY <1>13 DEF BeginRefresh, Goto
  <2>3. CallOK(c)
    BY DaysAre DEF CallOK, Listing, Answered
  <2>4. caller[w].pc = "idle"
    BY <2>2 DEF NotCalling
  <2> HIDE DEF c
  <2> QED  BY <1>0, <1>3, <2>1, <2>2, <2>3, <2>4
<1>14. ASSUME NEW w \in Threads, LockRefresh(w) PROVE ProviderInv'
  <2> DEFINE date == caller[w].date
             c == FirstListing(date)
  <2>1. caller[w].pc = "lock" /\ caller[w] \in Callers
    BY <1>0, <1>14 DEF LockRefresh
  <2>2. date \in Days /\ date <= today /\ date \in Nat
    BY <2>1, CallerFields, DaysAre DEF CallsOK, CallOK
  <2>3. refreshDate < date => date - 1 \in Nat /\ date - 1 < today
    BY <2>2, DaysAre
  <2>4. refreshDate < date => date - 1 \in Days /\ date - 1 <= today
    BY <2>3, DaysAre
  <2>5. c \in Callers
    BY <2>2, <2>4, CallersAre DEF FirstListing, Purposes
  <2>6. CallOK(c)
    BY <2>2, <2>3, <2>4 DEF FirstListing, CallOK, ListObjects, Listing, Answered
  <2>7. caller' = [caller EXCEPT ![w] = c]
        /\ UNCHANGED <<today, published, objects, objectDates, refreshDate>>
    BY <1>14 DEF LockRefresh, Goto
  <2> HIDE DEF c
  <2> QED  BY <1>0, <1>3, <2>1, <2>5, <2>6, <2>7
<1>15. ASSUME NEW w \in Threads, ReturnToRefresh(w) PROVE ProviderInv'
  <2> DEFINE date == caller[w].date
             c == IF caller[w].for = "yesterday" THEN ListObjects(date + 1, "today") ELSE NotCalling
  <2>1. caller[w].pc = "return" /\ caller[w] \in Callers
    BY <1>0, <1>15 DEF ReturnToRefresh
  <2>2. date \in Days /\ date \in Nat
    BY <2>1, CallerFields, DaysAre
  <2>3. caller[w].for = "yesterday" => date < today
    BY <2>1 DEF CallsOK, CallOK, Listing
  <2>4. caller[w].for = "yesterday" => date + 1 \in Nat /\ date + 1 <= today
    BY <2>2, <2>3, DaysAre
  <2>5. caller[w].for = "yesterday" => date + 1 \in Days
    BY <2>4, DaysAre
  <2>6. c \in Callers
    BY <2>5, CallersAre DEF Purposes
  <2>7. CallOK(c)
    BY <2>4 DEF CallOK, ListObjects, NotCalling, Listing, Answered
  <2>8. caller' = [caller EXCEPT ![w] = c] /\ refreshDate' \in Days
        /\ UNCHANGED <<today, published, objects, objectDates>>
    BY <1>0, <1>15, <2>2 DEF ReturnToRefresh, Goto
  <2> HIDE DEF c
  <2> QED  BY <1>3, <2>1, <2>6, <2>7, <2>8
<1>16. CASE UNCHANGED providerVars
  BY <1>0, <1>16
  DEF providerVars, ProviderTypeOK, CallsOK, CallOK, DatesPast, NoOrphans, Dates, Date
<1> QED
  BY <1>1, <1>2, <1>4, <1>5, <1>6, <1>8, <1>9, <1>10, <1>11, <1>12, <1>13, <1>14, <1>15, <1>16
  DEF ProviderNext, CallStep

LEMMA ProviderInvHolds == ProviderSpec => []ProviderInv
<1>1. ProviderInit => ProviderInv
  <2> SUFFICES ASSUME ProviderInit PROVE ProviderInv
    OBVIOUS
  <2>1. Dates = {} /\ Cardinality(Dates) = 0 /\ objectDates \in Seq(Days) /\ Len(objectDates) = 0
    BY FS_EmptySet DEF ProviderInit, Dates, Entries
  <2>2. ProviderTypeOK
    BY <2>1, CallersAre, ProviderAssumption DEF ProviderInit, ProviderTypeOK, Days
  <2>3. CallsOK
    BY DEF ProviderInit, CallsOK, CallOK, NotCalling, Listing, Answered
  <2> QED  BY <2>1, <2>2, <2>3 DEF ProviderInit, ProviderInv, DatesPast, NoOrphans
<1>2. ProviderInv /\ [ProviderNext]_providerVars => ProviderInv'
  BY ProviderStep
<1> QED  BY <1>1, <1>2, PTL DEF ProviderSpec

(* Every variable keeps to its type; in particular no date is listed twice.  *)
THEOREM ProviderTypes == ProviderSpec => []ProviderTypeOK
<1>1. ProviderInv => ProviderTypeOK
  BY DEF ProviderInv
<1> QED  BY <1>1, ProviderInvHolds, PTL

(* Every cached object can be pruned, for any number of threads: its date is *)
(* in the list, or is going to be added by a listing that inserted it.       *)
THEOREM NoneOrphaned == ProviderSpec => []NoOrphans
<1>1. ProviderInv => NoOrphans
  BY DEF ProviderInv
<1> QED  BY <1>1, ProviderInvHolds, PTL

----------------------------------------------------------------------------
(* PruningSparesRecent.                                                      *)

(* Only pruning takes objects and dates away.                                *)
LEMMA OnlyPruningErases ==
  ASSUME ProviderInv, [ProviderNext]_providerVars, \A w \in Threads : ~PruneObjects(w)
  PROVE  objects \subseteq objects' /\ Dates \subseteq Dates'
<1>0. ProviderTypeOK /\ caller \in [Threads -> Callers]
  BY DEF ProviderInv, ProviderTypeOK
<1>1. ASSUME NEW date \in Days, UpdateObjectDates(date)
      PROVE  Dates \subseteq Dates'
  BY <1>0, <1>1, UpdatedDates
<1>2. ASSUME NEW w \in Threads, ListUpdatesDates(w)
      PROVE  objects \subseteq objects' /\ Dates \subseteq Dates'
  <2>1. caller[w].pc = "dates" /\ caller[w] \in Callers
    BY <1>0, <1>2 DEF ListUpdatesDates
  <2>2. caller[w].date \in Days
    BY <2>1, CallerFields
  <2> QED  BY <1>1, <1>2, <2>2 DEF ListUpdatesDates, ListedDates
<1>3. ASSUME NEW w \in Threads, Touch(w)
      PROVE  objects \subseteq objects' /\ Dates \subseteq Dates'
  <2>1. caller[w].pc = "touch" /\ caller[w] \in Callers
    BY <1>0, <1>3 DEF Touch
  <2>2. caller[w].date \in Days
    BY <2>1, CallerFields
  <2> QED  BY <1>1, <1>3, <2>2 DEF Touch
<1>4. ASSUME NEW w \in Threads, InsertObject(w)
      PROVE  objects \subseteq objects' /\ UNCHANGED objectDates
  BY <1>4 DEF InsertObject
<1>5. ASSUME UNCHANGED <<objects, objectDates>>
      PROVE  objects \subseteq objects' /\ Dates \subseteq Dates'
  BY <1>5 DEF Dates
<1>6. ASSUME NEW w \in Threads, CallStep(w)
      PROVE  objects \subseteq objects' /\ Dates \subseteq Dates'
  <2>1. CASE ListUpdatesDates(w) \/ Touch(w) \/ InsertObject(w)
    BY <2>1, <1>2, <1>3, <1>4 DEF Dates
  <2>2. CASE ListSucceeds(w) \/ ListFails(w) \/ ReturnToQuery(w) \/ LockRefresh(w)
             \/ ReturnToRefresh(w)
    BY <2>2, <1>5 DEF ListSucceeds, ListFails, ReturnToQuery, LockRefresh, ReturnToRefresh
  <2> QED  BY <1>6, <2>1, <2>2 DEF CallStep
<1>7. ASSUME NEW w \in Threads, BeginRefresh(w) \/ \E date \in Days : BeginQuery(w, date)
      PROVE  UNCHANGED <<objects, objectDates>>
  BY <1>7 DEF BeginRefresh, BeginQuery
<1>8. CASE Midnight \/ (\E t \in ObjectTimes : Publish(t)) \/ UNCHANGED providerVars
  BY <1>8, <1>5 DEF Midnight, Publish, providerVars
<1> QED  BY <1>5, <1>6, <1>7, <1>8 DEF ProviderNext

LEMMA TwoAtMost ==
  ASSUME NEW a, NEW b
  PROVE  IsFiniteSet({a, b}) /\ Cardinality({a, b}) <= 2
<1>1. IsFiniteSet({a}) /\ Cardinality({a}) = 1
  BY FS_Singleton
<1>2. /\ IsFiniteSet({a} \cup {b})
      /\ Cardinality({a} \cup {b}) = IF b \in {a} THEN Cardinality({a})
                                     ELSE Cardinality({a}) + 1
  BY <1>1, FS_AddElement
<1>3. {a} \cup {b} = {a, b}
  OBVIOUS
<1>4. Cardinality({a} \cup {b}) \in {1, 2}
  BY <1>1, <1>2
<1>5. Cardinality({a} \cup {b}) <= 2
  BY <1>4
<1> QED  BY <1>2, <1>3, <1>5

(* Of the dates there are in the list, which are none to come, pruning       *)
(* leaves out today and yesterday alone.                                    *)
LEMMA FewAreSpared ==
  ASSUME ProviderInv, NEW k \in 1 .. Len(objectDates)
  PROVE  /\ IsFiniteSet(PrunableBefore(k))
         /\ Cardinality(PrunableBefore(k)) \in Nat
         /\ Cardinality(PrunableBefore(k)) >= k - 3
<1> DEFINE Before == 1 .. k - 1
           Spared == {j \in Before : ~Prunable(objectDates[j])}
           Recent == {today - 1, today}
           f == [j \in Spared |-> objectDates[j]]
<1>0. /\ objectDates \in Seq(Days) /\ Distinct(objectDates) /\ Len(objectDates) \in Nat
      /\ k \in Nat \ {0} /\ today \in Nat /\ \A date \in Days : date \in Nat
  BY DateList, DaysAre DEF ProviderInv
<1>1. IsFiniteSet(Before) /\ Cardinality(Before) = k - 1
  <2>1. 1 \in Int /\ k - 1 \in Int
    BY <1>0
  <2>2. IsFiniteSet(Before) /\ Cardinality(Before) = IF 1 > k - 1 THEN 0 ELSE (k - 1) - 1 + 1
    BY <2>1, FS_Interval
  <2> QED  BY <1>0, <2>2
<1>2. IsFiniteSet(PrunableBefore(k)) /\ IsFiniteSet(Spared)
      /\ Cardinality(PrunableBefore(k)) \in Nat /\ Cardinality(Spared) \in Nat
  <2>1. PrunableBefore(k) \in SUBSET Before /\ Spared \in SUBSET Before
    BY DEF PrunableBefore
  <2>2. IsFiniteSet(PrunableBefore(k)) /\ IsFiniteSet(Spared)
    BY <1>1, <2>1, FS_Subset
  <2> QED  BY <2>2, FS_CardinalityType
<1>3. k - 1 = Cardinality(PrunableBefore(k)) + Cardinality(Spared)
  <2>1. Before = PrunableBefore(k) \cup Spared /\ PrunableBefore(k) \cap Spared = {}
    BY DEF PrunableBefore
  <2>2. Cardinality(PrunableBefore(k) \cup Spared)
          = Cardinality(PrunableBefore(k)) + Cardinality(Spared)
              - Cardinality(PrunableBefore(k) \cap Spared)
    BY <1>2, FS_Union
  <2>3. Cardinality(PrunableBefore(k) \cap Spared) = 0
    BY <2>1, FS_EmptySet
  <2> HIDE DEF Before, Spared
  <2> QED  BY <1>1, <1>2, <2>1, <2>2, <2>3
<1>4. IsFiniteSet(Recent) /\ Cardinality(Recent) <= 2
  BY TwoAtMost
<1>5. ASSUME NEW j \in Spared PROVE objectDates[j] \in Recent /\ j \in 1 .. Len(objectDates)
  <2>1. j \in 1 .. Len(objectDates) /\ ~Prunable(objectDates[j])
    BY <1>0
  <2>2. objectDates[j] \in Dates /\ objectDates[j] \in Nat
    BY <1>0, <2>1 DEF Dates, Entries
  <2>3. objectDates[j] <= today
    BY <2>2 DEF ProviderInv, DatesPast
  <2> QED  BY <1>0, <2>1, <2>2, <2>3 DEF Prunable
<1>6. f \in Injection(Spared, Recent)
  <2>1. f \in [Spared -> Recent]
    BY <1>5
  <2>2. \A i, j \in Spared : f[i] = f[j] => i = j
    BY <1>0, <1>5 DEF Distinct
  <2> HIDE DEF f, Spared, Recent
  <2> QED  BY <2>1, <2>2 DEF Injection, IsInjective
<1>7. Cardinality(Spared) <= Cardinality(Recent) /\ Cardinality(Recent) \in Nat
  <2> HIDE DEF f, Spared, Recent
  <2> QED  BY <1>4, <1>6, FS_Injection, FS_CardinalityType
<1> HIDE DEF Spared, Recent
<1> QED  BY <1>0, <1>2, <1>3, <1>4, <1>7

(* Behind the last date that is erased, all stay; and when it was erased,    *)
(* there were still as many dates as the list needs.                        *)
LEMMA PruningIsSparing ==
  ASSUME ProviderInv, NEW w \in Threads, PruneObjects(w)
  PROVE  PruningSpares
<1> DEFINE n == Len(objectDates)
<1>0. /\ objectDates \in Seq(Days) /\ Distinct(objectDates) /\ n \in Nat
      /\ MinDates \in Nat
  BY DateList, ProviderAssumption DEF ProviderInv
<1>1. /\ Dates' = Dates \ PrunedDates
      /\ objects' = {t \in objects : Date(t) \notin PrunedDates}
      /\ \A date \in PrunedDates : Prunable(date)
  BY PrunedList DEF ProviderInv
<1>2. \A t \in objects \ objects' : Date(t) < today - 1
  BY <1>1 DEF Prunable
<1>3. ASSUME NEW i \in 1 .. n, objectDates[i] \notin Dates'
      PROVE  Cardinality({j \in 1 .. n : j > i /\ objectDates[j] \in Dates'}) >= MinDates - 3
  <2> DEFINE Behind == {j \in 1 .. n : j > i /\ objectDates[j] \in Dates'}
  <2>1. i \in PrunedPlaces
    <3>1. objectDates[i] \in PrunedDates
      BY <1>1, <1>3 DEF Dates, Entries
    <3>2. PICK j \in PrunedPlaces : objectDates[i] = objectDates[j]
      BY <3>1 DEF PrunedDates
    <3>3. j \in 1 .. n
      BY DEF PrunedPlaces
    <3> QED  BY <1>0, <3>2, <3>3 DEF Distinct
  <2>2. PICK k \in PrunedPlaces : \A j \in PrunedPlaces : j <= k
    <3> DEFINE S == {n - j : j \in PrunedPlaces}
    <3>1. \A j \in PrunedPlaces : j \in 1 .. n
      BY DEF PrunedPlaces
    <3>2. S \subseteq Nat /\ S # {}
      <4>1. \A j \in 1 .. n : n - j \in Nat
        <5> HIDE DEF n
        <5> QED  BY <1>0
      <4> HIDE DEF n
      <4> QED  BY <2>1, <3>1, <4>1
    <3> HIDE DEF S
    <3>3. PICK m \in S : \A l \in S : m <= l
      BY <3>2, LeastOfNaturals
    <3> USE DEF S
    <3>4. PICK k \in PrunedPlaces : m = n - k
      BY <3>3
    <3>5. ASSUME NEW j \in PrunedPlaces PROVE j <= k
      <4>1. n - k <= n - j
        BY <3>3, <3>4
      <4> HIDE DEF n
      <4> QED  BY <1>0, <3>4, <3>1, <4>1
    <3> QED  BY <3>5
  <2>3. k \in 1 .. n /\ i <= k /\ n - Cardinality(PrunableBefore(k)) >= MinDates
    BY <2>1, <2>2 DEF PrunedPlaces, TooMany
  <2>4. Cardinality(PrunableBefore(k)) \in Nat /\ Cardinality(PrunableBefore(k)) >= k - 3
    BY <2>3, FewAreSpared
  <2>5. n - k >= MinDates - 3
    <3> HIDE DEF n
    <3> QED  BY <1>0, <2>3, <2>4
  <2>6. k + 1 .. n \subseteq Behind
    <3> SUFFICES ASSUME NEW j \in k + 1 .. n PROVE j \in Behind
      OBVIOUS
    <3>1. j \in 1 .. n /\ j > k /\ j > i
      BY <1>0, <2>3
    <3>2. objectDates[j] \notin PrunedDates
      <4> SUFFICES ASSUME objectDates[j] \in PrunedDates PROVE FALSE
        OBVIOUS
      <4>1. PICK l \in PrunedPlaces : objectDates[j] = objectDates[l]
        BY DEF PrunedDates
      <4>2. l \in 1 .. n /\ l <= k
        BY <2>2 DEF PrunedPlaces
      <4>3. j = l
        BY <1>0, <3>1, <4>1, <4>2 DEF Distinct
      <4> QED  BY <2>3, <3>1, <4>2, <4>3
    <3> QED  BY <1>1, <3>1, <3>2 DEF Dates, Entries
  <2>7. IsFiniteSet(Behind)
    <3>1. 1 \in Int /\ n \in Int
      BY <1>0
    <3>2. IsFiniteSet(1 .. n) /\ Behind \in SUBSET (1 .. n)
      BY <3>1, FS_Interval
    <3> HIDE DEF Behind
    <3> QED  BY <3>2, FS_Subset
  <2>8. Cardinality(k + 1 .. n) = n - k
    <3>1. k + 1 \in Int /\ n \in Int
      BY <1>0, <2>3
    <3>2. Cardinality(k + 1 .. n) = IF k + 1 > n THEN 0 ELSE n - (k + 1) + 1
      BY <3>1, FS_Interval
    <3> QED  BY <1>0, <2>3, <3>2
  <2> HIDE DEF Behind, n
  <2>9. Cardinality(k + 1 .. n) <= Cardinality(Behind) /\ Cardinality(Behind) \in Nat
    <3>1. (k + 1 .. n) \in SUBSET Behind
      BY <2>6
    <3> QED  BY <2>7, <3>1, FS_Subset, FS_CardinalityType
  <2>10. Cardinality(Behind) >= MinDates - 3
    BY <1>0, <2>3, <2>5, <2>8, <2>9
  <2> QED  BY <2>10 DEF Behind
<1> QED  BY <1>2, <1>3 DEF PruningSpares

(* Pruning spares what is recent, and the archive list's dates, for any      *)
(* limits and whatever the order in which dates were used.                  *)
THEOREM RecentSpared == ProviderSpec => PruningSparesRecent
<1>1. ASSUME ProviderInv, [ProviderNext]_providerVars
      PROVE  PruningSpares
  <2>1. ASSUME NEW w \in Threads, PruneObjects(w) PROVE PruningSpares
    BY <1>1, <2>1, PruningIsSparing
  <2>2. ASSUME \A w \in Threads : ~PruneObjects(w) PROVE PruningSpares
    <3>1. objects \subseteq objects' /\ Dates \subseteq Dates'
      BY <1>1, <2>2, OnlyPruningErases
    <3> QED  BY <3>1 DEF PruningSpares, Dates, Entries
  <2> QED  BY <2>1, <2>2
<1>2. ProviderInv /\ [ProviderNext]_providerVars => [PruningSpares]_providerVars
  BY <1>1
<1> QED  BY <1>2, ProviderInvHolds, PTL DEF ProviderSpec, PruningSparesRecent

----------------------------------------------------------------------------
(* The composition that is checked: one of the two moves.                   *)

(* Side by side both do what they do alone, so what is proved of each of    *)
(* them holds in the composition.                                           *)
LEMMA StoresRun == MCSpec => Spec /\ ProviderSpec
<1>1. MCInit => Init /\ ProviderInit
  BY DEF MCInit
<1>2. [MCNext]_<<chosen, vars, providerVars>> => [Next]_vars /\ [ProviderNext]_providerVars
  BY DEF MCNext, RecordsMove, ProviderMoves
<1> QED  BY <1>1, <1>2, PTL DEF MCSpec, Spec, ProviderSpec

(* The records and the object cache keep their types.                       *)
THEOREM StoresTypes == MCSpec => []StoresTypeOK
<1>1. TypeOK /\ ProviderTypeOK => StoresTypeOK
  BY DEF StoresTypeOK
<1> QED  BY <1>1, StoresRun, CacheTypes, ProviderTypes, PTL
=============================================================================
