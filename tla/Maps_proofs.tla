------------------------------- MODULE Maps_proofs -------------------------------
(***************************************************************************)
(* What the maps show: the site and product of a map, the Level 2 view, and *)
(* the composition of both with the text events (Texts_proofs).             *)
(*                                                                          *)
(* What a map shows is refreshed, for any sites, catalogue of products and  *)
(* bounds.  The argument: a product that is selected at a site is asked for *)
(* at once, so only a view that moves to another site may show what was     *)
(* not; then a check is due, which selects anew, and it stays due only      *)
(* while the site's products are still to be listed or announced.           *)
(*                                                                          *)
(* A Level 2 view answers its selection and is told of what it waits for.   *)
(* And the two records of the archive that it asks for have the newest scan *)
(* of a cut.                                                                *)
(***************************************************************************)
EXTENDS MC_Maps, Texts_proofs, Lists_proofs

(* Members of a map, as far as the argument needs them.                     *)
Members(m) ==
    /\ {"site", "product", "view", "tilt", "known", "needed", "updated",
        "selected", "autoRefresh", "refreshed"} \subseteq DOMAIN m
    /\ {"product", "site"} \subseteq DOMAIN m.view
    /\ DOMAIN m.refreshed = Sites
    /\ m.site \in Sites \cup {NoSite}
    /\ m.needed \in BOOLEAN /\ m.updated \in BOOLEAN /\ m.selected \in BOOLEAN
    /\ m.autoRefresh \in BOOLEAN

(* A view shows the selected product, at a site.                            *)
Shown(m) == m.view # NoView => m.site \in Sites /\ m.product = m.view.product

(* The manager of the map's site has been asked to refresh it.              *)
AskedFor(m) ==
    m.view # NoView /\ m.autoRefresh => m.refreshed[m.site] = m.view.product

Consistent(m) == Members(m) /\ Shown(m) /\ (m.needed \/ AskedFor(m))

Types ==
    /\ listing \in [Sites -> {"none", "posted", "stored", "ready"}]
    /\ events \in Seq(Events)
    /\ fileLoads \subseteq [site : Sites, product : Products]

Announced == \E i \in DOMAIN events : events[i].kind = "Level3ProductsChanged"

(* A check that is due will be set off.                                     *)
Due ==
    map.needed =>
        /\ map.selected
        /\ map.site \in Sites
        /\ listing[map.site] \in {"posted", "stored"} \/ Announced

RefreshInv == Types /\ Consistent(map) /\ Due

----------------------------------------------------------------------------
(* What the handlers make of a map.                                         *)

(* SelectRadarProduct changes no part of the check, and at a site it shows   *)
(* the product and asks for it.                                             *)
LEMMA ProductSelected ==
    ASSUME NEW m, Members(m), NEW product, NEW n, n = SelectRadarProduct(m, product)
    PROVE  /\ Members(n)
           /\ n.site = m.site /\ n.needed = m.needed /\ n.updated = m.updated
           /\ n.selected = m.selected /\ n.autoRefresh = m.autoRefresh
           /\ n.product = product
           /\ m.site = NoSite => n.view = NoView
           /\ m.site # NoSite => n.view.product = product
           /\ m.site # NoSite /\ m.autoRefresh => n.refreshed[m.site] = product
  <1> DEFINE index == IF product \in Tilts THEN TiltIndex(product, m.known) ELSE 1
             same  == [m.view EXCEPT !.product = product]
             new   == [product |-> product, site |-> m.site]
  <1>1. CASE m.site = NoSite
    <2>1. n = [m EXCEPT !.tilt = index, !.product = product, !.view = NoView]
      BY <1>1 DEF SelectRadarProduct
    <2> HIDE DEF index
    <2> QED  BY <1>1, <2>1 DEF Members, NoView
  <1>2. CASE m.site # NoSite
    <2>1. PICK view \in {same, new} :
             n = [m EXCEPT !.tilt = index, !.product = product, !.view = view,
                           !.refreshed = RefreshAsked(m, product)]
      BY <1>2, Zenon DEF SelectRadarProduct
    <2>2. view.product = product /\ {"product", "site"} \subseteq DOMAIN view
      BY DEF Members
    <2>3. /\ DOMAIN RefreshAsked(m, product) = Sites
          /\ m.autoRefresh => RefreshAsked(m, product)[m.site] = product
      BY <1>2 DEF RefreshAsked, Members
    <2> HIDE DEF index, same, new
    <2> QED  BY <1>2, <2>1, <2>2, <2>3 DEF Members
  <1> QED  BY <1>1, <1>2

LEMMA SelectedIsConsistent ==
    ASSUME NEW m, Members(m), NEW product
    PROVE  /\ Consistent(SelectRadarProduct(m, product))
           /\ AskedFor(SelectRadarProduct(m, product))
  BY ProductSelected, MapAssumption DEF Consistent, Shown, AskedFor, Members

(* The check leaves the map alone until it may run; it is spent then, and   *)
(* what is shown has been asked for.                                        *)
LEMMA CheckedIsConsistent ==
    ASSUME NEW m, Consistent(m), NEW tilts, NEW n, n = CheckLevel3Availability(m, tilts)
    PROVE  /\ Consistent(n)
           /\ n.site = m.site /\ n.updated = m.updated /\ n.selected = m.selected
           /\ n.needed => m.needed
           /\ m.updated /\ m.selected => ~n.needed
  <1>1. CASE ~(m.needed /\ m.updated /\ m.selected)
    <2>1. n = m
      BY <1>1 DEF CheckLevel3Availability
    <2>2. m.updated /\ m.selected => ~m.needed
      BY <1>1
    <2> QED  BY <2>1, <2>2
  <1>2. CASE m.needed /\ m.updated /\ m.selected
    <2> DEFINE spent == [m EXCEPT !.needed = FALSE]
    <2>1. /\ Members(spent) /\ spent.site = m.site /\ spent.updated = m.updated
          /\ spent.selected = m.selected /\ spent.needed = FALSE
          /\ spent.view = m.view /\ spent.product = m.product
      BY DEF Consistent, Members
    <2>2. CASE m.view = NoView
      <3>1. n = spent
        BY <1>2, <2>2 DEF CheckLevel3Availability
      <3> HIDE DEF spent
      <3> QED  BY <2>1, <2>2, <3>1 DEF Consistent, Shown, AskedFor
    <2>3. CASE m.view # NoView
      <3>1. PICK product : n = SelectRadarProduct(spent, product)
        BY <1>2, <2>3, Zenon DEF CheckLevel3Availability
      <3> HIDE DEF spent
      <3>2. Consistent(n)
        BY <2>1, <3>1, SelectedIsConsistent
      <3>3. /\ n.site = spent.site /\ n.updated = spent.updated
            /\ n.selected = spent.selected /\ n.needed = spent.needed
        BY <2>1, <3>1, ProductSelected
      <3> QED  BY <1>2, <2>1, <3>2, <3>3
    <2> QED  BY <2>2, <2>3
  <1> QED  BY <1>1, <1>2

(* Products are announced: the check is spent if the site is selected.      *)
LEMMA ChangedIsConsistent ==
    ASSUME NEW m, Consistent(m), NEW n, n = ProductsChanged(m)
    PROVE  /\ Consistent(n) /\ n.site = m.site /\ n.selected = m.selected
           /\ n.needed => m.needed
           /\ m.selected => ~n.needed
  <1> DEFINE told == [m EXCEPT !.known = TiltsOfSite(m), !.updated = TRUE]
  <1>1. /\ Consistent(told) /\ told.site = m.site /\ told.selected = m.selected
        /\ told.needed = m.needed /\ told.updated = TRUE
    BY DEF Consistent, Members, Shown, AskedFor
  <1>2. n = CheckLevel3Availability(told, TiltsOfSite(m))
    BY DEF ProductsChanged
  <1> HIDE DEF told
  <1> QED  BY <1>1, <1>2, CheckedIsConsistent

(* The site is selected: the check is spent if products were announced.     *)
LEMMA UpdatedIsConsistent ==
    ASSUME NEW m, Consistent(m), NEW n, n = SiteUpdated(m)
    PROVE  /\ Consistent(n) /\ n.site = m.site /\ n.selected = TRUE
           /\ m.updated => ~n.needed
  <1> DEFINE marked == [m EXCEPT !.selected = TRUE]
  <1>1. /\ Consistent(marked) /\ marked.site = m.site /\ marked.selected = TRUE
        /\ marked.updated = m.updated
    BY DEF Consistent, Members, Shown, AskedFor
  <1>2. n = CheckLevel3Availability(marked, TiltsOfSite(m))
    BY DEF SiteUpdated
  <1> HIDE DEF marked
  <1> QED  BY <1>1, <1>2, CheckedIsConsistent

(* A map that turns to another site: its check is as told, and can not be    *)
(* spent before the site is selected.                                       *)
LEMMA SiteSet ==
    \A m : \A site \in Sites, check \in BOOLEAN :
        Members(m) /\ Shown(m) /\ site # m.site =>
            /\ Members(SetRadarSite(m, site, check))
            /\ Shown(SetRadarSite(m, site, check))
            /\ SetRadarSite(m, site, check).site = site
            /\ SetRadarSite(m, site, check).needed = check
            /\ SetRadarSite(m, site, check).updated = (listing[site] = "ready")
            /\ SetRadarSite(m, site, check).view = m.view
  <1> SUFFICES ASSUME NEW m, NEW site \in Sites, NEW check \in BOOLEAN,
                      Members(m), Shown(m), site # m.site
               PROVE  LET n == SetRadarSite(m, site, check) IN
                      /\ Members(n) /\ Shown(n) /\ n.site = site /\ n.needed = check
                      /\ n.updated = (listing[site] = "ready") /\ n.view = m.view
    OBVIOUS
  <1> DEFINE moved == [m EXCEPT !.site = site, !.needed = check,
                               !.updated = FALSE, !.selected = FALSE]
             told  == [moved EXCEPT !.known = TiltsOfSite(moved), !.updated = TRUE]
  <1>1. /\ Members(moved) /\ Shown(moved) /\ moved.site = site /\ moved.needed = check
        /\ moved.selected = FALSE /\ moved.updated = FALSE /\ moved.view = m.view
    BY DEF Members, Shown
  <1>2. SetRadarSite(m, site, check) =
           IF listing[site] = "ready" THEN ProductsChanged(moved) ELSE moved
    BY DEF SetRadarSite
  <1> HIDE DEF moved
  <1>3. /\ Members(told) /\ Shown(told) /\ told.site = site /\ told.needed = check
        /\ told.selected = FALSE /\ told.updated = TRUE /\ told.view = m.view
    BY <1>1 DEF Members, Shown
  <1>4. ProductsChanged(moved) = told
    BY <1>3 DEF ProductsChanged, CheckLevel3Availability
  <1> HIDE DEF told
  <1> QED  BY <1>1, <1>2, <1>3, <1>4

----------------------------------------------------------------------------
(* The invariant.                                                           *)

LEMMA RefreshInit == MapInit => RefreshInv
  <1> SUFFICES ASSUME MapInit PROVE RefreshInv
    OBVIOUS
  <1>1. Types
    BY DEF MapInit, Types
  <1>2. Consistent(map) /\ ~map.needed
    BY DEF MapInit, Consistent, Members, Shown, AskedFor, NoView
  <1> QED  BY <1>1, <1>2 DEF RefreshInv, Due

(* A check stays due if the map is at the same site, the queue of signals    *)
(* kept its announcements, and its manager is no nearer than announced.      *)
LEMMA StaysDue ==
    ASSUME Types, Types', Due,
           map'.needed => map.needed /\ map'.selected /\ map'.site = map.site,
           map'.needed => listing'[map.site] \in {"posted", "stored"}
                            \/ listing'[map.site] = listing[map.site],
           Announced => Announced'
    PROVE  Due'
  BY DEF Due, Types

(* A map that selects a product keeps its check.                            *)
LEMMA SelectKeeps ==
    ASSUME RefreshInv, NEW product, NEW n, n = SelectRadarProduct(map, product)
    PROVE  /\ Consistent(n)
           /\ n.needed => map.needed /\ n.selected /\ n.site = map.site
  <1>1. Consistent(n)
    BY SelectedIsConsistent DEF RefreshInv, Consistent
  <1>2. n.needed = map.needed /\ n.selected = map.selected /\ n.site = map.site
    BY ProductSelected DEF RefreshInv, Consistent
  <1> QED  BY <1>1, <1>2 DEF RefreshInv, Due

(* A map that is told of products spends its check.                         *)
LEMMA ChangedKeeps ==
    ASSUME RefreshInv, NEW n, n = ProductsChanged(map)
    PROVE  Consistent(n) /\ ~n.needed
  BY ChangedIsConsistent DEF RefreshInv, Due

(* The managers' listings: posting one leaves every other where it is.      *)
LEMMA ListingPosted ==
    ASSUME Types, NEW site \in Sites, ListProducts(site)
    PROVE  /\ listing' \in [Sites -> {"none", "posted", "stored", "ready"}]
           /\ \A s \in Sites : listing'[s] = listing[s] \/ listing'[s] = "posted"
           /\ listing[site] # "ready" => listing'[site] \in {"posted", "stored"}
  BY DEF Types, ListProducts

(* Signals: one that is queued, and one that is taken, keep announcements.   *)
LEMMA SignalQueued ==
    ASSUME Types, NEW event \in Events, events' = Append(events, event)
    PROVE  events' \in Seq(Events) /\ (Announced => Announced')
             /\ (event.kind = "Level3ProductsChanged" => Announced')
  <1>1. events' \in Seq(Events) /\ DOMAIN events' = 1 .. Len(events) + 1
    BY DEF Types
  <1>2. /\ \A i \in DOMAIN events : i \in DOMAIN events' /\ events'[i] = events[i]
        /\ Len(events) + 1 \in DOMAIN events' /\ events'[Len(events) + 1] = event
    BY DEF Types
  <1> QED  BY <1>1, <1>2 DEF Announced

LEMMA Taken ==
    ASSUME Types, NEW kind, Take(kind)
    PROVE  /\ Head(events) \in Events /\ events' \in Seq(Events)
           /\ kind # "Level3ProductsChanged" /\ Announced => Announced'
  <1>1. /\ events \in Seq(Events) /\ events # <<>> /\ events' = Tail(events)
        /\ Head(events).kind = kind
    BY DEF Types, Take
  <1>2. Head(events) \in Events /\ events' \in Seq(Events)
    BY <1>1
  <1>3. ASSUME kind # "Level3ProductsChanged", Announced PROVE Announced'
    <2>1. PICK i \in DOMAIN events : events[i].kind = "Level3ProductsChanged"
      BY <1>3 DEF Announced
    <2>2. i # 1
      BY <1>1, <1>3, <2>1
    <2>3. i - 1 \in DOMAIN events' /\ events'[i - 1] = events[i]
      BY <1>1, <2>2
    <2> QED  BY <2>1, <2>3 DEF Announced
  <1> QED  BY <1>2, <1>3

----------------------------------------------------------------------------
(* Every step keeps the invariant.                                          *)

LEMMA UserKeepsInv == RefreshInv /\ UserStep => RefreshInv'
  <1> SUFFICES ASSUME RefreshInv, UserStep PROVE RefreshInv'
    OBVIOUS
  <1> USE DEF RefreshInv
  <1>1. ASSUME NEW product, SelectProduct(product) PROVE RefreshInv'
    <2>1. Types'
      BY <1>1 DEF SelectProduct, Types
    <2>2. Consistent(map') /\ (map'.needed => map.needed /\ map'.selected /\ map'.site = map.site)
      BY <1>1, SelectKeeps DEF SelectProduct
    <2>3. listing' = listing /\ events' = events
      BY <1>1 DEF SelectProduct
    <2> QED  BY <2>1, <2>2, <2>3, StaysDue DEF Announced
  <1>2. ASSUME NEW site \in Sites, SelectRadarSite(site) PROVE RefreshInv'
    <2> DEFINE moved == SetRadarSite(map, site, TRUE)
               along == [moved EXCEPT !.view.site = site]
    <2>1. Members(moved) /\ Shown(moved) /\ moved.site = site /\ moved.needed = TRUE
             /\ moved.updated = (listing[site] = "ready") /\ moved.view = map.view
      <3>1. Members(map) /\ Shown(map) /\ site # map.site
        BY <1>2 DEF SelectRadarSite, Consistent
      <3> QED  BY <3>1, SiteSet
    <2> DEFINE shown == IF map.view # NoView THEN along
                        ELSE IF moved.product # Unknown
                        THEN SelectRadarProduct(moved, moved.product)
                        ELSE moved
    <2>2. map' = SiteUpdated(shown) /\ ListProducts(site) /\ events' = events
             /\ fileLoads' = fileLoads
      BY <1>2 DEF SelectRadarSite
    <2> HIDE DEF moved
    <2>3. Consistent(shown) /\ shown.site = site
             /\ shown.updated = (listing[site] = "ready")
      <3>1. CASE map.view # NoView
        <4>1. Members(along) /\ along.site = site /\ along.needed = TRUE
                 /\ along.updated = moved.updated /\ Shown(along)
          BY <2>1, <3>1 DEF Members, Shown
        <4>2. shown = along
          BY <3>1
        <4> HIDE DEF along, shown
        <4> QED  BY <2>1, <4>1, <4>2 DEF Consistent
      <3>2. CASE map.view = NoView /\ moved.product # Unknown
        <4> DEFINE product == moved.product
        <4>1. shown = SelectRadarProduct(moved, product)
          BY <3>2
        <4> HIDE DEF shown, product
        <4>2. Consistent(shown)
          BY <2>1, <4>1, SelectedIsConsistent
        <4>3. shown.site = moved.site /\ shown.updated = moved.updated
          BY <2>1, <4>1, ProductSelected
        <4> QED  BY <2>1, <4>2, <4>3
      <3>3. CASE map.view = NoView /\ moved.product = Unknown
        <4>1. shown = moved
          BY <3>3
        <4> HIDE DEF shown
        <4> QED  BY <2>1, <4>1 DEF Consistent
      <3> QED  BY <3>1, <3>2, <3>3
    <2> HIDE DEF shown
    <2>4. Consistent(map') /\ map'.site = site /\ map'.selected = TRUE
             /\ (listing[site] = "ready" => ~map'.needed)
      BY <2>2, <2>3, UpdatedIsConsistent
    <2>5. Types' /\ (listing[site] # "ready" => listing'[site] \in {"posted", "stored"})
      BY <2>2, ListingPosted DEF Types
    <2> QED  BY <2>4, <2>5 DEF Due
  <1>3. ASSUME NEW site \in Sites, OtherMapSelectsSite(site) PROVE RefreshInv'
    <2>1. ListProducts(site) /\ events' = events /\ fileLoads' = fileLoads
      BY <1>3 DEF OtherMapSelectsSite
    <2>2. Types' /\ \A s \in Sites : listing'[s] = listing[s] \/ listing'[s] = "posted"
      BY <2>1, ListingPosted DEF Types
    <2>3. CASE map' = ProductsChanged(map)
      BY <2>2, <2>3, ChangedKeeps DEF Due
    <2>4. CASE map' = map
      <3>1. Consistent(map') /\ (Announced => Announced')
        BY <2>1, <2>4 DEF Announced
      <3> QED  BY <2>2, <2>4, <3>1, StaysDue DEF Due
    <2> QED  BY <1>3, <2>3, <2>4 DEF OtherMapSelectsSite
  <1>4. CASE SelectNoSite
    <2>1. Types'
      BY <1>4 DEF SelectNoSite, Types
    <2>2. Consistent(map') /\ ~map'.needed
      BY <1>4 DEF SelectNoSite, Consistent, Members, Shown, AskedFor, NoView
    <2> QED  BY <2>1, <2>2 DEF Due
  <1>5. ASSUME NEW site \in Sites, NEW product, OpenFile(site, product) PROVE RefreshInv'
    <2> DEFINE quiet == [map EXCEPT !.autoRefresh = FALSE]
               set   == SetRadarSite(quiet, site, FALSE)
    <2>1. Members(quiet) /\ Shown(quiet) /\ quiet.site = map.site
             /\ quiet.needed = map.needed /\ quiet.selected = map.selected
      BY DEF Consistent, Members, Shown
    <2>2. map' = SelectRadarProduct(set, product) /\ events' = events
             /\ fileLoads' = fileLoads
             /\ IF site = map.site THEN listing' = listing ELSE ListProducts(site)
      BY <1>5 DEF OpenFile
    <2>3. Types'
      BY <2>2, ListingPosted DEF Types
    <2>4. CASE site = map.site
      <3>1. set = quiet
        BY <2>1, <2>4 DEF SetRadarSite
      <3> HIDE DEF quiet, set
      <3>2. Consistent(map') /\ map'.needed = map.needed /\ map'.selected = map.selected
               /\ map'.site = map.site
        BY <2>1, <2>2, <3>1, ProductSelected, SelectedIsConsistent
      <3> QED  BY <2>2, <2>3, <2>4, <3>2, StaysDue DEF Announced, Due
    <2>5. CASE site # map.site
      <3> HIDE DEF quiet
      <3>1. Members(set) /\ set.needed = FALSE
        <4>1. site # quiet.site
          BY <2>1, <2>5
        <4> QED  BY <2>1, <4>1, SiteSet
      <3> HIDE DEF set
      <3>2. Consistent(map') /\ ~map'.needed
        BY <2>2, <3>1, ProductSelected, SelectedIsConsistent
      <3> QED  BY <2>3, <3>2 DEF Due
    <2> QED  BY <2>4, <2>5
  <1>6. ASSUME NEW site \in Sites, ManagerExpires(site) PROVE RefreshInv'
    <2>1. site # map.site /\ map' = [map EXCEPT !.refreshed[site] = None]
             /\ listing' = [listing EXCEPT ![site] = "none"]
             /\ events' = events /\ fileLoads' = fileLoads
      BY <1>6 DEF ManagerExpires
    <2>2. Types'
      BY <2>1 DEF Types
    <2>3. Consistent(map') /\ map'.needed = map.needed /\ map'.selected = map.selected
             /\ map'.site = map.site
      BY <2>1 DEF Consistent, Members, Shown, AskedFor
    <2>4. map.needed => listing'[map.site] = listing[map.site]
      BY <2>1 DEF Due, Types
    <2> QED  BY <2>1, <2>2, <2>3, <2>4, StaysDue DEF Announced, Due
  <1> QED  BY <1>1, <1>2, <1>3, <1>4, <1>5, <1>6 DEF UserStep

LEMMA PoolKeepsInv == RefreshInv /\ PoolStep => RefreshInv'
  <1> SUFFICES ASSUME RefreshInv, PoolStep PROVE RefreshInv'
    OBVIOUS
  <1> USE DEF RefreshInv
  <1>1. ASSUME NEW site \in Sites, StoreProducts(site) PROVE RefreshInv'
    <2>1. map' = map /\ events' = events /\ fileLoads' = fileLoads
             /\ listing' = [listing EXCEPT ![site] = "stored"]
      BY <1>1 DEF StoreProducts
    <2>2. Types' /\ \A s \in Sites : listing'[s] = listing[s] \/ listing'[s] = "stored"
      BY <2>1 DEF Types
    <2> QED  BY <2>1, <2>2, StaysDue DEF Announced, Due
  <1>2. ASSUME NEW site \in Sites, AnnounceProducts(site) PROVE RefreshInv'
    <2> DEFINE event == [kind |-> "Level3ProductsChanged"]
    <2>1. map' = map /\ fileLoads' = fileLoads
             /\ listing' = [listing EXCEPT ![site] = "ready"]
             /\ events' = IF map.site = site THEN Append(events, event) ELSE events
      BY <1>2 DEF AnnounceProducts, Emit
    <2>2. listing' \in [Sites -> {"none", "posted", "stored", "ready"}]
             /\ \A s \in Sites : s # site => listing'[s] = listing[s]
      BY <2>1 DEF Types
    <2>3. CASE map.site = site
      <3>1. events' \in Seq(Events) /\ Announced'
        BY <2>1, <2>3, SignalQueued DEF Events
      <3> QED  BY <2>1, <2>2, <3>1 DEF Types, Due
    <2>4. CASE map.site # site
      <3>1. Types' /\ (Announced => Announced')
        BY <2>1, <2>2, <2>4 DEF Types, Announced
      <3> QED  BY <2>1, <2>2, <2>4, <3>1, StaysDue DEF Due
    <2> QED  BY <2>3, <2>4
  <1>3. ASSUME NEW site \in Sites, NEW product \in Products, NEW chunks \in BOOLEAN,
               NewData(site, product, chunks)
        PROVE  RefreshInv'
    <2> DEFINE event == [kind |-> "NewDataAvailable", product |-> product,
                         chunks |-> chunks]
    <2>1. map' = map /\ listing' = listing /\ fileLoads' = fileLoads
             /\ events' = Append(events, event)
      BY <1>3 DEF NewData, Emit
    <2>2. Types' /\ (Announced => Announced')
      BY <2>1, SignalQueued DEF Events, Types
    <2> QED  BY <2>1, <2>2, StaysDue DEF Due
  <1>4. ASSUME NEW load \in fileLoads, NEW record \in BOOLEAN, CompleteRequest(load, record)
        PROVE  RefreshInv'
    <2> DEFINE event == [kind |-> "RequestComplete", site |-> load.site,
                         product |-> load.product, record |-> record]
    <2>1. map' = map /\ listing' = listing /\ fileLoads' = fileLoads \ {load}
             /\ events' = Append(events, event)
      BY <1>4 DEF CompleteRequest
    <2>2. event \in Events
      BY DEF Events, Types
    <2>3. Types' /\ (Announced => Announced')
      BY <2>1, <2>2, SignalQueued DEF Types
    <2> QED  BY <2>1, <2>3, StaysDue DEF Due
  <1>5. ASSUME NEW load \in fileLoads, LoadThrows(load) PROVE RefreshInv'
    <2>1. map' = map /\ listing' = listing /\ events' = events
             /\ fileLoads' = fileLoads \ {load}
      BY <1>5 DEF LoadThrows
    <2>2. Types' /\ (Announced => Announced')
      BY <2>1 DEF Types, Announced
    <2> QED  BY <2>1, <2>2, StaysDue DEF Due
  <1> QED  BY <1>1, <1>2, <1>3, <1>4, <1>5 DEF PoolStep

LEMMA SignalKeepsInv == RefreshInv /\ SignalStep => RefreshInv'
  <1> SUFFICES ASSUME RefreshInv, SignalStep PROVE RefreshInv'
    OBVIOUS
  <1> USE DEF RefreshInv
  <1>1. CASE HandleLevel3ProductsChanged
    <2>1. Types'
      BY <1>1, Taken DEF HandleLevel3ProductsChanged, Types
    <2>2. Consistent(map') /\ ~map'.needed
      BY <1>1, ChangedKeeps DEF HandleLevel3ProductsChanged
    <2> QED  BY <2>1, <2>2 DEF Due
  <1>2. ASSUME NEW autoUpdate \in BOOLEAN, HandleNewDataAvailable(autoUpdate)
        PROVE  RefreshInv'
    <2>1. /\ Head(events) \in Events /\ Head(events).kind = "NewDataAvailable"
          /\ events' \in Seq(Events) /\ (Announced => Announced')
      BY <1>2, Taken DEF HandleNewDataAvailable, Take
    <2>2. Head(events).product \in Products
      BY <2>1 DEF Events
    <2>3. listing' = listing
             /\ \/ fileLoads' = fileLoads
                \/ /\ map.site # NoSite
                   /\ fileLoads' = fileLoads \cup
                         {[site |-> map.site, product |-> Head(events).product]}
      BY <1>2 DEF HandleNewDataAvailable
    <2>4. Types'
      BY <2>1, <2>2, <2>3 DEF Types, Consistent, Members
    <2>5. map' = map \/ map' = SelectRadarProduct(map, Head(events).product)
      BY <1>2 DEF HandleNewDataAvailable
    <2>6. Consistent(map')
             /\ (map'.needed => map.needed /\ map'.selected /\ map'.site = map.site)
      BY <2>5, SelectKeeps DEF Due
    <2> QED  BY <2>1, <2>3, <2>4, <2>6, StaysDue
  <1>3. CASE HandleRequestComplete
    <2>1. events' \in Seq(Events) /\ (Announced => Announced')
      BY <1>3, Taken DEF HandleRequestComplete
    <2>2. listing' = listing /\ fileLoads' = fileLoads
             /\ (map' = map \/ map' = SelectRadarProduct(map, Head(events).product))
      BY <1>3 DEF HandleRequestComplete
    <2>3. Types'
      BY <2>1, <2>2 DEF Types
    <2>4. Consistent(map')
             /\ (map'.needed => map.needed /\ map'.selected /\ map'.site = map.site)
      BY <2>2, SelectKeeps DEF Due
    <2> QED  BY <2>1, <2>2, <2>3, <2>4, StaysDue
  <1> QED  BY <1>1, <1>2, <1>3 DEF SignalStep

LEMMA StepKeepsInv == RefreshInv /\ [MapNext]_mapVars => RefreshInv'
  <1>1. RefreshInv /\ UNCHANGED mapVars => RefreshInv'
    BY DEF mapVars, RefreshInv, Types, Due, Announced
  <1> QED
    BY <1>1, UserKeepsInv, PoolKeepsInv, SignalKeepsInv DEF MapNext, Crashed

(* What the invariant is for.                                               *)
LEMMA InvRefreshes == RefreshInv => ViewIsRefreshed
  BY DEF RefreshInv, Consistent, AskedFor, Due, Announced, ViewIsRefreshed

(* In automatic refresh, what a map shows is being refreshed, or a check is  *)
(* due that will ask for it: whatever the user selects, in whatever order    *)
(* the managers' signals arrive, for signals of a site the map has left too. *)
THEOREM ViewRefreshed == MapSpec => []ViewIsRefreshed
  <1>1. MapInit => RefreshInv
    BY RefreshInit
  <1>2. RefreshInv /\ [MapNext]_mapVars => RefreshInv'
    BY StepKeepsInv
  <1>3. RefreshInv => ViewIsRefreshed
    BY InvRefreshes
  <1> QED  BY <1>1, <1>2, <1>3, PTL DEF MapSpec

----------------------------------------------------------------------------
(* Types.  What the handlers look for in the catalogue is there: the tilts   *)
(* that are known, or available at a site, are tilts of the catalogue.       *)

LEMMA RangeIsEntries ==
    ASSUME NEW X, NEW s \in Seq(X)
    PROVE  Range(s) = Entries(s)
  BY DEF Range, Entries

(* A tilt is one of its product, which is in the catalogue and in its        *)
(* category.                                                                *)
LEMMA TiltOfProduct ==
    ASSUME NEW tilt \in Tilts
    PROVE  ProductOf(tilt) \in Level3Products /\ tilt \in Range(TiltsOf[ProductOf(tilt)])
  BY DEF ProductOf, Tilts

LEMMA ProductOfCategory ==
    ASSUME NEW product \in Level3Products
    PROVE  /\ CategoryOf(product) \in Categories
           /\ product \in Range(Catalogue[CategoryOf(product)])
  BY DEF CategoryOf, Level3Products

LEMMA AvailableTiltsAre ==
    ASSUME NEW product \in Level3Products, NEW tilts
    PROVE  /\ AvailableTilts(product, tilts) \in Seq(Tilts)
           /\ Range(AvailableTilts(product, tilts)) = Range(TiltsOf[product]) \cap tilts
  <1>1. TiltsOf[product] \in Seq(Tilts)
    BY CatalogueAssumption
  <1>2. AvailableTilts(product, tilts) \in Seq(Tilts)
    BY <1>1, KeepingPlaces DEF AvailableTilts
  <1>3. Entries(AvailableTilts(product, tilts)) = Entries(TiltsOf[product]) \cap tilts
    BY <1>1, KeepingEntries DEF AvailableTilts
  <1> QED  BY <1>1, <1>2, <1>3, RangeIsEntries

LEMMA AvailableProductsAre ==
    ASSUME NEW category \in Categories, NEW tilts
    PROVE  /\ AvailableProducts(category, tilts) \in Seq(Level3Products)
           /\ \A p \in Range(AvailableProducts(category, tilts)) :
                 Range(TiltsOf[p]) \cap tilts # {}
  <1> DEFINE having == {p \in Level3Products : Range(TiltsOf[p]) \cap tilts # {}}
  <1>1. Catalogue[category] \in Seq(Level3Products)
    BY CatalogueAssumption
  <1>2. AvailableProducts(category, tilts) = Keeping(Catalogue[category], having)
    BY DEF AvailableProducts
  <1> HIDE DEF having
  <1>3. AvailableProducts(category, tilts) \in Seq(Level3Products)
    BY <1>1, <1>2, KeepingPlaces
  <1>4. Entries(AvailableProducts(category, tilts)) \subseteq having
    BY <1>1, <1>2, KeepingEntries
  <1>5. Range(AvailableProducts(category, tilts)) \subseteq having
    BY <1>3, <1>4, RangeIsEntries
  <1> QED  BY <1>3, <1>5 DEF having

(* A tilt that is known has an index, counted from one.                     *)
LEMMA TiltIndexIsOne ==
    ASSUME NEW tilt \in Tilts, NEW known
    PROVE  TiltIndex(tilt, known) \in Nat \ {0}
  <1>1. CASE tilt \notin known
    BY <1>1 DEF TiltIndex
  <1>2. CASE tilt \in known
    <2> DEFINE list == AvailableTilts(ProductOf(tilt), known)
    <2>1. list \in Seq(Tilts) /\ tilt \in Range(list)
      BY <1>2, TiltOfProduct, AvailableTiltsAre
    <2>2. TiltIndex(tilt, known) = IndexOf(tilt, list)
      BY <1>2 DEF TiltIndex
    <2> HIDE DEF list
    <2>3. IndexOf(tilt, list) \in DOMAIN list
      BY <2>1 DEF IndexOf, Range
    <2>4. DOMAIN list \subseteq Nat \ {0}
      BY <2>1
    <2> QED  BY <2>2, <2>3, <2>4
  <1> QED  BY <1>1, <1>2

(* What takes the place of a tilt is a tilt, whatever the site has.          *)
LEMMA TiltInsteadIsOne ==
    ASSUME NEW tilt \in Tilts, NEW index \in Nat \ {0}, NEW tilts \in SUBSET Tilts
    PROVE  TiltInstead(tilt, index, tilts) \in Tilts
  <1> DEFINE category == CategoryOf(ProductOf(tilt))
             has      == AvailableProducts(category, tilts)
             product  == IF ProductOf(tilt) \in Range(has) THEN ProductOf(tilt) ELSE has[1]
             choice   == AvailableTilts(product, tilts)
  <1>1. category \in Categories
    BY TiltOfProduct, ProductOfCategory
  <1>2. /\ has \in Seq(Level3Products)
        /\ \A p \in Range(has) : Range(TiltsOf[p]) \cap tilts # {}
    BY <1>1, AvailableProductsAre
  <1>3. TiltInstead(tilt, index, tilts) =
           IF has = <<>> THEN tilt
           ELSE IF index <= Len(choice) THEN choice[index] ELSE choice[Len(choice)]
    BY DEF TiltInstead
  <1> HIDE DEF category, has
  <1>4. CASE has = <<>>
    BY <1>3, <1>4
  <1>5. CASE has # <<>>
    <2>1. 1 \in DOMAIN has
      BY <1>2, <1>5
    <2>2. product \in Range(has) /\ product \in Level3Products
      BY <1>2, <2>1 DEF Range
    <2> HIDE DEF product
    <2>3. choice \in Seq(Tilts) /\ Range(choice) # {}
      BY <1>2, <2>2, AvailableTiltsAre
    <2> HIDE DEF choice
    <2>4. Len(choice) \in Nat \ {0} /\ \A i \in 1 .. Len(choice) : choice[i] \in Tilts
      BY <2>3 DEF Range
    <2> QED  BY <1>3, <1>5, <2>4
  <1> QED  BY <1>4, <1>5

----------------------------------------------------------------------------
(* The handlers keep the type of a map.                                     *)

LEMMA ViewKept ==
    ASSUME NEW m \in Maps, NEW product \in Products, SameView(m.view.product, product)
    PROVE  m.view # NoView
  <1>1. None \notin Tilts /\ None # Level2
    BY CatalogueAssumption DEF None, Level2
  <1>2. m.view.product # None
    BY <1>1 DEF SameView, Products
  <1> QED  BY <1>2 DEF NoView

(* What selecting a product assigns, without and with a site.               *)
Unshown(m, index, product) == [m EXCEPT !.tilt = index, !.product = product, !.view = NoView]
Reshown(m, index, product, view, asked) ==
    [m EXCEPT !.tilt = index, !.product = product, !.view = view, !.refreshed = asked]

LEMMA SelectionTyped ==
    ASSUME NEW m \in Maps, NEW index \in Nat \ {0}, NEW product \in Products
    PROVE  /\ Unshown(m, index, product) \in Maps
           /\ \A view \in [product : Products, site : Sites] :
                \A asked \in [Sites -> Products \cup {None}] :
                  Reshown(m, index, product, view, asked) \in Maps
  <1>1. Unshown(m, index, product) \in Maps
    BY DEF Maps, Unshown
  <1>2. ASSUME NEW view \in [product : Products, site : Sites],
               NEW asked \in [Sites -> Products \cup {None}]
        PROVE  Reshown(m, index, product, view, asked) \in Maps
    BY DEF Maps, Reshown
  <1> QED  BY <1>1, <1>2

LEMMA SelectTyped ==
    ASSUME NEW m \in Maps, NEW product \in Products
    PROVE  SelectRadarProduct(m, product) \in Maps
  <1> DEFINE index == IF product \in Tilts THEN TiltIndex(product, m.known) ELSE 1
             same  == [m.view EXCEPT !.product = product]
             new   == [product |-> product, site |-> m.site]
             view  == IF SameView(m.view.product, product) THEN same ELSE new
             asked == RefreshAsked(m, product)
  <1>1. index \in Nat \ {0}
    BY TiltIndexIsOne
  <1>2. SelectRadarProduct(m, product) =
           IF m.site = NoSite THEN Unshown(m, index, product)
           ELSE Reshown(m, index, product, view, asked)
    BY DEF SelectRadarProduct, Unshown, Reshown
  <1>3. m.site # NoSite => view \in [product : Products, site : Sites]
    BY ViewKept DEF Maps
  <1>4. m.site # NoSite => asked \in [Sites -> Products \cup {None}]
    BY DEF RefreshAsked, Maps
  <1> HIDE DEF index, view, asked
  <1> QED  BY <1>1, <1>2, <1>3, <1>4, SelectionTyped

(* The product of a view is one that can be selected; another in its place   *)
(* can, too.                                                                *)
LEMMA CheckTyped ==
    ASSUME NEW m \in Maps, Shown(m), NEW tilts \in SUBSET Tilts
    PROVE  CheckLevel3Availability(m, tilts) \in Maps
  <1> DEFINE spent   == [m EXCEPT !.needed = FALSE]
             product == IF m.product = Level2 THEN Level2
                        ELSE TiltInstead(m.product, m.tilt, tilts)
  <1>1. spent \in Maps
    BY DEF Maps
  <1>2. CheckLevel3Availability(m, tilts) =
           IF ~(m.needed /\ m.updated /\ m.selected) THEN m
           ELSE IF m.view = NoView THEN spent ELSE SelectRadarProduct(spent, product)
    BY DEF CheckLevel3Availability
  <1>3. CASE m.view = NoView
    BY <1>1, <1>2, <1>3
  <1>4. CASE m.view # NoView
    <2>1. m.product \in Products
      BY <1>4 DEF Shown, Maps
    <2>2. m.product # Level2 => TiltInstead(m.product, m.tilt, tilts) \in Tilts
      BY <2>1, TiltInsteadIsOne DEF Products, Maps
    <2>3. product \in Products
      BY <2>2 DEF Products
    <2> HIDE DEF spent, product
    <2> QED  BY <1>1, <1>2, <2>3, SelectTyped
  <1> QED  BY <1>3, <1>4

LEMMA TiltsOfSiteAre ==
    ASSUME MapTypeOK, NEW m \in Maps
    PROVE  TiltsOfSite(m) \in SUBSET Tilts
  BY DEF MapTypeOK, Maps, TiltsOfSite

LEMMA ChangedTyped ==
    ASSUME MapTypeOK, NEW m \in Maps, Shown(m)
    PROVE  ProductsChanged(m) \in Maps
  <1> DEFINE told == [m EXCEPT !.known = TiltsOfSite(m), !.updated = TRUE]
  <1>1. told \in Maps /\ Shown(told)
    BY TiltsOfSiteAre DEF Maps, Shown
  <1>2. ProductsChanged(m) = CheckLevel3Availability(told, TiltsOfSite(m))
    BY DEF ProductsChanged
  <1> HIDE DEF told
  <1> QED  BY <1>1, <1>2, CheckTyped, TiltsOfSiteAre

LEMMA UpdatedTyped ==
    ASSUME MapTypeOK, NEW m \in Maps, Shown(m)
    PROVE  SiteUpdated(m) \in Maps
  <1> DEFINE marked == [m EXCEPT !.selected = TRUE]
  <1>1. marked \in Maps /\ Shown(marked)
    BY DEF Maps, Shown
  <1>2. SiteUpdated(m) = CheckLevel3Availability(marked, TiltsOfSite(m))
    BY DEF SiteUpdated
  <1> HIDE DEF marked
  <1> QED  BY <1>1, <1>2, CheckTyped, TiltsOfSiteAre

LEMMA SiteTyped ==
    ASSUME MapTypeOK, NEW m \in Maps, Shown(m), NEW site \in Sites, NEW check \in BOOLEAN
    PROVE  SetRadarSite(m, site, check) \in Maps
  <1> DEFINE moved == [m EXCEPT !.site = site, !.needed = check,
                               !.updated = FALSE, !.selected = FALSE]
  <1>1. moved \in Maps /\ Shown(moved)
    BY DEF Maps, Shown
  <1>2. SetRadarSite(m, site, check) =
           IF m.site = site THEN m
           ELSE IF listing[site] = "ready" THEN ProductsChanged(moved) ELSE moved
    BY DEF SetRadarSite
  <1> HIDE DEF moved
  <1> QED  BY <1>1, <1>2, ChangedTyped

LEMMA ShownMap == RefreshInv => Shown(map) /\ Members(map)
  BY DEF RefreshInv, Consistent

LEMMA PostedTyped ==
    ASSUME MapTypeOK, NEW site \in Sites, ListProducts(site)
    PROVE  listing' \in [Sites -> {"none", "posted", "stored", "ready"}]
  BY DEF MapTypeOK, ListProducts

----------------------------------------------------------------------------
(* Every step keeps the types; what a map shows is part of the invariant.    *)

LEMMA UserKeepsTypes == MapTypeOK /\ RefreshInv /\ UserStep => MapTypeOK'
  <1> SUFFICES ASSUME MapTypeOK, RefreshInv, UserStep PROVE MapTypeOK'
    OBVIOUS
  <1>0. map \in Maps /\ Shown(map) /\ Members(map)
    BY ShownMap DEF MapTypeOK
  <1>1. ASSUME NEW product \in Products, SelectProduct(product) PROVE MapTypeOK'
    <2>1. map' \in Maps
      BY <1>0, <1>1, SelectTyped DEF SelectProduct
    <2> QED  BY <1>1, <2>1 DEF SelectProduct, MapTypeOK
  <1>2. ASSUME NEW site \in Sites, SelectRadarSite(site) PROVE MapTypeOK'
    <2> DEFINE moved == SetRadarSite(map, site, TRUE)
               along == [moved EXCEPT !.view.site = site]
               shown == IF map.view # NoView THEN along
                        ELSE IF moved.product # Unknown
                        THEN SelectRadarProduct(moved, moved.product)
                        ELSE moved
    <2>1. /\ map' = SiteUpdated(shown) /\ ListProducts(site) /\ site # map.site
          /\ UNCHANGED <<available, events, fileLoads, crashed>>
      BY <1>2 DEF SelectRadarSite
    <2>2. moved \in Maps
      BY <1>0, SiteTyped
    <2>3. Members(moved) /\ Shown(moved) /\ moved.site = site /\ moved.view = map.view
      BY <1>0, <2>1, SiteSet
    <2> HIDE DEF moved
    <2>4. shown \in Maps /\ Shown(shown)
      <3>1. CASE map.view # NoView
        <4>1. along \in Maps /\ Shown(along)
          BY <2>2, <2>3, <3>1 DEF Maps, Shown, NoView
        <4> QED  BY <3>1, <4>1
      <3>2. CASE map.view = NoView /\ moved.product # Unknown
        <4>1. moved.product \in Products
          BY <2>2, <3>2 DEF Maps
        <4>2. SelectRadarProduct(moved, moved.product) \in Maps
          BY <2>2, <4>1, SelectTyped
        <4>3. Shown(SelectRadarProduct(moved, moved.product))
          BY <2>3, SelectedIsConsistent DEF Consistent
        <4> QED  BY <3>2, <4>2, <4>3
      <3>3. CASE map.view = NoView /\ moved.product = Unknown
        BY <2>2, <2>3, <3>3
      <3> QED  BY <3>1, <3>2, <3>3
    <2> HIDE DEF shown
    <2>5. map' \in Maps
      BY <2>1, <2>4, UpdatedTyped
    <2>6. listing' \in [Sites -> {"none", "posted", "stored", "ready"}]
      BY <2>1, PostedTyped
    <2> QED  BY <2>1, <2>5, <2>6 DEF MapTypeOK
  <1>3. ASSUME NEW site \in Sites, OtherMapSelectsSite(site) PROVE MapTypeOK'
    <2>1. map' \in Maps
      BY <1>0, <1>3, ChangedTyped DEF OtherMapSelectsSite
    <2>2. listing' \in [Sites -> {"none", "posted", "stored", "ready"}]
      BY <1>3, PostedTyped DEF OtherMapSelectsSite
    <2> QED  BY <1>3, <2>1, <2>2 DEF OtherMapSelectsSite, MapTypeOK
  <1>4. CASE SelectNoSite
    <2> DEFINE refreshed == IF map.autoRefresh /\ map.view # NoView
                            THEN [map.refreshed EXCEPT ![map.site] = None]
                            ELSE map.refreshed
    <2>1. refreshed \in [Sites -> Products \cup {None}]
      BY <1>0 DEF Maps
    <2>2. map' = [map EXCEPT !.refreshed = refreshed, !.view = NoView, !.site = NoSite,
                             !.needed = FALSE, !.updated = FALSE, !.selected = TRUE]
      BY <1>4 DEF SelectNoSite
    <2> HIDE DEF refreshed
    <2>3. map' \in Maps
      BY <1>0, <2>1, <2>2 DEF Maps
    <2> QED  BY <1>4, <2>3 DEF SelectNoSite, MapTypeOK
  <1>5. ASSUME NEW site \in Sites, NEW product \in Products, OpenFile(site, product)
        PROVE  MapTypeOK'
    <2> DEFINE quiet == [map EXCEPT !.autoRefresh = FALSE]
               set   == SetRadarSite(quiet, site, FALSE)
    <2>1. quiet \in Maps /\ Shown(quiet)
      BY <1>0 DEF Maps, Shown
    <2>2. map' = SelectRadarProduct(set, product)
      BY <1>5 DEF OpenFile
    <2> HIDE DEF quiet
    <2>3. set \in Maps
      BY <2>1, SiteTyped
    <2> HIDE DEF set
    <2>4. map' \in Maps
      BY <2>2, <2>3, SelectTyped
    <2>5. listing' \in [Sites -> {"none", "posted", "stored", "ready"}]
      BY <1>5, PostedTyped DEF OpenFile, MapTypeOK
    <2> QED  BY <1>5, <2>4, <2>5 DEF OpenFile, MapTypeOK
  <1>6. ASSUME NEW site \in Sites, ManagerExpires(site) PROVE MapTypeOK'
    <2>1. /\ map' = [map EXCEPT !.refreshed[site] = None]
          /\ listing' = [listing EXCEPT ![site] = "none"]
          /\ available' = [available EXCEPT ![site] = {}]
          /\ UNCHANGED <<events, fileLoads, crashed>>
      BY <1>6 DEF ManagerExpires
    <2>2. map' \in Maps
      BY <1>0, <2>1 DEF Maps
    <2> QED  BY <2>1, <2>2 DEF MapTypeOK
  <1> QED  BY <1>1, <1>2, <1>3, <1>4, <1>5, <1>6 DEF UserStep

LEMMA PoolKeepsTypes ==
    MapTypeOK /\ RefreshInv /\ Types' /\ PoolStep => MapTypeOK'
  <1> SUFFICES ASSUME MapTypeOK, Types', PoolStep PROVE MapTypeOK'
    OBVIOUS
  <1> USE DEF Types
  <1>1. ASSUME NEW site \in Sites, StoreProducts(site) PROVE MapTypeOK'
    <2>1. available' \in [Sites -> SUBSET Tilts]
      BY <1>1, CatalogueAssumption DEF StoreProducts, MapTypeOK
    <2> QED  BY <1>1, <2>1 DEF StoreProducts, MapTypeOK
  <1>2. ASSUME NEW site \in Sites, AnnounceProducts(site) PROVE MapTypeOK'
    BY <1>2 DEF AnnounceProducts, MapTypeOK
  <1>3. ASSUME NEW site \in Sites, NEW product \in Products, NEW chunks \in BOOLEAN,
               NewData(site, product, chunks)
        PROVE  MapTypeOK'
    BY <1>3 DEF NewData, MapTypeOK
  <1>4. ASSUME NEW load \in fileLoads, NEW record \in BOOLEAN, CompleteRequest(load, record)
        PROVE  MapTypeOK'
    BY <1>4 DEF CompleteRequest, MapTypeOK
  <1>5. ASSUME NEW load \in fileLoads, LoadThrows(load) PROVE MapTypeOK'
    BY <1>5 DEF LoadThrows, MapTypeOK
  <1> QED  BY <1>1, <1>2, <1>3, <1>4, <1>5 DEF PoolStep

LEMMA SignalKeepsTypes ==
    MapTypeOK /\ RefreshInv /\ Types' /\ SignalStep => MapTypeOK'
  <1> SUFFICES ASSUME MapTypeOK, RefreshInv, Types', SignalStep PROVE MapTypeOK'
    OBVIOUS
  <1>0. map \in Maps /\ Shown(map) /\ Types
    BY ShownMap DEF MapTypeOK, RefreshInv
  <1>1. CASE HandleLevel3ProductsChanged
    <2>1. map' \in Maps
      BY <1>0, <1>1, ChangedTyped DEF HandleLevel3ProductsChanged
    <2> QED  BY <1>1, <2>1 DEF HandleLevel3ProductsChanged, MapTypeOK, Types
  <1>2. ASSUME NEW autoUpdate \in BOOLEAN, HandleNewDataAvailable(autoUpdate)
        PROVE  MapTypeOK'
    <2>1. Head(events) \in Events /\ Head(events).kind = "NewDataAvailable"
      BY <1>0, <1>2, Taken DEF HandleNewDataAvailable, Take
    <2>2. Head(events).product \in Products
      BY <2>1 DEF Events
    <2>3. map' = map \/ map' = SelectRadarProduct(map, Head(events).product)
      BY <1>2 DEF HandleNewDataAvailable
    <2>4. map' \in Maps
      BY <1>0, <2>2, <2>3, SelectTyped
    <2>5. crashed' \in BOOLEAN
      BY <1>2 DEF HandleNewDataAvailable
    <2>6. UNCHANGED <<listing, available>>
      BY <1>2 DEF HandleNewDataAvailable
    <2> QED  BY <2>4, <2>5, <2>6 DEF MapTypeOK, Types
  <1>3. CASE HandleRequestComplete
    <2>1. Head(events) \in Events /\ Head(events).kind = "RequestComplete"
      BY <1>0, <1>3, Taken DEF HandleRequestComplete, Take
    <2>2. Head(events).product \in Products
      BY <2>1 DEF Events
    <2>3. map' = map \/ map' = SelectRadarProduct(map, Head(events).product)
      BY <1>3 DEF HandleRequestComplete
    <2>4. map' \in Maps
      BY <1>0, <2>2, <2>3, SelectTyped
    <2> QED  BY <1>3, <2>4 DEF HandleRequestComplete, MapTypeOK, Types
  <1> QED  BY <1>1, <1>2, <1>3 DEF SignalStep

LEMMA MapInitTypes == MapInit => MapTypeOK
  <1> SUFFICES ASSUME MapInit PROVE MapTypeOK
    OBVIOUS
  <1>1. map \in Maps
    BY DEF MapInit, Maps
  <1>2. /\ events \in Seq(Events) /\ listing \in [Sites -> {"none", "posted", "stored", "ready"}]
        /\ available \in [Sites -> SUBSET Tilts]
    BY DEF MapInit
  <1> QED  BY <1>1, <1>2 DEF MapInit, MapTypeOK

LEMMA StepKeepsTypes == MapTypeOK /\ RefreshInv /\ [MapNext]_mapVars => MapTypeOK'
  <1> SUFFICES ASSUME MapTypeOK, RefreshInv, [MapNext]_mapVars PROVE MapTypeOK'
    OBVIOUS
  <1>1. Types'
    BY StepKeepsInv DEF RefreshInv
  <1>2. CASE UNCHANGED mapVars
    BY <1>2 DEF mapVars, MapTypeOK
  <1> QED
    BY <1>1, <1>2, UserKeepsTypes, PoolKeepsTypes, SignalKeepsTypes DEF MapNext, Crashed

(* The handlers of a map find what they look for in the catalogue: what is   *)
(* selected, shown and asked for are products, and the tilt has an index,    *)
(* for any catalogue and whatever tilts the sites turn out to have.          *)
THEOREM MapTypes == MapSpec => []MapTypeOK
  <1>1. MapInit => MapTypeOK /\ RefreshInv
    BY RefreshInit, MapInitTypes
  <1>2. MapTypeOK /\ RefreshInv /\ [MapNext]_mapVars => (MapTypeOK /\ RefreshInv)'
    BY StepKeepsInv, StepKeepsTypes
  <1> QED  BY <1>1, <1>2, PTL DEF MapSpec

----------------------------------------------------------------------------
(* The Level 2 view.                                                        *)

Level2Types ==
    /\ wanted \in Selections
    /\ pending \in Nat
    /\ sweep = [pc |-> sweep.pc, time |-> sweep.time, elevation |-> sweep.elevation,
                scan |-> sweep.scan, status |-> sweep.status, lacking |-> sweep.lacking]
    /\ sweep.time \in Queries /\ sweep.lacking \subseteq Volumes
    /\ records \subseteq Volumes
    /\ populating \in [Queries -> Nat]
    /\ reloading \in [Volumes -> Nat]
    /\ emitted \in Seq(Emissions)

(* A listing for the time, a record of v, or what tells of it is to come.   *)
TimesCome(time) == populating[time] > 0 \/ EmittedFor(TimesPopulated(time))
VolumeComes(v) == reloading[v] > 0 \/ EmittedFor(Reloaded) \/ v \in barren

(* While no update is queued the sweep is about what is wanted.             *)
SweepIsWanted ==
    pending = 0 => /\ sweep.time = wanted.time
                   /\ sweep.pc # "begun" => sweep.elevation = wanted.elevation

(* ... and an answer that leaves something out will be followed by another. *)
SweepIsAwaited ==
    pending = 0 =>
        /\ sweep.status = "ListingProducts" => TimesCome(sweep.time)
        /\ sweep.status = "LoadingProduct" => \A v \in sweep.lacking : VolumeComes(v)

SettleInv == Level2Types /\ SweepIsWanted /\ SweepIsAwaited

LEMMA SettleInit == Level2Init => SettleInv
  <1> SUFFICES ASSUME Level2Init PROVE SettleInv
    OBVIOUS
  <1>1. wanted.time \in Queries
    BY DEF Level2Init, Selections
  <1> QED
    BY <1>1 DEF Level2Init, SettleInv, Level2Types, SweepIsWanted, SweepIsAwaited

LEMMA EmittedAdded ==
    ASSUME Level2Types, NEW signal \in Emissions, emitted' = Append(emitted, signal)
    PROVE  /\ emitted' \in Seq(Emissions)
           /\ EmittedFor(signal)'
           /\ \A s : EmittedFor(s) => EmittedFor(s)'
  <1>1. /\ emitted' \in Seq(Emissions)
        /\ Len(emitted) + 1 \in DOMAIN emitted' /\ emitted'[Len(emitted) + 1] = signal
        /\ \A i \in DOMAIN emitted : i \in DOMAIN emitted' /\ emitted'[i] = emitted[i]
    BY DEF Level2Types
  <1> QED  BY <1>1 DEF EmittedFor

LEMMA EmittedTaken ==
    ASSUME Level2Types, emitted # <<>>, emitted' = Tail(emitted)
    PROVE  /\ Head(emitted) \in Emissions /\ emitted' \in Seq(Emissions)
           /\ \A s : EmittedFor(s) => EmittedFor(s)' \/ Head(emitted) = s
  <1>1. Head(emitted) \in Emissions /\ emitted' \in Seq(Emissions)
    BY DEF Level2Types
  <1>2. ASSUME NEW i \in DOMAIN emitted, i # 1
        PROVE  i - 1 \in DOMAIN emitted' /\ emitted'[i - 1] = emitted[i]
    BY <1>2 DEF Level2Types
  <1>3. Head(emitted) = emitted[1]
    BY DEF Level2Types
  <1> QED  BY <1>1, <1>2, <1>3 DEF EmittedFor

(* Steps beside the view: what was to come still is.                        *)
LEMMA BesideSweep ==
    ASSUME SettleInv, Level2Types', UNCHANGED viewing,
           \A time \in Queries : TimesCome(time) => TimesCome(time)',
           \A v \in Volumes : VolumeComes(v) => VolumeComes(v)'
    PROVE  SettleInv'
  <1>1. SweepIsWanted'
    BY DEF SettleInv, SweepIsWanted, viewing
  <1>2. SweepIsAwaited'
    BY DEF SettleInv, SweepIsAwaited, viewing, Level2Types
  <1> QED  BY <1>1, <1>2 DEF SettleInv

(* A selection is followed by an update.                                    *)
LEMMA SelectionSettles ==
    ASSUME SettleInv, NEW selection \in Selections, Select(selection)
    PROVE  SettleInv'
  <1>1. pending' = pending + 1 /\ pending' # 0
    BY DEF Select, SettleInv, Level2Types
  <1>2. Level2Types'
    BY <1>1 DEF Select, SettleInv, Level2Types, fetched
  <1> QED  BY <1>1, <1>2 DEF SettleInv, SweepIsWanted, SweepIsAwaited

LEMMA SelectSettles ==
    SettleInv /\ (\/ \E time \in Queries : SelectVolumeTime(time)
                 \/ \E elevation \in Elevations : SelectElevation(elevation))
      => SettleInv'
  <1>1. ASSUME SettleInv, NEW time \in Queries
        PROVE  [wanted EXCEPT !.time = time] \in Selections
    BY <1>1 DEF SettleInv, Level2Types, Selections
  <1>2. ASSUME SettleInv, NEW elevation \in Elevations
        PROVE  [wanted EXCEPT !.elevation = elevation] \in Selections
    BY <1>2 DEF SettleInv, Level2Types, Selections
  <1> QED
    BY <1>1, <1>2, SelectionSettles DEF SelectVolumeTime, SelectElevation

(* A signal the sweep waits for updates the view.                           *)
LEMMA EmissionSettles == SettleInv /\ HandleEmitted => SettleInv'
  <1> SUFFICES ASSUME SettleInv, HandleEmitted PROVE SettleInv'
    OBVIOUS
  <1>1. /\ emitted # <<>> /\ emitted' = Tail(emitted)
        /\ UNCHANGED <<wanted, sweep, populating, reloading, records, barren>>
    BY DEF HandleEmitted, fetched
  <1>2. /\ Head(emitted) \in Emissions /\ emitted' \in Seq(Emissions)
        /\ \A s : EmittedFor(s) => EmittedFor(s)' \/ Head(emitted) = s
    BY <1>1, EmittedTaken DEF SettleInv
  <1>3. pending' \in Nat /\ (pending' = 0 => pending = 0 /\ ~Updates(Head(emitted)))
    BY DEF HandleEmitted, SettleInv, Level2Types
  <1>4. Level2Types'
    BY <1>1, <1>2, <1>3 DEF SettleInv, Level2Types
  <1>5. SweepIsWanted'
    BY <1>1, <1>3 DEF SettleInv, SweepIsWanted
  <1>6. SweepIsAwaited'
    <2> SUFFICES ASSUME pending' = 0 PROVE SweepIsAwaited'
      BY DEF SweepIsAwaited
    <2>1. Head(emitted) # Reloaded /\ Head(emitted) # TimesPopulated(sweep.time)
      BY <1>3 DEF Updates, SettleInv, SweepIsWanted
    <2>2. EmittedFor(Reloaded) => \E i \in DOMAIN emitted' : emitted'[i] = Reloaded
      BY <1>2, <2>1 DEF EmittedFor, Reloaded
    <2>3. EmittedFor(TimesPopulated(sweep.time)) =>
             \E i \in DOMAIN emitted' : emitted'[i] = TimesPopulated(sweep.time)
      BY <1>2, <2>1 DEF EmittedFor, TimesPopulated
    <2> QED
      BY <1>1, <1>3, <2>2, <2>3
      DEF SettleInv, SweepIsAwaited, TimesCome, VolumeComes, EmittedFor, TimesPopulated,
          Reloaded
  <1> QED  BY <1>4, <1>5, <1>6 DEF SettleInv

(* The sweep.                                                               *)
LEMMA BeginSettles == SettleInv /\ BeginSweep => SettleInv'
  <1> SUFFICES ASSUME SettleInv, BeginSweep PROVE SettleInv'
    OBVIOUS
  <1>1. /\ sweep' = [sweep EXCEPT !.pc = "begun", !.time = wanted.time, !.scan = NoScan,
                                  !.status = "ProductNotLoaded", !.lacking = {}]
        /\ pending' \in Nat
        /\ UNCHANGED <<wanted, populating, reloading, records, emitted>>
    BY DEF BeginSweep, fetched, SettleInv, Level2Types
  <1>2. /\ sweep' = [pc |-> "begun", time |-> wanted.time, elevation |-> sweep.elevation,
                     scan |-> NoScan, status |-> "ProductNotLoaded", lacking |-> {}]
        /\ wanted.time \in Queries
    BY <1>1 DEF SettleInv, Level2Types, Selections
  <1>3. Level2Types'
    BY <1>1, <1>2 DEF SettleInv, Level2Types
  <1> QED  BY <1>1, <1>2, <1>3 DEF SettleInv, SweepIsWanted, SweepIsAwaited

LEMMA ChunksSettle == SettleInv /\ AskChunks => SettleInv'
  <1> SUFFICES ASSUME SettleInv, AskChunks PROVE SettleInv'
    OBVIOUS
  <1>1. sweep.pc = "begun" /\ UNCHANGED <<wanted, pending, populating, reloading, records,
                                         emitted, barren>>
    BY DEF AskChunks, fetched
  <1>2. PICK scan : \/ sweep' = [[sweep EXCEPT !.elevation = wanted.elevation, !.scan = scan]
                                  EXCEPT !.pc = "answered", !.status = "ProductLoaded"]
                    \/ sweep' = [[sweep EXCEPT !.elevation = wanted.elevation, !.scan = scan]
                                  EXCEPT !.pc = "archive"]
    BY DEF AskChunks
  <1>3. \E pc, result : /\ sweep' = [pc |-> pc, time |-> sweep.time,
                            elevation |-> wanted.elevation, scan |-> scan,
                            status |-> result, lacking |-> sweep.lacking]
                        /\ result \in {"ProductLoaded", sweep.status}
    BY <1>2 DEF SettleInv, Level2Types
  <1>4. /\ sweep' = [pc |-> sweep'.pc, time |-> sweep'.time, elevation |-> sweep'.elevation,
                     scan |-> sweep'.scan, status |-> sweep'.status, lacking |-> sweep'.lacking]
        /\ sweep'.time = sweep.time /\ sweep'.elevation = wanted.elevation
        /\ sweep'.lacking = sweep.lacking
        /\ sweep'.status \in {"ProductLoaded", sweep.status}
    BY <1>3
  <1>5. Level2Types'
    BY <1>1, <1>4 DEF SettleInv, Level2Types
  <1>6. SweepIsWanted'
    BY <1>1, <1>4 DEF SettleInv, SweepIsWanted
  <1>7. SweepIsAwaited'
    BY <1>1, <1>4 DEF SettleInv, SweepIsAwaited, TimesCome, VolumeComes, EmittedFor
  <1> QED  BY <1>5, <1>6, <1>7 DEF SettleInv

LEMMA ListSettles == SettleInv /\ ListVolumes => SettleInv'
  <1> SUFFICES ASSUME SettleInv, ListVolumes PROVE SettleInv'
    OBVIOUS
  <1>1. /\ sweep.pc = "archive"
        /\ populating' = [populating EXCEPT ![sweep.time] = @ + 1]
        /\ sweep' = [sweep EXCEPT !.pc = "answered", !.status = "ListingProducts"]
        /\ UNCHANGED <<wanted, pending, records, reloading, emitted>>
    BY DEF ListVolumes
  <1>2. sweep' = [pc |-> "answered", time |-> sweep.time, elevation |-> sweep.elevation,
                  scan |-> sweep.scan, status |-> "ListingProducts",
                  lacking |-> sweep.lacking]
    BY <1>1 DEF SettleInv, Level2Types
  <1>3. /\ sweep.time \in Queries /\ populating'[sweep.time] > 0
        /\ populating' \in [Queries -> Nat]
    BY <1>1 DEF SettleInv, Level2Types
  <1>4. Level2Types'
    <2> DEFINE next == [pc |-> "answered", time |-> sweep.time,
                        elevation |-> sweep.elevation, scan |-> sweep.scan,
                        status |-> "ListingProducts", lacking |-> sweep.lacking]
    <2>1. sweep' = next
      BY <1>2
    <2> QED  BY <1>1, <1>3, <2>1 DEF SettleInv, Level2Types
  <1>5. SweepIsWanted'
    BY <1>1, <1>2 DEF SettleInv, SweepIsWanted
  <1>6. SweepIsAwaited'
    BY <1>2, <1>3 DEF SweepIsAwaited, TimesCome
  <1> QED  BY <1>4, <1>5, <1>6 DEF SettleInv

LEMMA RecordsSettle == SettleInv /\ AskRecords => SettleInv'
  <1> SUFFICES ASSUME SettleInv, AskRecords PROVE SettleInv'
    OBVIOUS
  <1>1. sweep.pc = "archive" /\ UNCHANGED <<wanted, pending, populating, records, emitted>>
    BY DEF AskRecords
  <1> DEFINE lacking == Asked(sweep.time) \ held
  <1>2. PICK scan, result :
           /\ sweep' = [sweep EXCEPT !.pc = "answered", !.scan = scan, !.status = result,
                                     !.lacking = lacking]
           /\ result \in {"ProductNotAvailable", "ProductLoaded", "LoadingProduct"}
    BY DEF AskRecords
  <1>3. reloading' = [v \in Volumes |-> IF v \in lacking THEN reloading[v] + 1
                                       ELSE reloading[v]]
    BY DEF AskRecords
  <1>4. lacking \subseteq Volumes
    BY DEF Asked, Bounding, Begun, SettleInv, Level2Types
  <1>5. \A v \in lacking : reloading'[v] > 0
    BY <1>3, <1>4 DEF SettleInv, Level2Types
  <1> HIDE DEF lacking
  <1>6. sweep' = [pc |-> "answered", time |-> sweep.time, elevation |-> sweep.elevation,
                  scan |-> scan, status |-> result, lacking |-> lacking]
    BY <1>2 DEF SettleInv, Level2Types
  <1>7. reloading' \in [Volumes -> Nat]
    BY <1>3 DEF SettleInv, Level2Types
  <1>8. Level2Types'
    BY <1>1, <1>4, <1>6, <1>7 DEF SettleInv, Level2Types
  <1>9. SweepIsWanted'
    BY <1>1, <1>6 DEF SettleInv, SweepIsWanted
  <1>10. SweepIsAwaited'
    BY <1>2, <1>5, <1>6 DEF SweepIsAwaited, VolumeComes
  <1> QED  BY <1>8, <1>9, <1>10 DEF SettleInv

LEMMA FinishSettles == SettleInv /\ FinishSweep => SettleInv'
  <1> SUFFICES ASSUME SettleInv, FinishSweep PROVE SettleInv'
    OBVIOUS
  <1>1. /\ sweep.pc = "answered" /\ sweep' = [sweep EXCEPT !.pc = "idle"]
        /\ UNCHANGED <<wanted, pending, populating, records, reloading, emitted, barren>>
    BY DEF FinishSweep, fetched
  <1>2. sweep' = [pc |-> "idle", time |-> sweep.time, elevation |-> sweep.elevation,
                  scan |-> sweep.scan, status |-> sweep.status, lacking |-> sweep.lacking]
    BY <1>1 DEF SettleInv, Level2Types
  <1>3. Level2Types'
    BY <1>1, <1>2 DEF SettleInv, Level2Types
  <1>4. SweepIsWanted'
    BY <1>1, <1>2 DEF SettleInv, SweepIsWanted
  <1>5. SweepIsAwaited'
    BY <1>1, <1>2 DEF SettleInv, SweepIsAwaited, TimesCome, VolumeComes, EmittedFor
  <1> QED  BY <1>3, <1>4, <1>5 DEF SettleInv

(* The pools and the environment.                                           *)
LEMMA PopulateSettles ==
    ASSUME SettleInv, NEW time \in Queries, NEW succeeds \in BOOLEAN,
           PopulateLevel2ProductTimes(time, succeeds)
    PROVE  SettleInv'
  <1>1. /\ populating[time] > 0
        /\ populating' = [populating EXCEPT ![time] = @ - 1]
        /\ emitted' = Append(emitted, TimesPopulated(time))
        /\ UNCHANGED viewing /\ UNCHANGED <<reloading, barren>>
    BY DEF PopulateLevel2ProductTimes
  <1>2. /\ emitted' \in Seq(Emissions) /\ EmittedFor(TimesPopulated(time))'
        /\ \A s : EmittedFor(s) => EmittedFor(s)'
    BY <1>1, EmittedAdded DEF SettleInv, Emissions
  <1>3. records' \subseteq Volumes
    BY Level2Assumption DEF PopulateLevel2ProductTimes, SettleInv, Level2Types
  <1>4. populating' \in [Queries -> Nat]
    BY <1>1 DEF SettleInv, Level2Types
  <1>5. Level2Types'
    BY <1>1, <1>2, <1>3, <1>4 DEF SettleInv, Level2Types, viewing
  <1>6. ASSUME NEW t \in Queries, TimesCome(t)
        PROVE  TimesCome(t)'
    <2>1. CASE t = time
      BY <1>2, <2>1 DEF TimesCome, EmittedFor, TimesPopulated
    <2>2. CASE t # time
      <3>1. populating'[t] = populating[t]
        BY <1>1, <2>2 DEF SettleInv, Level2Types
      <3>2. EmittedFor(TimesPopulated(t)) => EmittedFor(TimesPopulated(t))'
        BY <1>2
      <3> QED  BY <1>6, <3>1, <3>2 DEF TimesCome, EmittedFor, TimesPopulated
    <2> QED  BY <2>1, <2>2
  <1>7. \A v \in Volumes : VolumeComes(v) => VolumeComes(v)'
    <2>1. EmittedFor(Reloaded) => EmittedFor(Reloaded)'
      BY <1>2
    <2> QED  BY <1>1, <2>1 DEF VolumeComes, EmittedFor, Reloaded
  <1> QED  BY <1>1, <1>5, <1>6, <1>7, BesideSweep

LEMMA LoadSettles ==
    ASSUME SettleInv, NEW v \in Volumes, LoadLevel2Data(v)
    PROVE  SettleInv'
  <1>1. /\ reloading[v] > 0 /\ reloading' = [reloading EXCEPT ![v] = @ - 1]
        /\ emitted' = Append(emitted, Reloaded)
        /\ UNCHANGED viewing /\ UNCHANGED <<populating, records>>
    BY DEF LoadLevel2Data
  <1>2. /\ emitted' \in Seq(Emissions) /\ EmittedFor(Reloaded)'
        /\ \A s : EmittedFor(s) => EmittedFor(s)'
    BY <1>1, EmittedAdded DEF SettleInv, Emissions
  <1>3. reloading' \in [Volumes -> Nat]
    BY <1>1 DEF SettleInv, Level2Types
  <1>4. Level2Types'
    BY <1>1, <1>2, <1>3 DEF SettleInv, Level2Types, viewing
  <1>5. \A t \in Queries : TimesCome(t) => TimesCome(t)'
    <2>1. \A t \in Queries : EmittedFor(TimesPopulated(t)) => EmittedFor(TimesPopulated(t))'
      BY <1>2
    <2> QED  BY <1>1, <2>1 DEF TimesCome, EmittedFor, TimesPopulated
  <1>6. \A w \in Volumes : VolumeComes(w)'
    BY <1>2 DEF VolumeComes, EmittedFor, Reloaded
  <1> QED  BY <1>1, <1>4, <1>5, <1>6, BesideSweep

LEMMA FailSettles ==
    ASSUME SettleInv, NEW v \in Volumes, LoadLevel2Fails(v)
    PROVE  SettleInv'
  <1>1. /\ reloading[v] > 0 /\ reloading' = [reloading EXCEPT ![v] = @ - 1]
        /\ barren' = barren \cup {v}
        /\ UNCHANGED viewing /\ UNCHANGED <<populating, records, emitted>>
    BY DEF LoadLevel2Fails
  <1>2. reloading' \in [Volumes -> Nat]
    BY <1>1 DEF SettleInv, Level2Types
  <1>3. Level2Types'
    BY <1>1, <1>2 DEF SettleInv, Level2Types, viewing
  <1>4. \A t \in Queries : TimesCome(t) => TimesCome(t)'
    BY <1>1 DEF TimesCome, EmittedFor
  <1>5. ASSUME NEW w \in Volumes, VolumeComes(w)
        PROVE  VolumeComes(w)'
    <2>1. CASE w = v
      BY <1>1, <2>1 DEF VolumeComes
    <2>2. CASE w # v
      BY <1>1, <1>5, <2>2 DEF VolumeComes, EmittedFor, SettleInv, Level2Types
    <2> QED  BY <2>1, <2>2
  <1> QED  BY <1>1, <1>3, <1>4, <1>5, BesideSweep

LEMMA OtherReloadSettles ==
    ASSUME SettleInv, NEW v \in Volumes, OtherViewReloads(v)
    PROVE  SettleInv'
  <1>1. /\ reloading' = [reloading EXCEPT ![v] = @ + 1]
        /\ barren' = barren \ {v}
        /\ UNCHANGED viewing /\ UNCHANGED <<populating, records, emitted>>
    BY DEF OtherViewReloads
  <1>2. /\ reloading' \in [Volumes -> Nat] /\ reloading'[v] > 0
        /\ \A w \in Volumes : reloading[w] > 0 => reloading'[w] > 0
    BY <1>1 DEF SettleInv, Level2Types
  <1>3. Level2Types'
    BY <1>1, <1>2 DEF SettleInv, Level2Types, viewing
  <1>4. \A t \in Queries : TimesCome(t) => TimesCome(t)'
    BY <1>1 DEF TimesCome, EmittedFor
  <1>5. \A w \in Volumes : VolumeComes(w) => VolumeComes(w)'
    BY <1>1, <1>2 DEF VolumeComes, EmittedFor
  <1> QED  BY <1>1, <1>3, <1>4, <1>5, BesideSweep

(* What the caches and the chunks provider do.                              *)
LEMMA StoresSettle ==
    ASSUME SettleInv,
           \/ \E v \in Volumes : VolumeExpires(v) \/ VolumeArchived(v) \/ NextVolume(v)
           \/ \E which \in {"current", "last"} : ChunksLoaded(which)
    PROVE  SettleInv'
  <1>1. UNCHANGED viewing /\ UNCHANGED <<populating, reloading, emitted, barren>>
    BY DEF VolumeExpires, VolumeArchived, NextVolume, ChunksLoaded, fetched
  <1>2. records \subseteq Volumes => records' \subseteq Volumes
    BY DEF VolumeExpires, VolumeArchived, NextVolume, ChunksLoaded, fetched
  <1>3. Level2Types'
    BY <1>1, <1>2 DEF SettleInv, Level2Types, viewing
  <1>4. \A t \in Queries : TimesCome(t) => TimesCome(t)'
    BY <1>1 DEF TimesCome, EmittedFor
  <1>5. \A w \in Volumes : VolumeComes(w) => VolumeComes(w)'
    BY <1>1 DEF VolumeComes, EmittedFor
  <1> QED  BY <1>1, <1>3, <1>4, <1>5, BesideSweep

LEMMA StepSettles == SettleInv /\ [Level2Next]_level2Vars => SettleInv'
  <1>1. SettleInv /\ UNCHANGED level2Vars => SettleInv'
    BY DEF level2Vars, SettleInv, Level2Types, SweepIsWanted, SweepIsAwaited, TimesCome,
           VolumeComes, EmittedFor
  <1>2. SettleInv /\ SweepStep => SettleInv'
    BY BeginSettles, ChunksSettle, ListSettles, RecordsSettle, FinishSettles
    DEF SweepStep
  <1> QED
    BY <1>1, <1>2, SelectSettles, EmissionSettles, PopulateSettles, LoadSettles,
       FailSettles, OtherReloadSettles, StoresSettle
    DEF Level2Next

(* What a Level 2 view at rest shows answers the time and the elevation      *)
(* that are selected, and what the answer left out is going to be told, but  *)
(* for records that could not be loaded.                                    *)
THEOREM Level2Settled == Level2Spec => []Level2Settles
  <1>1. SettleInv => Level2Settles
    BY DEF SettleInv, SweepIsWanted, SweepIsAwaited, TimesCome, VolumeComes,
           Level2Settles, Level2AnswersSelection, Level2WaitingIsAwaited, Level2AtRest
  <1> QED  BY <1>1, SettleInit, StepSettles, PTL DEF Level2Spec

----------------------------------------------------------------------------
(* What is found in files.                                                  *)

LEMMA LatestScan ==
    ASSUME NEW S \in SUBSET Scans, IsFiniteSet(S), S # {}
    PROVE  LatestOf(S) \in S /\ \A o \in S : o.time <= LatestOf(S).time
  <1> DEFINE f == [s \in S |-> s.time]
  <1>1. f \in [S -> Nat]
    BY DEF Scans
  <1>2. PICK m \in S : \A k \in S : f[k] <= f[m]
    <2> HIDE DEF f
    <2> QED  BY <1>1, GreatestOfFinite
  <1> QED  BY <1>2 DEF LatestOf

LEMMA EarliestScan ==
    ASSUME NEW S \in SUBSET Scans, S # {}
    PROVE  EarliestOf(S) \in S /\ \A o \in S : EarliestOf(S).time <= o.time
  <1> DEFINE f == [s \in S |-> s.time]
  <1>1. f \in [S -> Nat]
    BY DEF Scans
  <1>2. PICK m \in S : \A k \in S : f[m] <= f[k]
    <2> HIDE DEF f
    <2> QED  BY <1>1, LeastOf
  <1> QED  BY <1>2 DEF EarliestOf

(* There is a closest cut: the least of twice the distance, and one more    *)
(* below.                                                                   *)
LEMMA CutExists ==
    ASSUME NEW file \in SUBSET Scans, file # {}, NEW elevation \in Nat
    PROVE  \E s \in file : s.cut = ClosestCut(file, elevation)
  <1> DEFINE f == [s \in file |-> 2 * Distance(s.cut, elevation)
                                    + IF s.cut < elevation THEN 1 ELSE 0]
             cuts == {s.cut : s \in file}
  <1>1. f \in [file -> Nat]
    BY DEF Scans, Distance
  <1>2. PICK m \in file : \A k \in file : f[m] <= f[k]
    <2> HIDE DEF f
    <2> QED  BY <1>1, LeastOf
  <1>3. ASSUME NEW k \in file
        PROVE  \/ Distance(m.cut, elevation) < Distance(k.cut, elevation)
               \/ /\ Distance(m.cut, elevation) = Distance(k.cut, elevation)
                  /\ m.cut >= k.cut
    <2>1. m.cut \in Nat /\ k.cut \in Nat /\ f[m] <= f[k]
      BY <1>2 DEF Scans
    <2> QED  BY <2>1 DEF Distance
  <1>4. /\ m.cut \in cuts
        /\ \A d \in cuts : \/ Distance(m.cut, elevation) < Distance(d, elevation)
                           \/ /\ Distance(m.cut, elevation) = Distance(d, elevation)
                              /\ m.cut >= d
    BY <1>3
  <1>5. ClosestCut(file, elevation) \in cuts
    <2> HIDE DEF cuts
    <2>1. cuts = {s.cut : s \in file}
      BY DEF cuts
    <2> QED  BY <1>4, <2>1 DEF ClosestCut
  <1> QED  BY <1>5

(* The scan of a file is of the closest cut, and as new as any of that cut  *)
(* that is not newer than the time.                                         *)
LEMMA ElevationScan ==
    ASSUME NEW file \in SUBSET Scans, IsFiniteSet(file), file # {},
           NEW elevation \in Nat, NEW time
    PROVE  LET scan == GetElevationScan(file, elevation, time)
           IN  /\ scan \in CutOf(file, elevation) /\ scan \in file
               /\ \A s \in NotNewer(CutOf(file, elevation), time) :
                     s.time <= scan.time /\ scan \in NotNewer({scan}, time)
  <1> DEFINE scans == CutOf(file, elevation)
             right == NotNewer(scans, time)
  <1>1. scans # {} /\ scans \in SUBSET file /\ IsFiniteSet(scans)
    <2>1. scans # {} /\ scans \in SUBSET file
      BY CutExists DEF CutOf
    <2> QED  BY <2>1, FS_Subset
  <1>2. right \in SUBSET scans /\ IsFiniteSet(right)
    <2>1. right \in SUBSET scans
      BY DEF NotNewer
    <2> QED  BY <1>1, <2>1, FS_Subset
  <1> HIDE DEF scans
  <1>3. CASE right # {}
    <2>1. GetElevationScan(file, elevation, time) = LatestOf(right)
      BY <1>3 DEF GetElevationScan, scans
    <2>2. LatestOf(right) \in right /\ \A o \in right : o.time <= LatestOf(right).time
      <3>1. right \in SUBSET Scans
        BY <1>1, <1>2
      <3> HIDE DEF right
      <3> QED  BY <1>2, <1>3, <3>1, LatestScan
    <2>3. LatestOf(right) \in NotNewer({LatestOf(right)}, time)
      BY <2>2 DEF NotNewer
    <2> QED  BY <1>1, <1>2, <2>1, <2>2, <2>3 DEF scans
  <1>4. CASE right = {}
    <2>1. GetElevationScan(file, elevation, time) = EarliestOf(scans)
      BY <1>4 DEF GetElevationScan, scans
    <2>2. EarliestOf(scans) \in scans
      <3>1. scans \in SUBSET Scans
        BY <1>1
      <3> QED  BY <1>1, <3>1, EarliestScan
    <2> QED  BY <1>1, <1>4, <2>1, <2>2 DEF scans
  <1> QED  BY <1>3, <1>4

LEMMA ElevationScanType ==
    ASSUME NEW file \in SUBSET Scans, IsFiniteSet(file),
           NEW elevation \in Nat, NEW time
    PROVE  GetElevationScan(file, elevation, time) \in Scans
  <1>1. CASE file = {}
    BY <1>1 DEF GetElevationScan, NoScan, Scans, Epoch
  <1>2. CASE file # {}
    BY <1>2, ElevationScan
  <1> QED  BY <1>1, <1>2

LEMMA VolumeScans ==
    ASSUME NEW v \in Volumes
    PROVE  /\ v \in Nat /\ v # Epoch
           /\ ScansOf[v] \in SUBSET Scans /\ IsFiniteSet(ScansOf[v]) /\ ScansOf[v] # {}
           /\ \A s \in ScansOf[v] : v <= s.time
           /\ \A w \in Volumes : v < w => \A s \in ScansOf[v] : s.time < w
  BY Level2Assumption, VolumesFollow DEF Scans

----------------------------------------------------------------------------
(* The newest scan of the records that are asked.                           *)

LEMMA QueriesAreTimes == Queries \subseteq Nat
  <1>1. VolumeTimes \subseteq Nat
    BY Level2Assumption
  <1> QED  BY <1>1 DEF Queries, Epoch

(* A scan that is not newer than the time.                                  *)
Right(scan, time) == time = Epoch \/ scan.time <= time

LEMMA NewerScan ==
    ASSUME NEW time \in Queries, NEW elevation \in Nat, NEW v \in Volumes,
           NEW found \in Scans, found = NoScan \/ Right(found, time)
    PROVE  LET scan   == GetElevationScan(ScansOf[v], elevation, time)
               newest == NewerOf(found, v, elevation, time)
           IN  /\ newest \in {found, scan} /\ newest \in Scans
               /\ found # NoScan => Right(newest, time) /\ found.time <= newest.time
               /\ Right(scan, time) => Right(newest, time) /\ scan.time <= newest.time
  <1> DEFINE scan == GetElevationScan(ScansOf[v], elevation, time)
  <1>1. scan \in Scans
    BY VolumeScans, ElevationScanType
  <1>2. scan.time \in Nat /\ found.time \in Nat /\ time \in Nat
    BY <1>1, QueriesAreTimes DEF Scans
  <1>3. scan \in NotNewer({scan}, time) <=> Right(scan, time)
    BY DEF NotNewer, Right
  <1>4. NewerOf(found, v, elevation, time) =
            IF found = NoScan \/ (Right(scan, time) /\ found.time < scan.time)
            THEN scan ELSE found
    BY <1>3 DEF NewerOf
  <1>5. NoScan.time = 0
    BY DEF NoScan, Epoch
  <1> HIDE DEF scan
  <1>6. CASE found = NoScan
    BY <1>1, <1>2, <1>4, <1>6 DEF scan
  <1>7. CASE found # NoScan /\ Right(scan, time) /\ found.time < scan.time
    BY <1>1, <1>2, <1>4, <1>7 DEF scan
  <1>8. CASE found # NoScan /\ ~(Right(scan, time) /\ found.time < scan.time)
    <2>1. NewerOf(found, v, elevation, time) = found
      BY <1>4, <1>8
    <2>2. Right(found, time)
      BY <1>8
    <2> QED  BY <1>2, <1>8, <2>1, <2>2 DEF scan
  <1> QED  BY <1>6, <1>7, <1>8

(* The greatest of some records.                                            *)
LEMMA LastVolume ==
    ASSUME NEW S \in SUBSET Volumes, S # {}
    PROVE  \E m \in S : {v \in S : \A o \in S : o <= v} = {m} /\ \A o \in S : o <= m
  <1> DEFINE f == [v \in S |-> v]
  <1>1. f \in [S -> Nat] /\ IsFiniteSet(S)
    BY FS_Subset, VolumesFollow, Level2Assumption
  <1>2. PICK m \in S : \A k \in S : f[k] <= f[m]
    <2> HIDE DEF f
    <2> QED  BY <1>1, GreatestOfFinite
  <1>3. \A k \in S : k \in Nat /\ k <= m
    BY <1>2, Level2Assumption
  <1>4. \A v \in S : (\A o \in S : o <= v) => v = m
    BY <1>3
  <1> QED  BY <1>3, <1>4

LEMMA NewestOfOne ==
    ASSUME NEW found, NEW b \in Nat, NEW elevation, NEW time
    PROVE  Newest(found, {b}, elevation, time) = NewerOf(found, b, elevation, time)
  <1>1. {v \in {b} : \A o \in {b} : o <= v} = {b} /\ {b} \ {b} = {}
    OBVIOUS
  <1>2. (CHOOSE v \in {b} : TRUE) = b
    OBVIOUS
  <1> QED  BY <1>1, <1>2 DEF Newest

LEMMA NewestOfTwo ==
    ASSUME NEW found, NEW p \in Nat, NEW b \in Nat, p < b, NEW elevation, NEW time
    PROVE  Newest(found, {p, b}, elevation, time) =
              NewerOf(NewerOf(found, p, elevation, time), b, elevation, time)
  <1>1. {v \in {p, b} : \A o \in {p, b} : o <= v} = {b} /\ {p, b} \ {b} = {p}
    OBVIOUS
  <1>2. (CHOOSE v \in {b} : TRUE) = b /\ (CHOOSE v \in {p} : TRUE) = p
    OBVIOUS
  <1>3. {b} # {} /\ {p} # {}
    OBVIOUS
  <1> QED  BY <1>1, <1>2, <1>3 DEF Newest

LEMMA NewestType ==
    ASSUME NEW found \in Scans, NEW volumes \in SUBSET Volumes, NEW elevation \in Nat,
           NEW time
    PROVE  Newest(found, volumes, elevation, time) \in Scans
  <1> DEFINE Over(newest, some) ==
                IF some = {} THEN newest
                ELSE NewerOf(newest, CHOOSE v \in some : TRUE, elevation, time)
             last == {v \in volumes : \A o \in volumes : o <= v}
  <1>1. ASSUME NEW newest \in Scans, NEW some \in SUBSET Volumes
        PROVE  Over(newest, some) \in Scans
    <2>1. CASE some # {}
      <3>1. PICK v \in some : v = CHOOSE x \in some : TRUE
        BY <2>1
      <3>2. GetElevationScan(ScansOf[v], elevation, time) \in Scans
        BY VolumeScans, ElevationScanType
      <3>3. NewerOf(newest, v, elevation, time) \in Scans
        BY <3>2 DEF NewerOf
      <3> QED  BY <2>1, <3>1, <3>3
    <2> QED  BY <2>1
  <1>2. last \in SUBSET Volumes /\ volumes \ last \in SUBSET Volumes
    OBVIOUS
  <1>3. Newest(found, volumes, elevation, time) = Over(Over(found, volumes \ last), last)
    BY DEF Newest
  <1> HIDE DEF Over, last
  <1> QED  BY <1>1, <1>2, <1>3

(* Two records are enough.  If the scan of the bounding record is not newer *)
(* than the time, it is as new as any: the scans of a volume come before    *)
(* the next volume.  Otherwise that of the record before is.                *)
LEMMA NewestOfAsked ==
    ASSUME records \subseteq Volumes, NEW time \in Queries, NEW elevation \in Nat,
           NEW found \in Scans, found = NoScan \/ Right(found, time),
           NEW s \in ArchivedScans(time, elevation)
    PROVE  LET scan == Newest(found, Asked(time), elevation, time)
           IN  s.time <= scan.time /\ Right(scan, time)
  <1> DEFINE Found(v) == GetElevationScan(ScansOf[v], elevation, time)
             Newer(v) == NewerOf(found, v, elevation, time)
  <1>1. time \in Nat /\ Reach \in Nat /\ Clock \in Nat /\ \A v \in records : v \in Nat
    <2>1. Reach \in Nat /\ Clock \in Nat /\ Volumes \subseteq Nat
      BY Level2Assumption
    <2> QED  BY <2>1, QueriesAreTimes
  <1>2. PICK w \in records :
           Within(w, time) /\ s \in NotNewer(CutOf(ScansOf[w], elevation), time)
    BY DEF ArchivedScans
  <1>3. s \in ScansOf[w] /\ w <= s.time /\ s.time \in Nat /\ s.time # 0 /\ Right(s, time)
    <2>1. s \in ScansOf[w] /\ Right(s, time)
      BY <1>2 DEF NotNewer, CutOf, Right
    <2>2. w \in Volumes
      BY <1>2
    <2>3. w <= s.time /\ s \in Scans /\ w # 0 /\ w \in Nat
      BY <2>1, <2>2, VolumeScans DEF Epoch
    <2> QED  BY <2>1, <2>3 DEF Scans
  <1>4. w \in Begun(time)
    BY <1>1, <1>3 DEF Begun, Right
  <1>5. PICK b \in Begun(time) : Bounding(time) = {b} /\ \A o \in Begun(time) : o <= b
    <2>1. Begun(time) \in SUBSET Volumes /\ Begun(time) # {} /\ records # {}
      BY <1>4 DEF Begun
    <2>2. Bounding(time) = {v \in Begun(time) : \A o \in Begun(time) : o <= v}
      BY <2>1 DEF Bounding
    <2>3. PICK m \in Begun(time) : /\ {v \in Begun(time) : \A o \in Begun(time) : o <= v} = {m}
                                  /\ \A o \in Begun(time) : o <= m
      BY <2>1, LastVolume
    <2>4. Bounding(time) = {m}
      BY <2>2, <2>3, Zenon
    <2> QED  BY <2>3, <2>4, Zenon
  <1>6. /\ b \in records /\ b \in Volumes /\ b \in Nat /\ w <= b
        /\ time # Epoch => b <= time
    BY <1>1, <1>4, <1>5 DEF Begun
  <1>7. Within(b, time)
    <2>1. w \in Nat /\ b \in Nat /\ w <= b /\ Within(w, time)
      BY <1>1, <1>2, <1>6
    <2>2. CASE time = Epoch
      BY <1>1, <2>1, <2>2 DEF Within
    <2>3. CASE time # Epoch
      BY <1>1, <1>6, <2>1, <2>3 DEF Within, Distance
    <2> QED  BY <2>2, <2>3
  <1> DEFINE before == {v \in records : v < b}
  <1>8. Asked(time) = {v \in {b} \cup {p \in before : time # Epoch /\ \A o \in before : o <= p} :
                          Within(v, time)}
    BY <1>5 DEF Asked
  <1>9. ASSUME NEW v \in records, w <= v
        PROVE  \/ w = v /\ Right(Found(v), time) /\ s.time <= Found(v).time
               \/ w < v /\ s.time < Found(v).time /\ s.time < v
    <2>1. Found(v) \in ScansOf[v] /\ Found(v).time \in Nat /\ v <= Found(v).time
      <3>1. Found(v) \in ScansOf[v]
        BY VolumeScans, ElevationScan
      <3> QED  BY <3>1, VolumeScans DEF Scans
    <2>2. CASE w = v
      <3>1. s.time <= Found(v).time /\ Found(v) \in NotNewer({Found(v)}, time)
        BY <1>2, <2>2, VolumeScans, ElevationScan
      <3> QED  BY <2>2, <3>1 DEF NotNewer, Right
    <2>3. CASE w < v
      <3>1. s.time < v
        BY <1>2, <1>3, <2>3, VolumeScans
      <3> QED  BY <1>1, <1>3, <2>1, <2>3, <3>1
    <2> QED  BY <1>1, <1>9, <2>2, <2>3
  <1> HIDE DEF Found, Newer
  (* The bounding record's scan decides, if it is not newer, whatever was    *)
  (* found before.                                                          *)
  <1>10. ASSUME NEW newest \in Scans, newest = NoScan \/ Right(newest, time),
                Right(Found(b), time)
         PROVE  LET scan == NewerOf(newest, b, elevation, time)
                IN  s.time <= scan.time /\ Right(scan, time)
    <2> DEFINE scan == NewerOf(newest, b, elevation, time)
    <2>1. scan \in Scans /\ Right(scan, time) /\ Found(b).time <= scan.time
      BY <1>6, <1>10, NewerScan DEF Found
    <2>2. s.time <= Found(b).time /\ Found(b) \in Scans
      <3>1. s.time <= Found(b).time
        <4>1. Found(b) \in Scans
          BY <1>6, VolumeScans, ElevationScanType DEF Found
        <4>2. Found(b).time \in Nat
          BY <4>1 DEF Scans
        <4> QED  BY <1>3, <1>6, <1>9, <4>2
      <3> QED  BY <1>6, <3>1, VolumeScans, ElevationScanType DEF Found
    <2>3. scan.time \in Nat /\ Found(b).time \in Nat
      BY <2>1, <2>2 DEF Scans
    <2> QED  BY <1>3, <2>1, <2>2, <2>3
  <1>11. CASE Asked(time) = {b}
    <2>1. Newest(found, Asked(time), elevation, time) = NewerOf(found, b, elevation, time)
      BY <1>6, <1>11, NewestOfOne
    <2>2. Right(Found(b), time)
      <3>1. CASE w = b
        BY <1>6, <1>9, <3>1
      <3>2. CASE time = Epoch
        BY <3>2 DEF Right
      <3>3. CASE w < b /\ time # Epoch
        <4>1. before \in SUBSET Volumes /\ w \in before
          BY <1>2, <3>3
        <4>2. PICK p \in before : \A o \in before : o <= p
          BY <4>1, LastVolume
        <4>3. p \in records /\ p < b /\ w <= p
          BY <4>1, <4>2
        <4>4. Within(p, time)
          BY <1>1, <1>2, <1>6, <3>3, <4>3 DEF Within, Distance
        <4>5. p \in Asked(time)
          BY <1>8, <3>3, <4>2, <4>4
        <4> QED  BY <1>1, <1>11, <4>3, <4>5
      <3> QED  BY <1>1, <1>6, <3>1, <3>2, <3>3
    <2> QED  BY <1>10, <2>1, <2>2
  <1>12. CASE Asked(time) # {b}
    <2>1. time # Epoch /\ before # {}
      BY <1>7, <1>8, <1>12
    <2>2. before \in SUBSET Volumes
      OBVIOUS
    <2>3. PICK p \in before : {v \in before : \A o \in before : o <= v} = {p}
                                /\ \A o \in before : o <= p
      BY <2>1, <2>2, LastVolume
    <2>4. Asked(time) = {p, b} /\ p \in records /\ p < b
      BY <1>7, <1>8, <1>12, <2>1, <2>3
    <2> DEFINE newest == NewerOf(found, p, elevation, time)
    <2>5. Newest(found, Asked(time), elevation, time) = NewerOf(newest, b, elevation, time)
      BY <1>1, <1>6, <2>4, NewestOfTwo
    <2>6. Found(p) \in Scans /\ Right(Found(p), time)
      <3>1. Found(p) \in ScansOf[p] /\ Found(p) \in Scans
        BY <2>4, VolumeScans, ElevationScan DEF Found
      <3>2. Found(p).time < b /\ Found(p).time \in Nat
        BY <1>6, <2>4, <3>1, VolumeScans DEF Scans
      <3> QED  BY <1>1, <1>6, <2>1, <3>1, <3>2 DEF Right
    <2>7. /\ newest \in Scans /\ Right(newest, time)
          /\ Found(p).time <= newest.time
      BY <2>4, <2>6, NewerScan DEF Found
    <2>8. CASE Right(Found(b), time)
      BY <1>10, <2>5, <2>7, <2>8
    <2>9. CASE ~Right(Found(b), time)
      <3>1. w # b
        BY <1>6, <1>9, <2>9
      <3>2. w \in before /\ w <= p
        BY <1>1, <1>6, <2>3, <3>1
      <3>3. s.time <= Found(p).time /\ Found(p).time \in Nat /\ newest.time \in Nat
        <4>1. Found(p).time \in Nat /\ newest.time \in Nat
          BY <2>6, <2>7 DEF Scans
        <4> QED  BY <1>3, <1>9, <2>4, <3>2, <4>1
      <3>4. newest # NoScan /\ s.time <= newest.time
        BY <1>3, <2>7, <3>3 DEF NoScan, Epoch
      <3> DEFINE scan == NewerOf(newest, b, elevation, time)
      <3>5. scan \in Scans /\ Right(scan, time) /\ newest.time <= scan.time
        <4> HIDE DEF newest
        <4> QED  BY <1>6, <2>7, <3>4, NewerScan
      <3>6. scan.time \in Nat
        BY <3>5 DEF Scans
      <3> QED  BY <1>3, <2>5, <3>3, <3>4, <3>5, <3>6
    <2> QED  BY <2>8, <2>9
  <1> QED  BY <1>11, <1>12

----------------------------------------------------------------------------
(* What the view and the manager keep has its types: a chunk file has scans *)
(* of its volume, and a load is of a record.                                *)
ScansLoaded(file) ==
    file.scans \subseteq IF file.volume = Epoch THEN {} ELSE ScansOf[file.volume]

ChunksOfVolumes == \A which \in {"current", "last"} : ScansLoaded(chunkFiles[which])

ReloadsAreOfRecords == \A v \in Volumes : reloading[v] > 0 => v \in records

KeptInv == Level2TypeOK /\ ChunksOfVolumes /\ ReloadsAreOfRecords

LEMMA ChunkFileScans ==
    ASSUME KeptInv, NEW which \in {"current", "last"}
    PROVE  /\ chunkFiles[which].scans \in SUBSET Scans
           /\ IsFiniteSet(chunkFiles[which].scans)
           /\ chunkFiles[which].volume \in Volumes \cup {Epoch}
           /\ chunkFiles[which] = [volume |-> chunkFiles[which].volume,
                                   scans |-> chunkFiles[which].scans]
  <1>1. chunkFiles[which] \in ChunkFileTypes /\ ScansLoaded(chunkFiles[which])
    BY DEF KeptInv, Level2TypeOK, ChunksOfVolumes
  <1> DEFINE file == chunkFiles[which]
  <1>2. /\ file.scans \in SUBSET Scans /\ file.volume \in Volumes \cup {Epoch}
        /\ file = [volume |-> file.volume, scans |-> file.scans]
    BY <1>1 DEF ChunkFileTypes
  <1>3. CASE file.volume = Epoch
    <2>1. file.scans = {}
      BY <1>1, <1>3 DEF ScansLoaded
    <2> QED  BY <1>2, <2>1, FS_EmptySet
  <1>4. CASE file.volume # Epoch
    <2>1. file.volume \in Volumes /\ file.scans \in SUBSET ScansOf[file.volume]
      BY <1>1, <1>2, <1>4 DEF ScansLoaded
    <2>2. IsFiniteSet(file.scans)
      <3> HIDE DEF file
      <3> QED  BY <2>1, VolumeScans, FS_Subset
    <2> QED  BY <1>2, <2>2
  <1> QED  BY <1>3, <1>4

LEMMA LoadedChunks ==
    ASSUME KeptInv, NEW time
    PROVE  LoadChunksByTime(time) \in SUBSET Scans /\ IsFiniteSet(LoadChunksByTime(time))
  <1> DEFINE current == chunkFiles.current.scans
             last == chunkFiles.last.scans
  <1>1. /\ current \in SUBSET Scans /\ IsFiniteSet(current)
        /\ last \in SUBSET Scans /\ IsFiniteSet(last)
    <2>1. "current" \in {"current", "last"} /\ "last" \in {"current", "last"}
      OBVIOUS
    <2>2. chunkFiles["current"].scans \in SUBSET Scans /\ IsFiniteSet(chunkFiles["current"].scans)
      BY <2>1, ChunkFileScans
    <2>3. chunkFiles["last"].scans \in SUBSET Scans /\ IsFiniteSet(chunkFiles["last"].scans)
      BY <2>1, ChunkFileScans
    <2> QED  BY <2>2, <2>3
  <1>2. Merged(current, last) \in SUBSET (current \cup last)
    BY DEF Merged
  <1>3. IsFiniteSet(Merged(current, last))
    <2>1. IsFiniteSet(current \cup last)
      <3> HIDE DEF current, last
      <3> QED  BY <1>1, FS_Union
    <2> HIDE DEF current, last
    <2> QED  BY <1>2, <2>1, FS_Subset
  <1>4. LoadChunksByTime(time) \in {Merged(current, last), last, {}}
    BY DEF LoadChunksByTime
  <1> HIDE DEF current, last
  <1> QED  BY <1>1, <1>2, <1>3, <1>4, FS_EmptySet

LEMMA SweepParts ==
    ASSUME Level2TypeOK
    PROVE  /\ sweep = [pc |-> sweep.pc, time |-> sweep.time, elevation |-> sweep.elevation,
                       scan |-> sweep.scan, status |-> sweep.status,
                       lacking |-> sweep.lacking]
           /\ sweep.pc \in {"idle", "begun", "archive", "answered"}
           /\ sweep.time \in Queries /\ sweep.elevation \in Elevations
           /\ sweep.scan \in Scans /\ sweep.status \in LoadStatuses
           /\ sweep.lacking \in SUBSET Volumes
           /\ wanted = [time |-> wanted.time, elevation |-> wanted.elevation]
           /\ wanted.time \in Queries /\ wanted.elevation \in Elevations
  BY DEF Level2TypeOK, Sweeps, Selections

LEMMA SweepAsked ==
    ASSUME Level2TypeOK, NEW elevation, NEW scan, NEW asked,
           asked = [sweep EXCEPT !.elevation = elevation, !.scan = scan]
    PROVE  asked = [pc |-> sweep.pc, time |-> sweep.time, elevation |-> elevation,
                    scan |-> scan, status |-> sweep.status, lacking |-> sweep.lacking]
  BY SweepParts

LEMMA KeptInit == Level2Init => KeptInv
  <1> SUFFICES ASSUME Level2Init PROVE KeptInv
    OBVIOUS
  <1>1. sweep \in Sweeps
    <2>1. NoScan \in Scans
      BY DEF NoScan, Scans, Epoch
    <2>2. wanted.time \in Queries /\ wanted.elevation \in Elevations
      BY DEF Level2Init, Selections
    <2> QED  BY <2>1, <2>2 DEF Level2Init, Sweeps, LoadStatuses
  <1>2. chunkFiles \in [{"current", "last"} -> ChunkFileTypes]
    BY DEF Level2Init, NoFile, ChunkFileTypes
  <1>3. Level2TypeOK
    <2>1. populating \in [Queries -> Nat] /\ reloading \in [Volumes -> Nat]
      BY DEF Level2Init
    <2>2. emitted \in Seq(Emissions)
      BY DEF Level2Init
    <2> QED  BY <1>1, <1>2, <2>1, <2>2 DEF Level2Init, Level2TypeOK
  <1>4. ChunksOfVolumes
    BY DEF Level2Init, ChunksOfVolumes, ScansLoaded, NoFile
  <1> QED  BY <1>3, <1>4 DEF KeptInv, ReloadsAreOfRecords, Level2Init

LEMMA SelectionKept ==
    ASSUME KeptInv, NEW selection \in Selections, Select(selection)
    PROVE  KeptInv'
  <1>1. Level2TypeOK'
    BY DEF Select, KeptInv, Level2TypeOK, fetched
  <1> QED  BY <1>1 DEF Select, KeptInv, ChunksOfVolumes, ReloadsAreOfRecords, fetched

LEMMA GuiKept ==
    ASSUME KeptInv,
           \/ \E time \in Queries : SelectVolumeTime(time)
           \/ \E elevation \in Elevations : SelectElevation(elevation)
           \/ HandleEmitted
    PROVE  KeptInv'
  <1>1. Level2TypeOK
    BY DEF KeptInv
  <1>2. ASSUME NEW time \in Queries, SelectVolumeTime(time) PROVE KeptInv'
    <2>1. [wanted EXCEPT !.time = time] \in Selections
      BY <1>1 DEF Level2TypeOK, Selections
    <2> QED  BY <1>2, <2>1, SelectionKept DEF SelectVolumeTime
  <1>3. ASSUME NEW elevation \in Elevations, SelectElevation(elevation) PROVE KeptInv'
    <2>1. [wanted EXCEPT !.elevation = elevation] \in Selections
      BY <1>1 DEF Level2TypeOK, Selections
    <2> QED  BY <1>3, <2>1, SelectionKept DEF SelectElevation
  <1>4. CASE HandleEmitted
    <2>1. emitted' \in Seq(Emissions) /\ pending' \in Nat
      BY <1>1, <1>4 DEF HandleEmitted, Level2TypeOK
    <2>2. Level2TypeOK'
      BY <1>1, <1>4, <2>1 DEF HandleEmitted, Level2TypeOK, fetched
    <2> QED
      BY <1>4, <2>2 DEF HandleEmitted, KeptInv, ChunksOfVolumes, ReloadsAreOfRecords, fetched
  <1> QED  BY <1>2, <1>3, <1>4

LEMMA SweepKept == KeptInv /\ SweepStep => KeptInv'
  <1> SUFFICES ASSUME KeptInv, SweepStep PROVE KeptInv'
    OBVIOUS
  <1>1. Level2TypeOK
    BY DEF KeptInv
  <1>2. NoScan \in Scans
    BY DEF NoScan, Scans, Epoch
  <1> DEFINE Next(pc, time, elevation, scan, answer, lacking) ==
                 sweep' = [pc |-> pc, time |-> time, elevation |-> elevation,
                           scan |-> scan, status |-> answer, lacking |-> lacking]
  <1>3. CASE BeginSweep
    <2>1. Next("begun", wanted.time, sweep.elevation, NoScan, "ProductNotLoaded", {})
      BY <1>1, <1>3, SweepParts DEF BeginSweep
    <2>2. sweep' \in Sweeps /\ pending' \in Nat
      <3>1. sweep' \in Sweeps
        BY <1>1, <1>2, <2>1, SweepParts DEF Sweeps, LoadStatuses
      <3> QED  BY <1>1, <1>3, <3>1 DEF BeginSweep, Level2TypeOK
    <2>3. Level2TypeOK'
      BY <1>1, <1>3, <2>2 DEF BeginSweep, Level2TypeOK, fetched
    <2> QED
      BY <1>3, <2>3 DEF BeginSweep, KeptInv, ChunksOfVolumes, ReloadsAreOfRecords, fetched
  <1>4. CASE AskChunks
    <2>1. PICK scan \in Scans : \E pc \in {"answered", "archive"}, answer \in LoadStatuses :
             Next(pc, sweep.time, wanted.elevation, scan, answer, sweep.lacking)
      <3> DEFINE scan == GetElevationScan(LoadChunksByTime(sweep.time), wanted.elevation,
                                          sweep.time)
                 asked == [sweep EXCEPT !.elevation = wanted.elevation, !.scan = scan]
      <3>1. scan \in Scans
        <4>1. wanted.elevation \in Nat
          BY <1>1, SweepParts, Level2Assumption
        <4> QED  BY <4>1, LoadedChunks, ElevationScanType
      <3>2. asked = [pc |-> sweep.pc, time |-> sweep.time, elevation |-> wanted.elevation,
                     scan |-> scan, status |-> sweep.status, lacking |-> sweep.lacking]
        BY <1>1, SweepAsked
      <3>3. sweep' \in {[asked EXCEPT !.pc = "answered", !.status = "ProductLoaded"],
                        [asked EXCEPT !.pc = "archive"]}
        BY <1>4 DEF AskChunks
      <3> HIDE DEF scan
      <3>4. sweep' = [asked EXCEPT !.pc = "answered", !.status = "ProductLoaded"] =>
               Next("answered", sweep.time, wanted.elevation, scan, "ProductLoaded", sweep.lacking)
        BY <3>2
      <3>5. sweep' = [asked EXCEPT !.pc = "archive"] =>
               Next("archive", sweep.time, wanted.elevation, scan, sweep.status, sweep.lacking)
        BY <3>2
      <3>6. "ProductLoaded" \in LoadStatuses /\ sweep.status \in LoadStatuses
        BY <1>1, SweepParts DEF LoadStatuses
      <3> QED  BY <3>1, <3>3, <3>4, <3>5, <3>6
    <2>2. sweep' \in Sweeps
      BY <1>1, <2>1, SweepParts DEF Sweeps
    <2>3. Level2TypeOK'
      BY <1>1, <1>4, <2>2 DEF AskChunks, Level2TypeOK, fetched
    <2> QED
      BY <1>4, <2>3 DEF AskChunks, KeptInv, ChunksOfVolumes, ReloadsAreOfRecords, fetched
  <1>5. CASE ListVolumes
    <2>1. Next("answered", sweep.time, sweep.elevation, sweep.scan, "ListingProducts",
               sweep.lacking)
      BY <1>1, <1>5, SweepParts DEF ListVolumes
    <2>2. sweep' \in Sweeps
      BY <1>1, <2>1, SweepParts DEF Sweeps, LoadStatuses
    <2>3. populating' \in [Queries -> Nat]
      BY <1>1, <1>5, SweepParts DEF ListVolumes, Level2TypeOK
    <2>4. Level2TypeOK'
      BY <1>1, <1>5, <2>2, <2>3 DEF ListVolumes, Level2TypeOK
    <2> QED
      BY <1>5, <2>4 DEF ListVolumes, KeptInv, ChunksOfVolumes, ReloadsAreOfRecords
  <1>6. CASE AskRecords
    <2> DEFINE asked   == Asked(sweep.time)
               lacking == asked \ held
               scan    == Newest(sweep.scan, asked \cap held, sweep.elevation, sweep.time)
    <2>1. asked \in SUBSET records /\ lacking \in SUBSET Volumes
      <3>1. Bounding(sweep.time) \in SUBSET records
        BY DEF Bounding, Begun
      <3> QED  BY <1>1, <3>1 DEF Asked, Level2TypeOK
    <2>2. PICK answer \in LoadStatuses :
             Next("answered", sweep.time, sweep.elevation, scan, answer, lacking)
      <3>1. PICK answer \in LoadStatuses :
               sweep' = [sweep EXCEPT !.pc = "answered", !.scan = scan,
                                      !.status = answer, !.lacking = lacking]
        <4> DEFINE answer == IF asked = {} \/ (lacking = {} /\ scan = NoScan)
                             THEN "ProductNotAvailable"
                             ELSE IF lacking = {} THEN "ProductLoaded" ELSE "LoadingProduct"
        <4>1. sweep' = [sweep EXCEPT !.pc = "answered", !.scan = scan,
                                     !.status = answer, !.lacking = lacking]
          BY <1>6 DEF AskRecords
        <4>2. answer \in LoadStatuses
          BY DEF LoadStatuses
        <4> QED  BY <4>1, <4>2
      <3> HIDE DEF scan, lacking
      <3> QED  BY <1>1, <3>1, SweepParts
    <2>3. scan \in Scans
      <3>1. asked \cap held \in SUBSET Volumes
        BY <1>1, <2>1 DEF Level2TypeOK
      <3>2. /\ sweep.scan \in Scans /\ sweep.elevation \in Nat
        BY <1>1, SweepParts, Level2Assumption
      <3> QED  BY <3>1, <3>2, NewestType
    <2>4. sweep' \in Sweeps
      <3> HIDE DEF scan, lacking
      <3> QED  BY <1>1, <2>1, <2>2, <2>3, SweepParts DEF Sweeps
    <2>5. /\ reloading' = [v \in Volumes |-> IF v \in lacking THEN reloading[v] + 1
                                             ELSE reloading[v]]
          /\ barren' = barren \ lacking
      BY <1>6 DEF AskRecords
    <2>6. reloading' \in [Volumes -> Nat] /\ ReloadsAreOfRecords'
      <3>1. lacking \in SUBSET records /\ records' = records
        BY <1>6, <2>1 DEF AskRecords
      <3> HIDE DEF lacking
      <3>2. \A v \in Volumes : reloading[v] \in Nat /\ (reloading[v] > 0 => v \in records)
        BY <1>1 DEF Level2TypeOK, KeptInv, ReloadsAreOfRecords
      <3> QED  BY <2>5, <3>1, <3>2 DEF ReloadsAreOfRecords
    <2>7. Level2TypeOK'
      <3>1. barren' \in SUBSET Volumes
        BY <1>1, <2>5 DEF Level2TypeOK
      <3> QED  BY <1>1, <1>6, <2>4, <2>6, <3>1 DEF AskRecords, Level2TypeOK
    <2> QED  BY <1>6, <2>6, <2>7 DEF AskRecords, KeptInv, ChunksOfVolumes
  <1>7. CASE FinishSweep
    <2>1. Next("idle", sweep.time, sweep.elevation, sweep.scan, sweep.status, sweep.lacking)
      BY <1>1, <1>7, SweepParts DEF FinishSweep
    <2>2. sweep' \in Sweeps
      BY <1>1, <2>1, SweepParts DEF Sweeps
    <2>3. Level2TypeOK'
      BY <1>1, <1>7, <2>2 DEF FinishSweep, Level2TypeOK, fetched
    <2> QED
      BY <1>7, <2>3 DEF FinishSweep, KeptInv, ChunksOfVolumes, ReloadsAreOfRecords, fetched
  <1> QED  BY <1>3, <1>4, <1>5, <1>6, <1>7 DEF SweepStep

LEMMA PoolKept ==
    ASSUME KeptInv,
           \/ \E time \in Queries, succeeds \in BOOLEAN :
                 PopulateLevel2ProductTimes(time, succeeds)
           \/ \E v \in Volumes : LoadLevel2Data(v) \/ LoadLevel2Fails(v)
    PROVE  KeptInv'
  <1>1. Level2TypeOK
    BY DEF KeptInv
  <1>2. ASSUME NEW time \in Queries, NEW succeeds \in BOOLEAN,
               PopulateLevel2ProductTimes(time, succeeds)
        PROVE  KeptInv'
    <2>1. records \subseteq records' /\ records' \subseteq Volumes
      BY <1>1, <1>2, Level2Assumption DEF PopulateLevel2ProductTimes, Level2TypeOK
    <2>2. populating' \in [Queries -> Nat] /\ populated' \in BOOLEAN
      BY <1>1, <1>2 DEF PopulateLevel2ProductTimes, Level2TypeOK
    <2>3. emitted' \in Seq(Emissions)
      <3>1. TimesPopulated(time) \in Emissions
        BY DEF Emissions
      <3> QED  BY <1>1, <1>2, <3>1 DEF PopulateLevel2ProductTimes, Level2TypeOK
    <2>4. Level2TypeOK'
      BY <1>1, <1>2, <2>1, <2>2, <2>3
      DEF PopulateLevel2ProductTimes, Level2TypeOK, viewing
    <2> QED
      BY <1>2, <2>1, <2>4
      DEF PopulateLevel2ProductTimes, KeptInv, ChunksOfVolumes, ReloadsAreOfRecords
  <1>3. ASSUME NEW v \in Volumes, LoadLevel2Data(v) PROVE KeptInv'
    <2>1. v \in records
      BY <1>3 DEF LoadLevel2Data, KeptInv, ReloadsAreOfRecords
    <2>2. reloading' \in [Volumes -> Nat] /\ ReloadsAreOfRecords'
      BY <1>1, <1>3 DEF LoadLevel2Data, Level2TypeOK, KeptInv, ReloadsAreOfRecords
    <2>3. emitted' \in Seq(Emissions)
      <3>1. Reloaded \in Emissions
        BY DEF Emissions
      <3> QED  BY <1>1, <1>3, <3>1 DEF LoadLevel2Data, Level2TypeOK
    <2>4. Level2TypeOK'
      BY <1>1, <1>3, <2>1, <2>2, <2>3 DEF LoadLevel2Data, Level2TypeOK, viewing
    <2> QED  BY <1>3, <2>2, <2>4 DEF LoadLevel2Data, KeptInv, ChunksOfVolumes
  <1>4. ASSUME NEW v \in Volumes, LoadLevel2Fails(v) PROVE KeptInv'
    <2>1. reloading' \in [Volumes -> Nat] /\ ReloadsAreOfRecords'
      BY <1>1, <1>4 DEF LoadLevel2Fails, Level2TypeOK, KeptInv, ReloadsAreOfRecords
    <2>2. Level2TypeOK'
      BY <1>1, <1>4, <2>1 DEF LoadLevel2Fails, Level2TypeOK, viewing
    <2> QED  BY <1>4, <2>1, <2>2 DEF LoadLevel2Fails, KeptInv, ChunksOfVolumes
  <1> QED  BY <1>2, <1>3, <1>4

LEMMA RecordsKept ==
    ASSUME KeptInv, NEW v \in Volumes,
           OtherViewReloads(v) \/ VolumeExpires(v) \/ VolumeArchived(v)
    PROVE  KeptInv'
  <1>1. Level2TypeOK
    BY DEF KeptInv
  <1>2. CASE OtherViewReloads(v)
    <2>1. reloading' \in [Volumes -> Nat] /\ ReloadsAreOfRecords'
      BY <1>1, <1>2 DEF OtherViewReloads, Level2TypeOK, KeptInv, ReloadsAreOfRecords
    <2>2. Level2TypeOK'
      BY <1>1, <1>2, <2>1 DEF OtherViewReloads, Level2TypeOK, viewing
    <2> QED  BY <1>2, <2>1, <2>2 DEF OtherViewReloads, KeptInv, ChunksOfVolumes
  <1>3. CASE VolumeExpires(v)
    <2>1. Level2TypeOK'
      BY <1>1, <1>3 DEF VolumeExpires, Level2TypeOK, viewing
    <2> QED
      BY <1>3, <2>1 DEF VolumeExpires, KeptInv, ChunksOfVolumes, ReloadsAreOfRecords
  <1>4. CASE VolumeArchived(v)
    <2>1. Level2TypeOK'
      BY <1>1, <1>4 DEF VolumeArchived, Level2TypeOK, viewing
    <2> QED
      BY <1>4, <2>1 DEF VolumeArchived, KeptInv, ChunksOfVolumes, ReloadsAreOfRecords
  <1> QED  BY <1>2, <1>3, <1>4

LEMMA ChunksKept ==
    ASSUME KeptInv,
           \/ \E which \in {"current", "last"} : ChunksLoaded(which)
           \/ \E v \in Volumes : NextVolume(v)
    PROVE  KeptInv'
  <1>1. Level2TypeOK
    BY DEF KeptInv
  <1>2. SUFFICES /\ UNCHANGED <<viewing, fetched, emitted, barren>>
                 /\ chunkFiles' \in [{"current", "last"} -> ChunkFileTypes]
                 /\ \A which \in {"current", "last"} : ScansLoaded(chunkFiles'[which])
    <2> SUFFICES ASSUME UNCHANGED <<viewing, fetched, emitted, barren>>,
                        chunkFiles' \in [{"current", "last"} -> ChunkFileTypes],
                        \A which \in {"current", "last"} : ScansLoaded(chunkFiles'[which])
                 PROVE  KeptInv'
      OBVIOUS
    <2>1. Level2TypeOK'
      BY <1>1 DEF Level2TypeOK, viewing, fetched
    <2>2. ReloadsAreOfRecords'
      BY DEF KeptInv, ReloadsAreOfRecords, fetched
    <2>3. ChunksOfVolumes'
      BY DEF ChunksOfVolumes, ScansLoaded
    <2> QED  BY <2>1, <2>2, <2>3 DEF KeptInv
  <1>3. \A which \in {"current", "last"} :
           chunkFiles[which] \in ChunkFileTypes /\ ScansLoaded(chunkFiles[which])
    BY <1>1 DEF Level2TypeOK, KeptInv, ChunksOfVolumes
  <1>4. chunkFiles = [which \in {"current", "last"} |-> chunkFiles[which]]
    BY <1>1 DEF Level2TypeOK
  <1>5. ASSUME NEW which \in {"current", "last"}, ChunksLoaded(which)
        PROVE  /\ UNCHANGED <<viewing, fetched, emitted, barren>>
               /\ chunkFiles' \in [{"current", "last"} -> ChunkFileTypes]
               /\ \A w \in {"current", "last"} : ScansLoaded(chunkFiles'[w])
    <2> DEFINE file == chunkFiles[which]
               rest == IF file.volume = Epoch THEN {} ELSE ScansOf[file.volume] \ file.scans
    <2>1. /\ rest # {}
          /\ chunkFiles' = [chunkFiles EXCEPT ![which].scans = @ \cup {EarliestOf(rest)}]
      BY <1>5 DEF ChunksLoaded
    <2>2. file.volume \in Volumes /\ rest = ScansOf[file.volume] \ file.scans
      BY <2>1, ChunkFileScans
    <2>3. EarliestOf(rest) \in ScansOf[file.volume] /\ ScansOf[file.volume] \in SUBSET Scans
      <3>1. rest \in SUBSET Scans /\ ScansOf[file.volume] \in SUBSET Scans
        BY <2>2, VolumeScans
      <3>2. EarliestOf(rest) \in rest
        <4> HIDE DEF rest
        <4> QED  BY <2>1, <3>1, EarliestScan
      <3> QED  BY <2>2, <3>1, <3>2
    <2>4. PICK scan \in Scans : scan = EarliestOf(rest) /\ scan \in ScansOf[file.volume]
      BY <2>3
    <2>5. PICK new : new = [volume |-> file.volume, scans |-> file.scans \cup {scan}]
      OBVIOUS
    <2>6. chunkFiles' = [chunkFiles EXCEPT ![which] = new]
      <3>1. PICK volume, scans : chunkFiles[which] = [volume |-> volume, scans |-> scans]
        BY ChunkFileScans
      <3>2. PICK part : part = [chunkFiles[which] EXCEPT !.scans = @ \cup {scan}]
        OBVIOUS
      <3>3. part = new
        <4>1. part = [volume |-> volume, scans |-> scans \cup {scan}]
          BY <3>1, <3>2
        <4>2. file.volume = volume /\ file.scans = scans
          BY <3>1
        <4> QED  BY <2>5, <4>1, <4>2
      <3>4. chunkFiles' = [chunkFiles EXCEPT ![which] = part]
        BY <2>1, <2>4, <3>2
      <3> QED  BY <3>3, <3>4
    <2>7. new \in ChunkFileTypes /\ ScansLoaded(new)
      <3>1. file.scans \in SUBSET Scans /\ file.scans \subseteq ScansOf[file.volume]
        BY <1>3, <2>2, ChunkFileScans, Level2Assumption DEF ScansLoaded
      <3>2. new.volume = file.volume /\ new.scans = file.scans \cup {scan}
        BY <2>5
      <3>3. new \in ChunkFileTypes
        BY <2>2, <2>5, <3>1 DEF ChunkFileTypes
      <3>4. file.volume # Epoch
        BY <2>2, Level2Assumption
      <3> QED  BY <2>4, <3>1, <3>2, <3>3, <3>4 DEF ScansLoaded
    <2> HIDE DEF file, rest
    <2>8. chunkFiles' \in [{"current", "last"} -> ChunkFileTypes]
      BY <1>1, <2>6, <2>7 DEF Level2TypeOK
    <2>9. \A w \in {"current", "last"} : ScansLoaded(chunkFiles'[w])
      BY <1>3, <1>4, <2>6, <2>7
    <2> QED  BY <1>5, <2>8, <2>9 DEF ChunksLoaded
  <1>6. ASSUME NEW v \in Volumes, NextVolume(v)
        PROVE  /\ UNCHANGED <<viewing, fetched, emitted, barren>>
               /\ chunkFiles' \in [{"current", "last"} -> ChunkFileTypes]
               /\ \A w \in {"current", "last"} : ScansLoaded(chunkFiles'[w])
    <2> DEFINE before == {o \in Volumes : o < v}
               last   == IF before = {} THEN Epoch
                         ELSE CHOOSE o \in before : \A p \in before : p <= o
               gone   == IF chunkFiles.current.volume = last THEN chunkFiles.current
                         ELSE [volume |-> last, scans |-> {}]
    <2>1. last \in Volumes \cup {Epoch}
      <3>1. CASE before # {}
        <4>1. before \in SUBSET Volumes
          OBVIOUS
        <4>2. \E o \in before : \A p \in before : p <= o
          <5> HIDE DEF before
          <5> QED  BY <3>1, <4>1, LastVolume
        <4> QED  BY <3>1, <4>2
      <3> QED  BY <3>1
    <2>2. chunkFiles' = [current |-> [volume |-> v, scans |-> {}], last |-> gone]
      BY <1>6 DEF NextVolume
    <2>3. gone \in ChunkFileTypes /\ ScansLoaded(gone)
      <3>1. [volume |-> last, scans |-> {}] \in ChunkFileTypes
        BY <2>1 DEF ChunkFileTypes
      <3>2. ScansLoaded([volume |-> last, scans |-> {}])
        BY DEF ScansLoaded
      <3> QED  BY <1>3, <3>1, <3>2
    <2>4. [volume |-> v, scans |-> {}] \in ChunkFileTypes
      BY DEF ChunkFileTypes
    <2>5. ScansLoaded([volume |-> v, scans |-> {}])
      BY DEF ScansLoaded
    <2> HIDE DEF gone, last, before
    <2>6. chunkFiles' \in [{"current", "last"} -> ChunkFileTypes]
      BY <2>2, <2>3, <2>4
    <2>7. chunkFiles'["current"] = [volume |-> v, scans |-> {}] /\ chunkFiles'["last"] = gone
      BY <2>2
    <2> QED  BY <1>6, <2>3, <2>5, <2>6, <2>7 DEF NextVolume
  <1> QED  BY <1>5, <1>6

LEMMA StepKept == KeptInv /\ [Level2Next]_level2Vars => KeptInv'
  <1> SUFFICES ASSUME KeptInv, [Level2Next]_level2Vars PROVE KeptInv'
    OBVIOUS
  <1>1. CASE UNCHANGED level2Vars
    BY <1>1 DEF KeptInv, Level2TypeOK, ChunksOfVolumes, ReloadsAreOfRecords, level2Vars
  <1>2. CASE Level2Next
    BY <1>2, GuiKept, SweepKept, PoolKept, RecordsKept, ChunksKept DEF Level2Next
  <1> QED  BY <1>1, <1>2

(* A Level 2 view and what it asks for keep their types: what is found in   *)
(* any chunks and records is a scan, and what is loaded again is a record   *)
(* that is known.                                                           *)
THEOREM Level2TypesHold == Level2Spec => []Level2TypeOK
  <1>1. KeptInv => Level2TypeOK
    BY DEF KeptInv
  <1> QED  BY <1>1, KeptInit, StepKept, PTL DEF Level2Spec

----------------------------------------------------------------------------
(* A scan of the chunks with which the archive is asked is too old to be    *)
(* the answer, so it is not newer than the time.                            *)
SearchInv ==
    /\ sweep.pc \in {"begun", "archive"} => sweep.status = "ProductNotLoaded"
    /\ sweep.pc = "archive" => sweep.scan = NoScan \/ Right(sweep.scan, sweep.time)

LEMMA SearchStep == KeptInv /\ SearchInv /\ [Level2Next]_level2Vars => SearchInv'
  <1> SUFFICES ASSUME KeptInv, SearchInv, [Level2Next]_level2Vars PROVE SearchInv'
    OBVIOUS
  <1>1. Level2TypeOK
    BY DEF KeptInv
  <1>2. CASE UNCHANGED sweep
    BY <1>2 DEF SearchInv, Right
  <1>3. CASE BeginSweep
    <2>1. sweep'.pc = "begun" /\ sweep'.status = "ProductNotLoaded"
      BY <1>1, <1>3, SweepParts DEF BeginSweep
    <2> QED  BY <2>1 DEF SearchInv
  <1>4. CASE AskChunks
    <2> DEFINE scan == GetElevationScan(LoadChunksByTime(sweep.time), wanted.elevation,
                                        sweep.time)
               asOf == IF sweep.time = Epoch THEN Clock ELSE sweep.time
    <2>1. PICK asked : asked = [sweep EXCEPT !.elevation = wanted.elevation, !.scan = scan]
      OBVIOUS
    <2>2. asked = [pc |-> sweep.pc, time |-> sweep.time, elevation |-> wanted.elevation,
                   scan |-> scan, status |-> sweep.status, lacking |-> sweep.lacking]
      BY <1>1, <2>1, SweepAsked
    <2>3. sweep' = IF scan # NoScan /\ scan.time >= asOf - MaxChunkDelay
                   THEN [asked EXCEPT !.pc = "answered", !.status = "ProductLoaded"]
                   ELSE [asked EXCEPT !.pc = "archive"]
      BY <1>4, <2>1 DEF AskChunks
    <2>4. scan \in Scans /\ scan.time \in Nat
      <3>1. wanted.elevation \in Nat
        BY <1>1, SweepParts, Level2Assumption
      <3>2. scan \in Scans
        BY <3>1, LoadedChunks, ElevationScanType
      <3> QED  BY <3>2 DEF Scans
    <2>5. sweep.pc = "begun" /\ sweep.status = "ProductNotLoaded"
      BY <1>4 DEF AskChunks, SearchInv
    <2> HIDE DEF scan
    <2>6. CASE scan # NoScan /\ scan.time >= asOf - MaxChunkDelay
      <3>1. sweep'.pc = "answered"
        BY <2>2, <2>3, <2>6
      <3> QED  BY <3>1 DEF SearchInv
    <2>7. CASE ~(scan # NoScan /\ scan.time >= asOf - MaxChunkDelay)
      <3>1. /\ sweep'.pc = "archive" /\ sweep'.status = "ProductNotLoaded"
            /\ sweep'.scan = scan /\ sweep'.time = sweep.time
        BY <2>2, <2>3, <2>5, <2>7
      <3>2. scan = NoScan \/ Right(scan, sweep.time)
        <4>1. sweep.time \in Nat /\ MaxChunkDelay \in Nat
          BY <1>1, SweepParts, Level2Assumption DEF Queries, Epoch
        <4> QED  BY <2>4, <2>7, <4>1 DEF Right
      <3> QED  BY <3>1, <3>2 DEF SearchInv, Right
    <2> QED  BY <2>6, <2>7
  <1>5. CASE ListVolumes
    <2>1. sweep'.pc = "answered"
      BY <1>1, <1>5, SweepParts DEF ListVolumes
    <2> QED  BY <2>1 DEF SearchInv
  <1>6. CASE AskRecords
    <2>1. sweep'.pc = "answered"
      BY <1>1, <1>6, SweepParts DEF AskRecords
    <2> QED  BY <2>1 DEF SearchInv
  <1>7. CASE FinishSweep
    <2>1. sweep'.pc = "idle"
      BY <1>1, <1>7, SweepParts DEF FinishSweep
    <2> QED  BY <2>1 DEF SearchInv
  <1>8. \/ UNCHANGED sweep \/ BeginSweep \/ AskChunks \/ ListVolumes \/ AskRecords
        \/ FinishSweep
    BY DEF Level2Next, SelectVolumeTime, SelectElevation, Select, HandleEmitted, SweepStep,
           PopulateLevel2ProductTimes, LoadLevel2Data, LoadLevel2Fails, OtherViewReloads,
           VolumeExpires, VolumeArchived, NextVolume, ChunksLoaded, level2Vars, viewing
  <1> QED  BY <1>2, <1>3, <1>4, <1>5, <1>6, <1>7, <1>8

LEMMA ShownIsNewest ==
    ASSUME KeptInv, SearchInv, [Level2Next]_level2Vars,
           sweep.pc = "archive", sweep'.status = "ProductLoaded",
           NEW s \in ArchivedScans(sweep.time, sweep.elevation)
    PROVE  /\ s.time <= sweep'.scan.time
           /\ sweep'.scan \in NotNewer({sweep'.scan}, sweep.time)
  <1>1. Level2TypeOK
    BY DEF KeptInv
  <1>2. sweep.status = "ProductNotLoaded"
    BY DEF SearchInv
  <1>3. ListVolumes \/ AskRecords
    <2>1. \/ UNCHANGED sweep \/ BeginSweep \/ AskChunks \/ ListVolumes \/ AskRecords
          \/ FinishSweep
      BY DEF Level2Next, SelectVolumeTime, SelectElevation, Select, HandleEmitted, SweepStep,
             PopulateLevel2ProductTimes, LoadLevel2Data, LoadLevel2Fails, OtherViewReloads,
             VolumeExpires, VolumeArchived, NextVolume, ChunksLoaded, level2Vars, viewing
    <2> QED  BY <1>2, <2>1 DEF BeginSweep, AskChunks, FinishSweep
  <1>4. ~ListVolumes
    <2> SUFFICES ASSUME ListVolumes PROVE FALSE
      OBVIOUS
    <2>1. sweep'.status = "ListingProducts"
      BY <1>1, SweepParts DEF ListVolumes
    <2> QED  BY <2>1
  <1> DEFINE asked   == Asked(sweep.time)
             lacking == asked \ held
             scan    == Newest(sweep.scan, asked \cap held, sweep.elevation, sweep.time)
             answer  == IF asked = {} \/ (lacking = {} /\ scan = NoScan)
                        THEN "ProductNotAvailable"
                        ELSE IF lacking = {} THEN "ProductLoaded" ELSE "LoadingProduct"
  <1>5. sweep' = [sweep EXCEPT !.pc = "answered", !.scan = scan,
                               !.status = answer, !.lacking = lacking]
    BY <1>3, <1>4 DEF AskRecords
  <1>6. sweep'.scan = scan /\ sweep'.status = answer
    <2> HIDE DEF scan, answer, lacking
    <2> QED  BY <1>1, <1>5, SweepParts
  <1>7. asked \cap held = asked
    <2>1. lacking = {}
      <3> HIDE DEF lacking, asked, scan
      <3> QED  BY <1>6
    <2> QED  BY <2>1
  <1>8. s.time <= scan.time /\ Right(scan, sweep.time)
    <2>1. /\ sweep.time \in Queries /\ sweep.elevation \in Nat /\ sweep.scan \in Scans
          /\ records \subseteq Volumes
      BY <1>1, SweepParts, Level2Assumption DEF Level2TypeOK
    <2>2. sweep.scan = NoScan \/ Right(sweep.scan, sweep.time)
      BY DEF SearchInv
    <2>3. scan = Newest(sweep.scan, asked, sweep.elevation, sweep.time)
      <3> HIDE DEF asked
      <3> QED  BY <1>7
    <2> HIDE DEF scan
    <2> QED  BY <2>1, <2>2, <2>3, NewestOfAsked
  <1> HIDE DEF scan
  <1> QED  BY <1>6, <1>8 DEF NotNewer, Right

(* What the archive answers with nothing left to load is the newest scan of *)
(* all its volumes that is not newer than the time: two records are enough, *)
(* and what the chunks contributed does not hide it.                        *)
THEOREM NewestIsShown == Level2Spec => Level2ShowsNewest
  <1>1. Level2Init => SearchInv
    BY DEF Level2Init, SearchInv
  <1>2. KeptInv /\ SearchInv /\ [Level2Next]_level2Vars =>
           [sweep.pc = "archive" /\ sweep'.status = "ProductLoaded" =>
              \A s \in ArchivedScans(sweep.time, sweep.elevation) :
                  /\ s.time <= sweep'.scan.time
                  /\ sweep'.scan \in NotNewer({sweep'.scan}, sweep.time)]_level2Vars
    BY ShownIsNewest
  <1> QED
    BY <1>1, <1>2, KeptInit, StepKept, SearchStep, PTL DEF Level2Spec, Level2ShowsNewest

----------------------------------------------------------------------------
(* The composition that is checked: one of the three moves.                 *)

(* Side by side all do what they do alone, so what is proved of each of     *)
(* them holds in the composition.                                           *)
LEMMA MapsRun == MCSpec => MapSpec /\ Level2Spec /\ AlertSpec
  <1>1. MCInit => MapInit /\ Level2Init /\ AlertInit
    BY DEF MCInit
  <1>2. [MCNext]_<<chosen, mapVars, level2Vars, alertVars>>
           => [MapNext]_mapVars /\ [Level2Next]_level2Vars /\ [AlertNext]_alertVars
    BY DEF MCNext, MapMoves, Level2Moves, TextMoves
  <1> QED  BY <1>1, <1>2, PTL DEF MCSpec, MapSpec, Level2Spec, AlertSpec

(* The map, the view and the text events with their layers keep their types. *)
THEOREM MapsTypes == MCSpec => []MapsTypeOK
  <1>1. MapTypeOK /\ Level2TypeOK /\ AlertTypeOK => MapsTypeOK
    BY DEF MapsTypeOK
  <1> QED  BY <1>1, MapsRun, MapTypes, Level2TypesHold, AlertTypes, PTL
=============================================================================
