------------------------------- MODULE MapWidget -------------------------------
(***************************************************************************)
(* MapWidget: which radar site and product a map shows, through which view, *)
(* and what it asks its radar product managers to refresh.                  *)
(*                                                                          *)
(* The GUI thread runs every handler, one step each: the user's selections, *)
(* and the signals of the managers, which are queued for it.  A signal that *)
(* is queued is delivered even after the map has disconnected from its      *)
(* sender and turned to another site.  The managers list the Level 3        *)
(* products of their sites, and load files for the map, in their own pools. *)
(* One map is modelled, in the company of others.  Times, elevations, the   *)
(* overlay product view and drawing are left out; EnableRefresh is a        *)
(* request here, whose execution is RadarRefresh.                           *)
(***************************************************************************)
EXTENDS Lists, FiniteSets, Functions

CONSTANTS
    Sites,          \* radar sites
    NoSite,         \* no radar site is selected
    Categories,     \* Level 3 categories
    Catalogue,      \* category -> its products, in order
    TiltsOf,        \* Level 3 product -> its tilts (AWIPS identifiers), in order
    Offers,         \* the sets of tilts that a site may turn out to have
    MaxUnderWay     \* bound: signals queued and loads under way

ASSUME MapAssumption == NoSite \notin Sites /\ MaxUnderWay \in Nat

Level2  == "Level2"   \* the Level 2 product, of one kind
Unknown == "?"        \* no product group has been selected
None    == "none"     \* no view, no request to refresh

Level3Products == UNION {Range(Catalogue[c]) : c \in Categories}
Tilts == UNION {Range(TiltsOf[p]) : p \in Level3Products}
Products == {Level2} \cup Tilts

(* Categories list products and products list tilts, of which sites offer   *)
(* some; no tilt is named like what is no tilt.                             *)
ASSUME CatalogueAssumption ==
    /\ \A c \in Categories : Catalogue[c] \in Seq(Level3Products)
    /\ \A p \in Level3Products : TiltsOf[p] \in Seq(Tilts)
    /\ Offers \subseteq SUBSET Tilts
    /\ Tilts \cap {Level2, Unknown, None} = {}

VARIABLES
    map,       \* the members of the map
    listing,   \* site -> how far its manager is with UpdateAvailableProducts
    available, \* site -> availableCategoryMap_, as the set of its tilts
    events,    \* signals queued for the map, oldest first
    fileLoads, \* the file requests that will select what they load
    crashed    \* radarProductManager_ was used though there is none

mapVars == <<map, listing, available, events, fileLoads, crashed>>

NoView == [product |-> None, site |-> NoSite]

Maps == [
    site        : Sites \cup {NoSite},        \* radarProductManager_
    product     : Products \cup {Unknown},    \* the context's group and product
    view        : {NoView} \cup [product : Products, site : Sites],
    tilt        : Nat \ {0},                  \* currentTiltIndex_, from one
    known       : SUBSET Tilts,               \* tiltsToIndices_, filled from these
    needed      : BOOLEAN,                    \* productAvailabilityCheckNeeded_
    updated     : BOOLEAN,                    \* productAvailabilityUpdated_
    selected    : BOOLEAN,                    \* productAvailabilityProductSelected_
    autoRefresh : BOOLEAN,
    refreshed   : [Sites -> Products \cup {None}]]  \* what was asked under its UUID

Events == {[kind |-> "Level3ProductsChanged"]}
            \cup [kind : {"NewDataAvailable"}, product : Products, chunks : BOOLEAN]
            \cup [kind : {"RequestComplete"}, site : Sites, product : Products,
                  record : BOOLEAN]

MapTypeOK ==
    /\ map \in Maps
    /\ listing \in [Sites -> {"none", "posted", "stored", "ready"}]
    /\ available \in [Sites -> SUBSET Tilts]
    /\ events \in Seq(Events)
    /\ fileLoads \subseteq [site : Sites, product : Products]
    /\ crashed \in BOOLEAN

MapInit ==
    /\ map = [site |-> NoSite, product |-> Unknown, view |-> NoView, tilt |-> 1,
              known |-> {}, needed |-> FALSE, updated |-> FALSE, selected |-> FALSE,
              autoRefresh |-> TRUE,
              refreshed |-> [s \in Sites |-> None]]
    /\ listing = [s \in Sites |-> "none"]
    /\ available = [s \in Sites |-> {}]
    /\ events = <<>>
    /\ fileLoads = {}
    /\ crashed = FALSE

----------------------------------------------------------------------------
(* The catalogue of Level 3 products.  Indices of tilts count from one.     *)

ProductOf(tilt) == CHOOSE p \in Level3Products : tilt \in Range(TiltsOf[p])
CategoryOf(product) == CHOOSE c \in Categories : product \in Range(Catalogue[c])

(* The tilts of a product that a site has, in the catalogue's order.        *)
AvailableTilts(product, tilts) == Keeping(TiltsOf[product], tilts)

AvailableProducts(category, tilts) ==
    Keeping(Catalogue[category], {p \in Level3Products : Range(TiltsOf[p]) \cap tilts # {}})

IndexOf(tilt, seq) == CHOOSE i \in DOMAIN seq : seq[i] = tilt

(* A tilt that is not known has the first index.                            *)
TiltIndex(tilt, known) ==
    IF tilt \in known THEN IndexOf(tilt, AvailableTilts(ProductOf(tilt), known)) ELSE 1

(* Level 2 products have no code of their own, tilts that of their product. *)
SameView(p, q) ==
    \/ p = q
    \/ p \in Tilts /\ q \in Tilts /\ ProductOf(p) = ProductOf(q)

----------------------------------------------------------------------------
(* What the members of the map become.                                      *)

(* EnableRefresh for the product, if the map refreshes automatically.       *)
RefreshAsked(m, product) ==
    IF m.autoRefresh THEN [m.refreshed EXCEPT ![m.site] = product] ELSE m.refreshed

(* SelectRadarProduct: without a site the choice is kept for later; a view  *)
(* of the same kind keeps its manager and changes its product, any other is *)
(* replaced by a new one for the site.                                      *)
SelectRadarProduct(m, product) ==
    LET tilt == IF product \in Tilts THEN TiltIndex(product, m.known) ELSE 1
        view == IF SameView(m.view.product, product)
                THEN [m.view EXCEPT !.product = product]
                ELSE [product |-> product, site |-> m.site]
    IN  IF m.site = NoSite
        THEN [m EXCEPT !.tilt = tilt, !.product = product, !.view = NoView]
        ELSE [m EXCEPT !.tilt = tilt, !.product = product, !.view = view,
                       !.refreshed = RefreshAsked(m, product)]

(* The tilt that takes the place of one the site may not have: the same     *)
(* product, or the first of its category that the site has, at the same     *)
(* tilt or at the last there is.                                            *)
TiltInstead(tilt, index, tilts) ==
    LET category == CategoryOf(ProductOf(tilt))
        has      == AvailableProducts(category, tilts)
        product  == IF ProductOf(tilt) \in Range(has) THEN ProductOf(tilt) ELSE has[1]
        choice   == AvailableTilts(product, tilts)
    IN  IF has = <<>> THEN tilt
        ELSE IF index <= Len(choice) THEN choice[index] ELSE choice[Len(choice)]

(* CheckLevel3Availability: once the site is selected and its products are  *)
(* taken to be known, the product is selected anew, or another in its place. *)
CheckLevel3Availability(m, tilts) ==
    IF ~(m.needed /\ m.updated /\ m.selected) THEN m
    ELSE IF m.view = NoView THEN [m EXCEPT !.needed = FALSE]
    ELSE SelectRadarProduct(
            [m EXCEPT !.needed = FALSE],
            IF m.product = Level2 THEN Level2 ELSE TiltInstead(m.product, m.tilt, tilts))

(* The products of the site the map has now, whosever signal it was.        *)
TiltsOfSite(m) == IF m.site = NoSite THEN {} ELSE available[m.site]

(* The slot of Level3ProductsChanged.                                       *)
ProductsChanged(m) ==
    CheckLevel3Availability([m EXCEPT !.known = TiltsOfSite(m), !.updated = TRUE],
                            TiltsOfSite(m))

(* Mutant of SetRadarSite: the check is set up after the direct signal.     *)
SetRadarSiteLate(m, site, check) ==
    LET moved == [m EXCEPT !.site = site]
        told  == IF listing[site] = "ready" THEN ProductsChanged(moved) ELSE moved
    IN  IF m.site = site THEN m
        ELSE [told EXCEPT !.needed = check, !.updated = FALSE, !.selected = FALSE]

(* SetRadarSite of another site: connected, the check set up, and           *)
(* UpdateAvailableProducts, which answers with a direct signal if it can.   *)
SetRadarSite(m, site, check) ==
    LET moved == [m EXCEPT !.site = site, !.needed = check,
                           !.updated = FALSE, !.selected = FALSE]
    IN  IF m.site = site THEN m
        ELSE IF listing[site] = "ready" THEN ProductsChanged(moved) ELSE moved

(* The slot of RadarSiteUpdated.                                            *)
SiteUpdated(m) ==
    CheckLevel3Availability([m EXCEPT !.selected = TRUE], TiltsOfSite(m))

(* UpdateAvailableProducts: listed once, by whichever map comes first.      *)
ListProducts(site) ==
    listing' = [listing EXCEPT ![site] = IF @ = "none" THEN "posted" ELSE @]

----------------------------------------------------------------------------
(* What the user does, on the GUI thread.                                   *)

(* A product is selected from the menus.                                    *)
SelectProduct(product) ==
    /\ map' = SelectRadarProduct(map, product)
    /\ UNCHANGED <<listing, available, events, fileLoads, crashed>>

(* SelectRadarSite: a view that exists goes along, otherwise the product    *)
(* that was chosen gets one.                                                *)
SelectRadarSite(site) ==
    /\ site # map.site
    /\ LET moved == SetRadarSite(map, site, TRUE)
           shown == IF map.view # NoView THEN [moved EXCEPT !.view.site = site]
                    ELSE IF moved.product # Unknown
                    THEN SelectRadarProduct(moved, moved.product)
                    ELSE moved
       IN  map' = SiteUpdated(shown)
    /\ ListProducts(site)
    /\ UNCHANGED <<available, events, fileLoads, crashed>>

(* No radar site: refreshes of what is shown end.                           *)
SelectNoSite ==
    /\ map.site # NoSite
    /\ map' = [map EXCEPT
          !.refreshed = IF map.autoRefresh /\ map.view # NoView
                        THEN [@ EXCEPT ![map.site] = None] ELSE @,
          !.view = NoView, !.site = NoSite,
          !.needed = FALSE, !.updated = FALSE, !.selected = TRUE]
    /\ UNCHANGED <<listing, available, events, fileLoads, crashed>>

(* A file of any site is opened: automatic refresh ends, and the record's   *)
(* site and product are selected, without a check.                          *)
OpenFile(site, product) ==
    /\ map' = SelectRadarProduct(
                 SetRadarSite([map EXCEPT !.autoRefresh = FALSE], site, FALSE), product)
    /\ IF site = map.site THEN UNCHANGED listing ELSE ListProducts(site)
    /\ UNCHANGED <<available, events, fileLoads, crashed>>

(* Another map turns to a site, and a manager that is ready tells all maps. *)
OtherMapSelectsSite(site) ==
    /\ map' = IF listing[site] = "ready" /\ map.site = site
              THEN ProductsChanged(map) ELSE map
    /\ ListProducts(site)
    /\ UNCHANGED <<available, events, fileLoads, crashed>>

----------------------------------------------------------------------------
(* What is queued for the map or will be; bounded.                          *)
UnderWay == Len(events) + Cardinality(fileLoads)

(* A manager that is ready and that no map, view or load holds any more is  *)
(* destroyed; the next map at its site makes a new one.                     *)
ManagerExpires(site) ==
    /\ UnderWay < MaxUnderWay
    /\ listing[site] = "ready"
    /\ site \notin {map.site, map.view.site}
    /\ \A load \in fileLoads : load.site # site
    /\ listing' = [listing EXCEPT ![site] = "none"]
    /\ available' = [available EXCEPT ![site] = {}]
    /\ map' = [map EXCEPT !.refreshed[site] = None]
    /\ UNCHANGED <<events, fileLoads, crashed>>

----------------------------------------------------------------------------
(* The managers' and the map's pools.  A signal is queued for the map if it *)
(* is connected when the signal is emitted.                                 *)

Emit(site, event) ==
    events' = IF map.site = site THEN Append(events, event) ELSE events

(* UpdateAvailableProductsSync: what the provider has listed, nothing if    *)
(* that failed, is stored, then declared ready and announced.  The GUI      *)
(* thread connects before it looks whether it is ready, so that nothing is  *)
(* lost if the two of the second step are one.                              *)
StoreProducts(site) ==
    /\ listing[site] = "posted"
    /\ listing' = [listing EXCEPT ![site] = "stored"]
    /\ \E tilts \in Offers : available' = [available EXCEPT ![site] = tilts]
    /\ UNCHANGED <<map, events, fileLoads, crashed>>

AnnounceProducts(site) ==
    /\ listing[site] = "stored"
    /\ listing' = [listing EXCEPT ![site] = "ready"]
    /\ Emit(site, [kind |-> "Level3ProductsChanged"])
    /\ UNCHANGED <<map, available, fileLoads, crashed>>

(* A refresh, this map's or another's, found something new.                 *)
NewData(site, product, chunks) ==
    /\ UnderWay < MaxUnderWay
    /\ chunks => product = Level2
    /\ map.site = site
    /\ Emit(site, [kind |-> "NewDataAvailable", product |-> product, chunks |-> chunks])
    /\ UNCHANGED <<map, listing, available, fileLoads, crashed>>

(* The load of a request ends, with or without a record; or it threw, and   *)
(* nobody is told.                                                          *)
CompleteRequest(load, record) ==
    /\ load \in fileLoads
    /\ fileLoads' = fileLoads \ {load}
    /\ events' = Append(events, [kind |-> "RequestComplete", site |-> load.site,
                                 product |-> load.product, record |-> record])
    /\ UNCHANGED <<map, listing, available, crashed>>

LoadThrows(load) ==
    /\ load \in fileLoads
    /\ fileLoads' = fileLoads \ {load}
    /\ UNCHANGED <<map, listing, available, events, crashed>>

----------------------------------------------------------------------------
(* The signals, on the GUI thread.                                          *)

Take(kind) ==
    /\ events # <<>>
    /\ Head(events).kind = kind
    /\ events' = Tail(events)

HandleLevel3ProductsChanged ==
    /\ Take("Level3ProductsChanged")
    /\ map' = ProductsChanged(map)
    /\ UNCHANGED <<listing, available, fileLoads, crashed>>

(* New data of the product that is shown: with automatic update chunks are  *)
(* selected at once and other data when it is loaded; without, it is loaded *)
(* and no more.  The timeline switches automatic update, on when it is      *)
(* live: either is possible.  The request is about the site of the map.     *)
(* Two requests for one product of one site count as one.                   *)
HandleNewDataAvailable(autoUpdate) ==
    /\ Take("NewDataAvailable")
    /\ LET event  == Head(events)
           wanted == map.autoRefresh /\ map.product = event.product
           latest == event.chunks /\ autoUpdate
       IN  /\ map' = IF wanted /\ latest THEN SelectRadarProduct(map, event.product) ELSE map
           /\ crashed' = (wanted /\ ~latest /\ map.site = NoSite)
           /\ fileLoads' = IF wanted /\ ~latest /\ autoUpdate /\ map.site # NoSite
                           THEN fileLoads \cup
                                   {[site |-> map.site, product |-> event.product]}
                           ELSE fileLoads
    /\ UNCHANGED <<listing, available>>

(* The record is selected if the map still shows its site and product.      *)
HandleRequestComplete ==
    /\ Take("RequestComplete")
    /\ LET event == Head(events)
       IN  map' = IF event.record /\ event.site = map.site /\ event.product = map.product
                  THEN SelectRadarProduct(map, event.product) ELSE map
    /\ UNCHANGED <<listing, available, fileLoads, crashed>>

----------------------------------------------------------------------------
UserStep ==
    \/ \E product \in Products : SelectProduct(product)
    \/ \E site \in Sites : SelectRadarSite(site) \/ OtherMapSelectsSite(site)
    \/ SelectNoSite
    \/ \E site \in Sites, product \in Products : OpenFile(site, product)
    \/ \E site \in Sites : ManagerExpires(site)

PoolStep ==
    \/ \E site \in Sites : StoreProducts(site) \/ AnnounceProducts(site)
    \/ \E site \in Sites, product \in Products, chunks \in BOOLEAN :
          NewData(site, product, chunks)
    \/ \E load \in fileLoads :
          \/ \E record \in BOOLEAN : CompleteRequest(load, record)
          \/ LoadThrows(load)

SignalStep ==
    \/ HandleLevel3ProductsChanged
    \/ \E autoUpdate \in BOOLEAN : HandleNewDataAvailable(autoUpdate)
    \/ HandleRequestComplete

(* A crash ends the program.                                                *)
Crashed == crashed /\ UNCHANGED mapVars

MapNext == (~crashed /\ (UserStep \/ PoolStep \/ SignalStep)) \/ Crashed

MapSpec == MapInit /\ [][MapNext]_mapVars

----------------------------------------------------------------------------
(* What a map shows is refreshed: in automatic refresh the manager of the   *)
(* site has been asked to refresh the product of the view, or a check is    *)
(* due that will ask, and the products it waits for are being listed or     *)
(* announced -- although a view that moves to another site asks for nothing *)
(* itself, and the check is set off by two signals in either order.         *)
ViewIsRefreshed ==
    map.view # NoView /\ map.autoRefresh =>
        \/ map.refreshed[map.site] = map.view.product
        \/ /\ map.needed
           /\ \/ listing[map.site] \in {"posted", "stored"}
              \/ \E i \in DOMAIN events : events[i].kind = "Level3ProductsChanged"

(* The comment in SetRadarSite: once the available products are loaded,     *)
(* check to make sure the current one is available.  So the check that is   *)
(* set up for a site is not spent before the site's products are there.     *)
CheckedWhenLoaded ==
    [][map.needed /\ ~map'.needed /\ map'.site = map.site /\ map.view.product \in Tilts
          => listing[map.site] \in {"stored", "ready"}]_mapVars

(* The view shows the site the map has selected: violated when a file of    *)
(* another site is opened, whose product the view already shows.            *)
ViewIsOfSite == map.view # NoView => map.view.site = map.site
=============================================================================
