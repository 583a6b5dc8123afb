------------------------------ MODULE AdminProofs ------------------------------
(***************************************************************************)
(* Theorems about Admin for any number of handlers, vendors, faces, models *)
(* and keys.                                                               *)
(***************************************************************************)
EXTENDS Admin, TLAPS

-----------------------------------------------------------------------------
(* The invariants.                                                         *)

NoMap == [n \in Names |-> NoPool]

\* What a handler at l works with, as far as its next steps rely on it.
Fit(l, m) ==
  /\ l \in {"idle", "done"} => m = Nobody
  /\ l \in {"create", "find", "delete"} => m.target \in Keys
  /\ l = "delete" => \E v \in Vendors \cup {"all"} : m.seen = {v}
  /\ l \in {"insert", "get", "save", "faces", "drop", "faceRows", "purge"} =>
       m.target \in Stations
  /\ l = "setOrder" => m.seen \subseteq Vendors
  /\ l = "drop" => m.seen \subseteq Faces
  /\ l = "faceRows" => m.todo \subseteq Faces
  /\ l \in {"remove", "unregister"} => m.todo \subseteq RelayFaces
  /\ l = "unregister" => \E f \in m.todo : m.seen = {f}
  /\ l \in {"sync", "register", "add"} => m.target \in Stations
  /\ l = "sync" => m.seen \subseteq Keys /\ m.merged \subseteq Keys
  /\ l \in {"register", "add"} => m.seen \subseteq FacesOf[m.target]
  /\ l = "add" => \E f \in m.seen : m.merged = {f}
  /\ l \in {"syncNames", "list", "prices", "upsert", "price", "count", "orphans"} =>
       m.target \in Vendors
  /\ l = "list" => m.todo \subseteq Faces
  /\ l \in {"syncNames", "list", "prices", "upsert"} => m.merged \subseteq Models
  /\ l = "names" => m.target \in Vendors \cup {"all"}
  /\ l \in {"build", "copy"} => m.target \in Vendors
  /\ l = "visit" => m.target \in Vendors \cup {"all", "relays"}
  /\ l = "visit" /\ m.target = "all" => m.todo \subseteq Configured
  /\ l = "visit" /\ m.target = "relays" => m.todo \subseteq RelayFaces
  /\ l \notin {"copy", "visit", "server", "router", "quota"} =>
       m.built = {} /\ m.map = NoMap

Shapes == \A h \in Handlers : Fit(pc[h], my[h])

\* A handler that began and went on alone still is; what ended settled has ended.
Solitude ==
  /\ alone => \A g, h \in Handlers : Busy(g) /\ Busy(h) => g = h
  /\ settled # {} => \A h \in Handlers : ~Busy(h)

Loads == Configured \subseteq loaded

\* Rows a sync has read before its transaction.
SyncReads ==
  \A h \in Handlers : pc[h] = "upsert" =>
     \A vm \in Vendors \X Models : priced[vm] # Absent => my[h].rows[vm] = priced[vm]

Solo(h) == alone /\ Busy(h)

ReadsFresh ==
  /\ \A h \in Handlers : Solo(h) =>
       /\ pc[h] \in {"faceList", "install"} => my[h].rows = modelRows
       /\ pc[h] = "install" => my[h].offers = faceRows
  /\ ModelsFresh

\* The maps under construction.
Shared(map) ==
  \A f, g \in Configured : map[f] # NoPool /\ (VendorOf[f] = VendorOf[g] => map[f] = map[g])

OneEach(built) == \A p, q \in built : p.vendor = q.vendor => p = q

\* The names to enter have, of the configured faces, exactly the vendor's.
TodoOf(m) == \A f \in Configured : f \in m.todo <=> VendorOf[f] = m.target

OneBuilt(m) == \E p \in PoolType : m.built = {p} /\ p.vendor = m.target

\* A vendor's own reload: its faces get the pool that was built, one by one.
VendorMap(m) ==
  /\ OneBuilt(m)
  /\ \A f \in Configured : m.map[f] # NoPool /\ (f \in m.todo => VendorOf[f] = m.target)
  /\ \A f \in Configured : VendorOf[f] = m.target => f \in m.todo \/ m.map[f] \in m.built
  /\ \A f, g \in Configured :
       VendorOf[f] = VendorOf[g] /\ VendorOf[f] # m.target => m.map[f] = m.map[g]

\* The full reload: what is not to be entered any more has its vendor's pool.
FullMap(m) ==
  \A f \in Configured :
    \/ m.target = "all" /\ f \in m.todo
    \/ m.map[f] \in m.built /\ m.map[f].vendor = VendorOf[f]

MapFit(l, m) ==
  /\ l \in {"build", "copy"} => TodoOf(m)
  /\ l = "copy" => OneBuilt(m)
  /\ l = "visit" => OneEach(m.built)
  /\ l = "visit" /\ m.target \in Vendors => VendorMap(m)
  /\ l = "visit" /\ m.target \in {"all", "relays"} => FullMap(m)
  /\ l \in {"server", "router", "quota"} => Shared(m.map)

MapsShared == Shared(serverPools) /\ Shared(routerPools) /\ Shared(quotaPools)

Mapped == (\A h \in Handlers : MapFit(pc[h], my[h])) /\ MapsShared

\* Names registered but not loaded are in the hands of a handler.
Announced ==
  \A f \in registered \ loaded : \E g \in Handlers :
    \/ pc[g] = "add" /\ my[g].merged = {f}
    \/ pc[g] = "unregister" /\ my[g].seen = {f}

RelayStages == {"remove", "unregister", "station", "sync", "register", "add"}
PoolStages == {"names", "build", "copy", "visit", "server", "router", "quota"}

\* What a handler covers, as far as the stations are concerned.
CoversFit(l, covers) ==
  /\ l \notin RelayStages \cup PoolStages => covers = {}
  /\ l \in RelayStages => covers \subseteq {"stations", "leftovers", "unsynced"}

Clean(h) == "stations" \in my[h].covers /\ "leftovers" \notin my[h].covers

\* No statement of the handler about keys has failed.
InStep(h) == "unsynced" \notin my[h].covers

Tidy == endpoints \subseteq loaded \cup {VendorOf[f] : f \in loaded \ Configured}

Have(fs, rs) == loaded = Configured \cup fs /\ registered = rs

Done(h) == stationRows \ {st[1] : st \in my[h].list}
Here(h) == FacesOf[my[h].target]

Relays(h) ==
  /\ Tidy
  /\ pc[h] = "remove" => Have(my[h].todo, my[h].todo)
  /\ pc[h] = "unregister" => Have(my[h].todo \ my[h].seen, my[h].todo)
  /\ pc[h] \notin {"remove", "unregister"} =>
       /\ my[h].list \subseteq {<<s, columnKeys[s]>> : s \in stationRows}
       /\ Done(h) \subseteq endpoints
       /\ InStep(h) => \A s \in Done(h) : KeysOf(s) = columnKeys[s]
  /\ pc[h] = "station" => Have(RelaysOf(Done(h)), RelaysOf(Done(h)))
  /\ pc[h] = "sync" =>
       /\ Have(RelaysOf(Done(h)), RelaysOf(Done(h)))
       /\ <<my[h].target, my[h].merged>> \in my[h].list
       /\ InStep(h) => my[h].seen = KeysOf(my[h].target)
  /\ pc[h] \in {"register", "add"} =>
       /\ my[h].target \in stationRows \ Done(h)
       /\ InStep(h) => KeysOf(my[h].target) = columnKeys[my[h].target]
       /\ my[h].seen = Here(h) \/ my[h].target \in endpoints
  /\ pc[h] = "register" =>
       LET all == RelaysOf(Done(h)) \cup (Here(h) \ my[h].seen) IN Have(all, all)
  /\ pc[h] = "add" =>
       LET all == RelaysOf(Done(h)) \cup (Here(h) \ my[h].seen) IN Have(all, all \cup my[h].merged)

Followed ==
  /\ Have(RelaysOf(stationRows), RelaysOf(stationRows))
  /\ endpoints = loaded \cup stationRows

KeysFollowed == \A s \in stationRows : KeysOf(s) = columnKeys[s]

Following ==
  /\ \A h \in Handlers :
       /\ CoversFit(pc[h], my[h].covers)
       /\ Solo(h) /\ Clean(h) /\ pc[h] \in RelayStages => Relays(h)
       /\ Solo(h) /\ Clean(h) /\ pc[h] \in PoolStages => Followed /\ (InStep(h) => KeysFollowed)
  /\ StationsFollow

\* The pools under construction by a handler that is alone.
Its(v) == {f \in loaded \cap (Configured \cup registered) : VendorFor(f) = v}

Serves(h, f) ==
  /\ my[h].map[f] = facePool[f] /\ facePool[f] \in my[h].built
  /\ facePool[f].vendor = VendorFor(f)

Covered(h) == my[h].covers \cap Vendors

Serving(h) ==
  /\ pc[h] = "names" => Covered(h) = {}
  /\ pc[h] \in {"build", "copy"} =>
       Covered(h) \subseteq {my[h].target} /\ Its(my[h].target) \subseteq my[h].todo
  /\ pc[h] = "visit" /\ my[h].target \in Vendors => Covered(h) \subseteq {my[h].target}
  /\ pc[h] \in PoolStages /\ Covered(h) # {} => \A p \in my[h].built : p.keys = KeysOf(p.vendor)
  /\ pc[h] = "visit" =>
       \A v \in Covered(h) : \A f \in Its(v) :
         Serves(h, f) \/ f \in my[h].todo \/ (my[h].target = "all" /\ f \notin Configured)
  /\ pc[h] \in {"server", "router", "quota"} =>
       \A v \in Covered(h) : \A f \in Its(v) : Serves(h, f)
  /\ pc[h] \in {"router", "quota"} => serverPools = my[h].map
  /\ pc[h] = "quota" => routerPools = my[h].map

AllServing == (\A h \in Handlers : Solo(h) => Serving(h)) /\ KeysServed

-----------------------------------------------------------------------------
(* Names.                                                                  *)

LEMMA NamesSorted ==
  /\ Stations \subseteq Vendors /\ Faces \subseteq Names /\ Vendors \subseteq Names
  /\ RelayFaces \subseteq Faces /\ Configured \subseteq Faces
  /\ Tags \cap Names = {} /\ NoPool \notin PoolType
  /\ \A v \in Vendors : FacesOf[v] \subseteq Faces /\ FacesOf[v] # {}
  /\ \A s \in Stations : FacesOf[s] \subseteq RelayFaces
BY ProvidersAssumption, AdminAssumption DEF Faces, Names, RelayFaces, Configured, Vendors

\* A face has one vendor, and a face that bears a vendor's name is that vendor's.
LEMMA OneVendor ==
  ASSUME NEW f \in Faces
  PROVE  /\ VendorOf[f] \in Vendors /\ f \in FacesOf[VendorOf[f]]
         /\ \A v \in Vendors : f \in FacesOf[v] => VendorOf[f] = v
         /\ f \in Vendors => VendorOf[f] = f
<1>1. PICK v \in Vendors : f \in FacesOf[v]
  BY DEF Faces
<1>2. VendorOf[f] = CHOOSE u \in Vendors : f \in FacesOf[u]
  BY DEF VendorOf
<1>3. VendorOf[f] \in Vendors /\ f \in FacesOf[VendorOf[f]]
  BY <1>1, <1>2
<1>4. \A u \in Vendors : f \in FacesOf[u] => VendorOf[f] = u
  BY <1>3, ProvidersAssumption
<1>5. f \in Vendors => VendorOf[f] = f
  BY <1>3, ProvidersAssumption
<1>6. QED
  BY <1>3, <1>4, <1>5

\* The relay faces are the stations' and no other vendor's.
LEMMA RelaysAndConfigured ==
  ASSUME NEW f \in Faces
  PROVE  /\ f \in RelayFaces <=> VendorOf[f] \in Stations
         /\ f \in Configured <=> VendorOf[f] \notin Stations
         /\ f \in Configured => f \notin Stations
<1>1. VendorOf[f] \in Vendors /\ f \in FacesOf[VendorOf[f]]
  BY OneVendor
<1>2. \A v \in Vendors : f \in FacesOf[v] => VendorOf[f] = v
  BY OneVendor
<1>3. f \in Vendors => VendorOf[f] = f
  BY OneVendor
<1>4. f \in RelayFaces <=> VendorOf[f] \in Stations
  BY <1>1, <1>2, NamesSorted DEF RelayFaces
<1>5. QED
  BY <1>3, <1>4, NamesSorted DEF Configured

LEMMA VendorForType ==
  ASSUME registered \subseteq RelayFaces, NEW f \in Names
  PROVE  /\ VendorFor(f) \in Names
         /\ f \in Configured \cup registered => VendorFor(f) = VendorOf[f] /\ VendorFor(f) \in Vendors
         /\ f \notin Configured \cup registered => VendorFor(f) = f
         /\ f \in Configured => VendorFor(f) \notin Stations
         /\ f \in registered => VendorFor(f) \in Stations
<1>1. f \in Configured \cup registered => f \in Faces
  BY NamesSorted
<1>2. QED
  BY <1>1, OneVendor, RelaysAndConfigured, NamesSorted DEF VendorFor

-----------------------------------------------------------------------------
(* Which steps touch what.                                                 *)

LEMMA ProvidersTouched ==
  ASSUME NEW h, Handler(h)
  PROVE  \/ UNCHANGED providers
         \/ RelayRemoves(h) \/ RelayRegisters(h) \/ (At(h, "billing") /\ ConfigReload(h))
<1> USE DEF providers, catalog, pools, stations, Same
<1>1. CASE CreateKey(h) \/ DeleteKey(h) \/ PutRouteOrder(h)
  BY <1>1 DEF CreateKey, DeleteKey, PutRouteOrder, ReplaceOrder, ReloadProviderOrder
<1>2. CASE CreateStation(h) \/ UpdateStation(h) \/ DeleteStation(h)
  BY <1>2 DEF CreateStation, UpdateStation, DeleteStation, SaveStation, DropFaceRows, DropOrder,
              PurgeKeys, Fails
<1>3. CASE ReloadStations(h)
  BY <1>3 DEF ReloadStations, RelayList, RelayRows, RelaySync, RelaySyncWrites, Synced, Unsynced, RelayEnds, Fails
<1>4. CASE SyncModels(h) \/ SavePrice(h) \/ Prune(h) \/ ConfigReload(h) \/ LoadModels(h)
  BY <1>4 DEF SyncModels, SyncLists, SyncEnds, SyncUpserts, SavePrice, Prune, ConfigReload,
              LoadModels, ReadRows, ReadFaceRows, Fails
<1>5. CASE ReloadPool(h)
  BY <1>5 DEF ReloadPool, ReloadNames, ReloadBuilds, ReloadCopies, ReloadVisits, ReloadRelays,
              ReloadSwaps, Build
<1>6. QED
  BY <1>1, <1>2, <1>3, <1>4, <1>5 DEF Handler

LEMMA CatalogTouched ==
  ASSUME NEW h, Handler(h)
  PROVE  \/ UNCHANGED catalog
         \/ DropFaceRows(h) \/ SyncLists(h) \/ (At(h, "upsert") /\ SyncUpserts(h))
         \/ (At(h, "price") /\ SavePrice(h)) \/ (At(h, "orphans") /\ Prune(h))
         \/ (At(h, "install") /\ LoadModels(h))
<1> USE DEF providers, catalog, pools, stations, Same
<1>1. CASE CreateKey(h) \/ DeleteKey(h) \/ PutRouteOrder(h)
  BY <1>1 DEF CreateKey, DeleteKey, PutRouteOrder, ReplaceOrder, ReloadProviderOrder
<1>2. CASE CreateStation(h) \/ UpdateStation(h) \/ DeleteStation(h)
  BY <1>2 DEF CreateStation, UpdateStation, DeleteStation, SaveStation, DropOrder,
              PurgeKeys, Fails
<1>3. CASE ReloadStations(h)
  BY <1>3 DEF ReloadStations, RelayList, RelayRemoves, RelayRows, RelaySync, RelaySyncWrites, Synced, Unsynced,
              RelayRegisters, RelayEnds, Fails
<1>4. CASE SyncModels(h) \/ SavePrice(h) \/ Prune(h) \/ ConfigReload(h) \/ LoadModels(h)
  BY <1>4 DEF SyncModels, SyncEnds, SyncUpserts, SavePrice, Prune, ConfigReload,
              LoadModels, ReadRows, ReadFaceRows, Fails
<1>5. CASE ReloadPool(h)
  BY <1>5 DEF ReloadPool, ReloadNames, ReloadBuilds, ReloadCopies, ReloadVisits, ReloadRelays,
              ReloadSwaps, Build
<1>6. QED
  BY <1>1, <1>2, <1>3, <1>4, <1>5 DEF Handler

LEMMA PoolsTouched ==
  ASSUME NEW h, Handler(h)
  PROVE  \/ UNCHANGED pools
         \/ (At(h, "create") /\ CreateKey(h)) \/ (At(h, "delete") /\ DeleteKey(h)) \/ PurgeKeys(h)
         \/ RelaySyncWrites(h) \/ (At(h, "add") /\ RelayRegisters(h))
         \/ ReloadVisits(h) \/ ReloadSwaps(h)
<1> USE DEF providers, catalog, pools, stations, Same
<1>1. CASE CreateKey(h) \/ DeleteKey(h) \/ PutRouteOrder(h)
  BY <1>1 DEF CreateKey, DeleteKey, PutRouteOrder, ReplaceOrder, ReloadProviderOrder
<1>2. CASE CreateStation(h) \/ UpdateStation(h) \/ DeleteStation(h)
  BY <1>2 DEF CreateStation, UpdateStation, DeleteStation, SaveStation, DropFaceRows, DropOrder,
              Fails
<1>3. CASE ReloadStations(h)
  BY <1>3 DEF ReloadStations, RelayList, RelayRemoves, RelayRows, RelaySync,
              RelayRegisters, RelayEnds, Fails
<1>4. CASE SyncModels(h) \/ SavePrice(h) \/ Prune(h) \/ ConfigReload(h) \/ LoadModels(h)
  BY <1>4 DEF SyncModels, SyncLists, SyncEnds, SyncUpserts, SavePrice, Prune, ConfigReload,
              LoadModels, ReadRows, ReadFaceRows, Fails
<1>5. CASE ReloadPool(h)
  BY <1>5 DEF ReloadPool, ReloadNames, ReloadBuilds, ReloadCopies, ReloadRelays, Build
<1>6. QED
  BY <1>1, <1>2, <1>3, <1>4, <1>5 DEF Handler

LEMMA StationsTouched ==
  ASSUME NEW h, Handler(h)
  PROVE  \/ UNCHANGED stations
         \/ ReplaceOrder(h) \/ (At(h, "setOrder") /\ ReloadProviderOrder(h)) \/ DropOrder(h)
         \/ (At(h, "insert") /\ CreateStation(h)) \/ (At(h, "save") /\ UpdateStation(h))
         \/ (At(h, "drop") /\ DeleteStation(h))
<1> USE DEF providers, catalog, pools, stations, Same
<1>1. CASE CreateKey(h) \/ DeleteKey(h) \/ PutRouteOrder(h)
  BY <1>1 DEF CreateKey, DeleteKey, PutRouteOrder, ReloadProviderOrder
<1>2. CASE CreateStation(h) \/ UpdateStation(h) \/ DeleteStation(h)
  BY <1>2 DEF CreateStation, UpdateStation, DeleteStation, DropFaceRows,
              PurgeKeys, Fails
<1>3. CASE ReloadStations(h)
  BY <1>3 DEF ReloadStations, RelayList, RelayRemoves, RelayRows, RelaySync, RelaySyncWrites, Synced, Unsynced,
              RelayRegisters, RelayEnds, Fails
<1>4. CASE SyncModels(h) \/ SavePrice(h) \/ Prune(h) \/ ConfigReload(h) \/ LoadModels(h)
  BY <1>4 DEF SyncModels, SyncLists, SyncEnds, SyncUpserts, SavePrice, Prune, ConfigReload,
              LoadModels, ReadRows, ReadFaceRows, Fails
<1>5. CASE ReloadPool(h)
  BY <1>5 DEF ReloadPool, ReloadNames, ReloadBuilds, ReloadCopies, ReloadVisits, ReloadRelays,
              ReloadSwaps, Build
<1>6. QED
  BY <1>1, <1>2, <1>3, <1>4, <1>5 DEF Handler

-----------------------------------------------------------------------------
(* The kinds of step: a handler begins, moves on or ends.                  *)

Begins(h) == \E op \in Operations, target \in Vendors \cup Keys \cup {"all", "none"} :
               \E l \in {"create", "find", "replace", "relays", "insert", "get", "faces",
                         "syncNames", "price", "count", "billing"} :
                 Begin(h, op, l, target) /\ Same

\* What it may leave settled.
Settles(h, covers) == \/ covers = {}
                      \/ pc[h] = "setOrder" /\ covers = {"order"}
                      \/ pc[h] = "install" /\ covers = {"models"}
                      \/ pc[h] = "quota" /\ covers = my[h].covers

Ended(h) ==
  /\ Busy(h)
  /\ \E covers : Settles(h, covers) /\ Finish(h, covers)
  /\ failures' = failures \/ MayFail

Moves(h) ==
  /\ Busy(h)
  /\ \E l \in Places \ {"idle", "done"} : pc' = [pc EXCEPT ![h] = l]
  /\ UNCHANGED <<alone, settled>>
  /\ failures' = failures \/ MayFail
  /\ \A g \in Handlers \ {h} : my'[g] = my[g]

Busied == Places \ {"idle", "done"}

LEMMA KindsOfGo ==
  ASSUME HandlersTypeOK, NEW h \in Handlers, NEW l \in Busied, Go(h, l), Busy(h),
         Keep \/ \E m : Put(h, m)
  PROVE  Moves(h)
BY DEF HandlersTypeOK, Go, Keep, Put, Moves, Busied

LEMMA KindsOfFailing ==
  ASSUME HandlersTypeOK, NEW h \in Handlers, NEW l \in Busied, Busy(h),
         pc' = [pc EXCEPT ![h] = l], UNCHANGED <<alone, settled>>,
         failures' = failures \/ MayFail,
         NEW m, Put(h, m)
  PROVE  Moves(h)
BY DEF HandlersTypeOK, Put, Moves, Busied

LEMMA KindsOfStay ==
  ASSUME HandlersTypeOK, NEW h \in Handlers, Stay(h), Busy(h), Keep \/ \E m : Put(h, m)
  PROVE  Moves(h)
<1>1. pc[h] \in Busied
  BY DEF HandlersTypeOK, Busy, Busied
<1>2. QED
  BY <1>1, KindsOfGo DEF Stay

LEMMA KindsOfEnd ==
  ASSUME NEW h, Busy(h), NEW covers, Settles(h, covers),
         Ends(h, covers) \/ (Finish(h, covers) /\ MayFail)
  PROVE  Ended(h)
BY DEF Ends, Ended

LEMMA KindsOfReload ==
  ASSUME HandlersTypeOK, NEW h \in Handlers, ReloadPool(h) PROVE Moves(h) \/ Ended(h)
<1> USE KindsOfGo, KindsOfStay, KindsOfEnd DEF Settles, At, Busy, Busied, Places
<1>1. CASE ReloadNames(h)
  BY <1>1 DEF ReloadNames
<1>2. CASE ReloadBuilds(h)
  <2>1. CASE Build(h, my[h].target, FALSE) /\ Go(h, "copy")
    BY <1>2, <2>1 DEF ReloadBuilds, Build
  <2>2. CASE MayFail /\ Build(h, my[h].target, TRUE) /\ pc' = [pc EXCEPT ![h] = "copy"]
             /\ UNCHANGED <<alone, settled>>
    BY <1>2, <2>2, KindsOfFailing DEF ReloadBuilds, Build
  <2>3. QED
    BY <1>2, <2>1, <2>2 DEF ReloadBuilds
<1>3. CASE ReloadCopies(h)
  BY <1>3 DEF ReloadCopies
<1> HIDE DEF Busied, Places
<1>4. CASE ReloadVisits(h)
  <2> DEFINE v(f) == IF Full(h) THEN VendorFor(f) ELSE my[h].target
  <2>1. PICK f \in my[h].todo :
          \/ Build(h, v(f), FALSE) /\ Stay(h)
          \/ Build(h, v(f), TRUE) /\ MayFail /\ UNCHANGED <<pc, alone, settled>>
          \/ (\E m : Put(h, m)) /\ Stay(h)
    BY <1>4 DEF ReloadVisits
  <2>2. Busy(h) /\ pc[h] \in Busied
    BY <1>4 DEF ReloadVisits, Busied, Places
  <2>3. CASE Build(h, v(f), FALSE) /\ Stay(h)
    BY <2>2, <2>3 DEF Build
  <2>4. CASE Build(h, v(f), TRUE) /\ MayFail /\ UNCHANGED <<pc, alone, settled>>
    <3>1. pc' = [pc EXCEPT ![h] = pc[h]]
      BY <2>4 DEF HandlersTypeOK
    <3>2. PICK m : Put(h, m)
      BY <2>4 DEF Build
    <3>3. PICK l \in Busied : l = pc[h]
      BY <2>2
    <3>4. QED
      BY <2>2, <2>4, <3>1, <3>2, <3>3, KindsOfFailing
  <2>5. QED
    BY <2>1, <2>2, <2>3, <2>4
<1>5. CASE ReloadRelays(h)
  BY <1>5 DEF ReloadRelays, Busied, Places
<1>6. CASE ReloadSwaps(h)
  BY <1>6 DEF ReloadSwaps, Busied, Places
<1>7. QED
  BY <1>1, <1>2, <1>3, <1>4, <1>5, <1>6 DEF ReloadPool

LEMMA KindsOfKeys ==
  ASSUME HandlersTypeOK, NEW h \in Handlers, CreateKey(h) \/ DeleteKey(h) \/ PutRouteOrder(h)
  PROVE  Begins(h) \/ Moves(h) \/ Ended(h)
<1> USE KindsOfGo, KindsOfStay, KindsOfEnd DEF Settles, At, Busy, Busied, Places
<1>1. CASE CreateKey(h)
  BY <1>1 DEF CreateKey, Begins, Operations
<1>2. CASE DeleteKey(h)
  <2>1. CASE At(h, "find") /\ pc' = [pc EXCEPT ![h] = "delete"]
    <3>1. failures' = failures \/ MayFail
      BY <1>2, <2>1 DEF DeleteKey, Begin, Ends, Finish, Go, HandlersTypeOK, MayFail
    <3>4. PICK m : Put(h, m)
      BY <1>2, <2>1 DEF DeleteKey, Begin, Ends, Finish, Go, HandlersTypeOK
    <3>2. UNCHANGED <<alone, settled>>
      BY <1>2, <2>1 DEF DeleteKey, Begin, Ends, Finish, Go, HandlersTypeOK
    <3>3. QED
      BY <2>1, <3>1, <3>2, <3>4, KindsOfFailing
  <2>2. QED
    BY <1>2, <2>1 DEF DeleteKey, Begins, Operations
<1>3. CASE PutRouteOrder(h)
  BY <1>3 DEF PutRouteOrder, ReplaceOrder, ReloadProviderOrder, Begins, Operations
<1>4. QED
  BY <1>1, <1>2, <1>3

LEMMA KindsOfStations ==
  ASSUME HandlersTypeOK, NEW h \in Handlers,
         CreateStation(h) \/ UpdateStation(h) \/ DeleteStation(h) \/ ReloadStations(h)
  PROVE  Begins(h) \/ Moves(h) \/ Ended(h)
<1> USE KindsOfGo, KindsOfStay, KindsOfEnd, NamesSorted DEF Settles, At, Busy, Busied, Places
<1>1. CASE CreateStation(h)
  BY <1>1 DEF CreateStation, SaveStation, Begins, Operations
<1>2. CASE UpdateStation(h)
  BY <1>2 DEF UpdateStation, SaveStation, Begins, Operations
<1>3. CASE DeleteStation(h)
  BY <1>3 DEF DeleteStation, DropFaceRows, DropOrder, PurgeKeys, Fails, Begins, Operations
<1>4. CASE ReloadStations(h)
  <2>1. CASE RelayList(h) \/ RelayRemoves(h) \/ RelayRows(h)
    BY <2>1 DEF RelayList, RelayRemoves, RelayRows
  <2>2. CASE RelayRegisters(h) \/ RelayEnds(h)
    BY <2>2 DEF RelayRegisters, RelayEnds
  <2>5. CASE RelaySync(h)
    <3>1. \/ Go(h, "sync") /\ \E m : Put(h, m)
          \/ /\ MayFail /\ pc' = [pc EXCEPT ![h] = "register"] /\ UNCHANGED <<alone, settled>>
             /\ \E m : Put(h, m)
      BY <2>5 DEF RelaySync
    <3>2. Busy(h)
      BY <2>5 DEF RelaySync
    <3>3. QED
      BY <3>1, <3>2, KindsOfFailing
  <2>6. CASE RelaySyncWrites(h)
    <3>1. \/ Stay(h) /\ \E m : Put(h, m)
          \/ Go(h, "register") /\ \E m : Put(h, m)
          \/ MayFail /\ UNCHANGED <<pc, alone, settled>> /\ \E m : Put(h, m)
      BY <2>6 DEF RelaySyncWrites, Synced, Unsynced
    <3>2. Busy(h) /\ pc[h] = "sync"
      BY <2>6 DEF RelaySyncWrites
    <3>3. pc = [pc EXCEPT ![h] = "sync"]
      BY <3>2 DEF HandlersTypeOK
    <3>4. QED
      BY <3>1, <3>2, <3>3, KindsOfFailing
  <2>3. CASE Begin(h, "reload", "relays", "all") /\ Same
    BY <2>3 DEF Begins, Operations
  <2>4. QED
    BY <1>4, <2>1, <2>2, <2>3, <2>5, <2>6 DEF ReloadStations, Fails
<1>5. QED
  BY <1>1, <1>2, <1>3, <1>4

LEMMA KindsOfModels ==
  ASSUME HandlersTypeOK, NEW h \in Handlers,
         SyncModels(h) \/ SavePrice(h) \/ Prune(h) \/ ConfigReload(h) \/ LoadModels(h)
  PROVE  Begins(h) \/ Moves(h) \/ Ended(h)
<1> USE KindsOfGo, KindsOfStay, KindsOfEnd DEF Settles, At, Busy, Busied, Places
<1>1. CASE SyncModels(h)
  BY <1>1 DEF SyncModels, SyncLists, SyncEnds, SyncUpserts, Fails, Begins, Operations
<1>2. CASE SavePrice(h)
  BY <1>2 DEF SavePrice, Begins, Operations
<1>3. CASE Prune(h)
  BY <1>3 DEF Prune, Begins, Operations
<1>4. CASE ConfigReload(h)
  BY <1>4 DEF ConfigReload, Begins, Operations
<1>5. CASE LoadModels(h)
  BY <1>5 DEF LoadModels, ReadRows, ReadFaceRows
<1>6. QED
  BY <1>1, <1>2, <1>3, <1>4, <1>5

LEMMA Kinds ==
  ASSUME HandlersTypeOK, NEW h \in Handlers, Handler(h) PROVE Begins(h) \/ Moves(h) \/ Ended(h)
BY KindsOfReload, KindsOfKeys, KindsOfStations, KindsOfModels DEF Handler

-----------------------------------------------------------------------------
(* Types.                                                                  *)

LEMMA NobodyFits == Nobody \in MyType /\ Fit("idle", Nobody) /\ Fit("done", Nobody)
<1>1. Nobody.map = NoMap /\ Nobody.built = {} /\ Nobody.map \in PoolMaps /\ Nobody.rows \in Cells
  BY DEF Nobody, NoMap, PoolMaps, Cells
<1>2. Nobody \in MyType
  BY DEF Nobody, MyType, PoolMaps, Cells
<1>3. QED
  BY <1>1, <1>2 DEF Fit

Fits(h) == my'[h] \in MyType /\ Fit(pc'[h], my'[h])

LEMMA PutFits ==
  ASSUME HandlersTypeOK, NEW h \in Handlers, NEW l \in Places, NEW m \in MyType,
         pc' = [pc EXCEPT ![h] = l] \/ Go(h, l), Put(h, m), Fit(l, m)
  PROVE  Fits(h)
BY DEF HandlersTypeOK, Go, Put, Fits

LEMMA KeepFits ==
  ASSUME HandlersTypeOK, NEW h \in Handlers, NEW l \in Places,
         Go(h, l), Keep, Fit(l, my[h])
  PROVE  Fits(h)
BY DEF HandlersTypeOK, Go, Keep, Fits

LEMMA EndFits ==
  ASSUME HandlersTypeOK, NEW h \in Handlers, NEW c, Finish(h, c) \/ Ends(h, c)
  PROVE  Fits(h)
BY NobodyFits DEF HandlersTypeOK, Ends, Finish, Fits

LEMMA BeginFits ==
  ASSUME HandlersTypeOK, Shapes, NEW h \in Handlers, NEW op, NEW target \in Vendors \cup Keys \cup {"all", "none"},
         NEW l \in Places, Begin(h, op, l, target),
         l \in {"create", "find"} => target \in Keys,
         l \in {"insert", "get", "faces"} => target \in Stations,
         l \in {"syncNames", "price", "count"} => target \in Vendors,
         l \in {"create", "find", "insert", "get", "faces", "syncNames", "price", "count",
                "replace", "relays", "billing"}
  PROVE  Fits(h)
<1> DEFINE m == [Nobody EXCEPT !.target = target]
<1>1. my[h] = Nobody
  BY DEF Shapes, Fit, Begin
<1>2. my'[h] = m /\ pc'[h] = l
  BY <1>1 DEF HandlersTypeOK, Begin
<1>3. m \in MyType /\ m.target = target /\ m.merged = {} /\ m.built = {} /\ m.map = NoMap
  BY NobodyFits DEF MyType, Nobody, NoMap
<1> HIDE DEF m
<1>4. Fit(l, m)
  BY <1>3 DEF Fit
<1>5. QED
  BY <1>2, <1>3, <1>4 DEF Fits

LEMMA PoolBuilt ==
  ASSUME AdminTypeOK, NEW v \in Names, NEW h \in Handlers, NEW fails \in BOOLEAN
  PROVE  /\ BuildOnePool(v, h, fails) \in PoolType
         /\ BuildOnePool(v, h, fails).vendor = v
         /\ ~fails => BuildOnePool(v, h, fails).keys = KeysOf(v)
BY DEF AdminTypeOK, PoolsTypeOK, BuildOnePool, Pool, PoolType, KeysOf

LEMMA UnderType ==
  ASSUME NEW map \in PoolMaps, NEW names, NEW p \in PoolType
  PROVE  Under(map, names, p) \in PoolMaps
BY DEF Under, PoolMaps

\* What a handler at one of the places below works with.
LEMMA Held ==
  ASSUME AdminTypeOK, Shapes, NEW h \in Handlers
  PROVE  /\ my[h] \in MyType /\ Fit(pc[h], my[h]) /\ pc[h] \in Places
         /\ my[h].todo \subseteq Names /\ my[h].map \in PoolMaps /\ my[h].built \subseteq PoolType
         /\ my[h].covers \subseteq Vendors \cup {"stations", "leftovers", "unsynced"}
         /\ my[h].list \subseteq Stations \X SUBSET Keys
         /\ my[h].offers \subseteq Faces \X Models /\ my[h].rows \in Cells
<1>1. my[h] \in MyType /\ pc[h] \in Places
  BY DEF AdminTypeOK, HandlersTypeOK
<1>2. QED
  BY <1>1 DEF Shapes, MyType

LEMMA ReloadFits ==
  ASSUME AdminTypeOK, Shapes, NEW h \in Handlers, ReloadPool(h) PROVE Fits(h)
<1>h. HandlersTypeOK /\ registered \subseteq RelayFaces /\ loaded \subseteq Faces
  BY DEF AdminTypeOK, ProvidersTypeOK
<1>m. my[h] \in MyType /\ Fit(pc[h], my[h])
  BY Held
<1> USE DEF At
<1>1. CASE ReloadNames(h)
  <2> DEFINE v == my[h].target
             its == IF v = "all" THEN Configured ELSE {f \in loaded : VendorFor(f) = v}
             todo == IF its = {} /\ v # "all" THEN {v} ELSE its
             covers == my[h].covers \cup IF v = "all" THEN Vendors ELSE {v}
             m == [my[h] EXCEPT !.todo = todo, !.covers = covers]
             l == IF v = "all" THEN "visit" ELSE "build"
  <2>1. v \in Vendors \cup {"all"} /\ my[h].built = {} /\ my[h].map = NoMap
    BY <1>1, <1>m DEF ReloadNames, Fit
  <2>2. todo \subseteq Names /\ (v = "all" => todo = Configured)
    BY <1>h, <2>1, NamesSorted
  <2>3. covers \subseteq Vendors \cup {"stations", "leftovers", "unsynced"}
    BY <1>m, <2>1 DEF MyType
  <2>4. Put(h, m) /\ Go(h, l)
    BY <1>1 DEF ReloadNames
  <2> HIDE DEF todo, covers
  <2>5. m \in MyType /\ m.todo = todo /\ m.target = v /\ m.built = {} /\ m.map = NoMap
    BY <1>m, <2>1, <2>2, <2>3 DEF MyType
  <2> HIDE DEF m
  <2>6. v = "all" => v \notin Vendors
    BY NamesSorted DEF Tags
  <2>7. Fit(l, m)
    BY <2>1, <2>2, <2>5, <2>6 DEF Fit
  <2>8. l \in Places
    BY DEF Places
  <2>9. QED
    BY <1>h, <2>4, <2>5, <2>7, <2>8, PutFits
<1>2. ASSUME NEW v \in Names, NEW fails \in BOOLEAN, Build(h, v, fails), NEW l \in {"copy", "visit"},
             pc' = [pc EXCEPT ![h] = l],
             l = "copy" => my[h].target \in Vendors,
             l = "visit" => pc[h] = "visit"
      PROVE  Fits(h)
  <2> DEFINE p == BuildOnePool(v, h, fails)
             covers == IF fails THEN {} ELSE my[h].covers
             m == [my[h] EXCEPT !.built = @ \cup {p}, !.covers = covers]
  <2>1. p \in PoolType
    BY <1>2, PoolBuilt
  <2>2. covers \subseteq Vendors \cup {"stations", "leftovers", "unsynced"}
    BY <1>m DEF MyType
  <2>3. Put(h, m)
    BY <1>2 DEF Build
  <2> HIDE DEF p, covers
  <2>4. m \in MyType /\ m.todo = my[h].todo /\ m.target = my[h].target
    BY <1>m, <2>1, <2>2 DEF MyType
  <2> HIDE DEF m
  <2>5. Fit(l, m)
    BY <1>2, <1>m, <2>4 DEF Fit
  <2>6. l \in Places
    BY DEF Places
  <2>7. QED
    BY <1>2, <1>h, <2>3, <2>4, <2>5, <2>6, PutFits
<1>3. CASE ReloadBuilds(h)
  <2>1. my[h].target \in Vendors /\ my[h].target \in Names
    BY <1>3, <1>m, NamesSorted DEF ReloadBuilds, Fit
  <2>2. PICK fails \in BOOLEAN : Build(h, my[h].target, fails) /\ pc' = [pc EXCEPT ![h] = "copy"]
    BY <1>3 DEF ReloadBuilds, Go
  <2>3. QED
    BY <1>2, <2>1, <2>2
<1>4. CASE ReloadCopies(h)
  <2>1. PICK p \in my[h].built : Put(h, [my[h] EXCEPT !.map = Under(serverPools, {p.vendor}, p)])
    BY <1>4 DEF ReloadCopies
  <2> DEFINE map == Under(serverPools, {p.vendor}, p)
             m == [my[h] EXCEPT !.map = map]
  <2>2. map \in PoolMaps
    BY <1>m, <2>1, UnderType DEF MyType, AdminTypeOK, PoolsTypeOK
  <2> HIDE DEF map
  <2>3. m \in MyType /\ m.target = my[h].target
    BY <1>m, <2>2 DEF MyType
  <2>4. Put(h, m) /\ Go(h, "visit")
    BY <1>4, <2>1 DEF ReloadCopies, map
  <2> HIDE DEF m
  <2>5. m.target \in Vendors /\ m.target \notin {"all", "relays"}
    BY <1>4, <1>m, <2>3, NamesSorted DEF ReloadCopies, Fit, Tags
  <2>6. Fit("visit", m)
    BY <2>5 DEF Fit
  <2>7. "visit" \in Places
    BY DEF Places
  <2>8. QED
    BY <1>h, <2>3, <2>4, <2>6, <2>7, PutFits
<1>5. CASE ReloadVisits(h)
  <2>1. PICK f \in my[h].todo :
          LET v == IF Full(h) THEN VendorFor(f) ELSE my[h].target IN
          \/ \E fails \in BOOLEAN : Build(h, v, fails) /\ (Stay(h) \/ UNCHANGED pc)
          \/ \E p \in Built(h, v) :
               /\ Put(h, [my[h] EXCEPT !.todo = @ \ {f}, !.map = Under(@, Entered(h, f, v), p)])
               /\ Stay(h)
    BY <1>5 DEF ReloadVisits
  <2> DEFINE v == IF Full(h) THEN VendorFor(f) ELSE my[h].target
  <2>2. pc[h] = "visit" /\ f \in Names /\ my[h].target \in Vendors \cup {"all", "relays"}
    BY <1>5, <1>m, <2>1 DEF ReloadVisits, Fit, MyType
  <2>3. v \in Names
    BY <1>h, <2>2, VendorForType, NamesSorted DEF Full
  <2>4. ASSUME NEW fails \in BOOLEAN, Build(h, v, fails), Stay(h) \/ UNCHANGED pc PROVE Fits(h)
    <3>1. pc' = [pc EXCEPT ![h] = "visit"]
      BY <1>h, <2>2, <2>4 DEF Stay, Go, HandlersTypeOK
    <3> HIDE DEF v
    <3>2. QED
      BY <1>2, <2>2, <2>3, <2>4, <3>1
  <2>5. ASSUME NEW p \in Built(h, v), Stay(h),
               Put(h, [my[h] EXCEPT !.todo = @ \ {f}, !.map = Under(@, Entered(h, f, v), p)])
        PROVE  Fits(h)
    <3> DEFINE map == Under(my[h].map, Entered(h, f, v), p)
               todo == my[h].todo \ {f}
               m == [my[h] EXCEPT !.todo = todo, !.map = map]
    <3>1. map \in PoolMaps
      BY <1>m, UnderType DEF Built, MyType
    <3>2. todo \subseteq my[h].todo /\ todo \subseteq Names
      BY <1>m DEF MyType
    <3>3. Put(h, m) /\ Go(h, "visit")
      BY <2>2, <2>5 DEF Stay
    <3> HIDE DEF map, todo
    <3>4. m \in MyType /\ m.target = my[h].target /\ m.todo = todo
      BY <1>m, <3>1, <3>2 DEF MyType
    <3> HIDE DEF m
    <3>5. Fit("visit", m)
      BY <1>m, <2>2, <3>2, <3>4 DEF Fit
    <3>6. "visit" \in Places
      BY DEF Places
    <3>7. QED
      BY <1>h, <3>3, <3>4, <3>5, <3>6, PutFits
  <2>6. QED
    BY <2>1, <2>4, <2>5
<1>6. CASE ReloadRelays(h)
  <2>1. CASE my[h].target = "all"
    <3> DEFINE todo == {f \in loaded : IsRelay(f)}
               m == [my[h] EXCEPT !.todo = todo, !.target = "relays"]
    <3>1. todo \subseteq RelayFaces /\ todo \subseteq Names
      BY <1>h, NamesSorted DEF IsRelay
    <3>2. Put(h, m) /\ Go(h, "visit")
      BY <1>6, <2>1 DEF ReloadRelays, Stay
    <3> HIDE DEF todo
    <3>3. m \in MyType /\ m.target = "relays" /\ m.todo = todo
      BY <1>m, <3>1 DEF MyType
    <3> HIDE DEF m
    <3>4. Fit("visit", m)
      BY <3>1, <3>3 DEF Fit
    <3>5. "visit" \in Places
      BY DEF Places
    <3>6. QED
      BY <1>h, <3>2, <3>3, <3>4, <3>5, PutFits
  <2>2. CASE my[h].target # "all"
    <3>1. Keep /\ Go(h, "server")
      BY <1>6, <2>2 DEF ReloadRelays
    <3>2. "server" \in Places /\ Fit("server", my[h])
      BY DEF Places, Fit
    <3>3. QED
      BY <1>h, <3>1, <3>2, KeepFits
  <2>3. QED
    BY <2>1, <2>2
<1>7. CASE ReloadSwaps(h)
  <2>1. ASSUME NEW l \in {"router", "quota"}, Keep, Go(h, l) PROVE Fits(h)
    <3>1. l \in Places /\ Fit(l, my[h])
      BY DEF Places, Fit
    <3>2. QED
      BY <1>h, <2>1, <3>1, KeepFits
  <2>2. QED
    BY <1>7, <1>h, <2>1, EndFits DEF ReloadSwaps
<1>8. QED
  BY <1>1, <1>3, <1>4, <1>5, <1>6, <1>7 DEF ReloadPool


LEMMA KeysFit ==
  ASSUME AdminTypeOK, Shapes, NEW h \in Handlers, CreateKey(h) \/ DeleteKey(h) \/ PutRouteOrder(h)
  PROVE  Fits(h)
<1>h. HandlersTypeOK /\ orderRows \subseteq Vendors
  BY DEF AdminTypeOK, StationsTypeOK
<1>m. my[h] \in MyType /\ Fit(pc[h], my[h])
  BY Held
<1> USE DEF At
<1>1. CASE \E k \in Keys : Begin(h, "createKey", "create", k) \/ Begin(h, "deleteKey", "find", k)
  BY <1>1, <1>h, BeginFits DEF Places
<1>2. CASE Begin(h, "order", "replace", "none")
  BY <1>2, <1>h, BeginFits DEF Places
<1>3. CASE \E c : Ends(h, c)
  BY <1>3, <1>h, EndFits
<1>4. ASSUME NEW v \in Vendors \cup {"all"}, pc[h] \in {"create", "delete"},
             Put(h, [my[h] EXCEPT !.target = v]), Go(h, "names")
      PROVE  Fits(h)
  <2> DEFINE m == [my[h] EXCEPT !.target = v]
  <2>1. m \in MyType /\ m.target = v /\ m.built = my[h].built /\ m.map = my[h].map
    BY <1>m DEF MyType
  <2> HIDE DEF m
  <2>2. Fit("names", m)
    BY <1>4, <1>m, <2>1 DEF Fit
  <2>3. QED
    BY <1>4, <1>h, <2>1, <2>2, PutFits DEF m, Places
<1>5. CASE At(h, "create") /\ CreateKey(h)
  <2>1. my[h].target \in Keys
    BY <1>5, <1>m DEF Fit
  <2>2. KeyOwner[my[h].target] \in Vendors
    BY <2>1, PoolsAssumption
  <2>3. QED
    BY <1>3, <1>4, <1>5, <2>2 DEF CreateKey, Begin
<1>6. CASE At(h, "find") /\ DeleteKey(h)
  <2>1. PICK v : /\ v = KeyOwner[my[h].target] \/ v = "all"
                 /\ Put(h, [my[h] EXCEPT !.seen = {v}])
    BY <1>6 DEF DeleteKey, Begin
  <2>2. pc' = [pc EXCEPT ![h] = "delete"]
    BY <1>6 DEF DeleteKey, Begin
  <2>3. my[h].target \in Keys /\ v \in Vendors \cup {"all"}
    BY <1>6, <1>m, <2>1, PoolsAssumption DEF Fit
  <2> DEFINE m == [my[h] EXCEPT !.seen = {v}]
  <2>4. m \in MyType /\ m.seen = {v} /\ m.target = my[h].target /\ m.built = my[h].built
        /\ m.map = my[h].map
    BY <1>m, <2>3, NamesSorted DEF MyType
  <2> HIDE DEF m
  <2>5. Fit("delete", m)
    BY <1>6, <1>m, <2>3, <2>4 DEF Fit
  <2>6. QED
    BY <1>h, <2>1, <2>2, <2>4, <2>5, PutFits DEF m, Places
<1>7. CASE At(h, "delete") /\ DeleteKey(h)
  <2>1. PICK v \in Vendors \cup {"all"} : my[h].seen = {v}
    BY <1>7, <1>m DEF Fit
  <2>2. (CHOOSE u \in my[h].seen : TRUE) = v
    BY <2>1
  <2>3. QED
    BY <1>3, <1>4, <1>7, <2>2 DEF DeleteKey, Begin
<1>8. CASE ReplaceOrder(h)
  <2>1. Fit("readOrder", my[h])
    BY <1>8, <1>m DEF ReplaceOrder, Fit
  <2>2. QED
    BY <1>8, <1>h, <2>1, KeepFits DEF ReplaceOrder, Places
<1>9. CASE ReloadProviderOrder(h) /\ At(h, "readOrder")
  <2> DEFINE m == [my[h] EXCEPT !.seen = orderRows]
  <2>1. m \in MyType /\ m.seen = orderRows /\ m.built = my[h].built /\ m.map = my[h].map
    BY <1>h, <1>m, NamesSorted DEF MyType
  <2>2. Put(h, m) /\ Go(h, "setOrder")
    BY <1>9 DEF ReloadProviderOrder
  <2> HIDE DEF m
  <2>3. Fit("setOrder", m)
    BY <1>9, <1>h, <1>m, <2>1 DEF Fit
  <2>4. QED
    BY <1>h, <2>1, <2>2, <2>3, PutFits DEF Places
<1>10. CASE CreateKey(h)
  BY <1>1, <1>5, <1>10 DEF CreateKey
<1>11. CASE DeleteKey(h)
  BY <1>1, <1>6, <1>7, <1>11 DEF DeleteKey
<1>12. CASE PutRouteOrder(h)
  BY <1>2, <1>3, <1>8, <1>9, <1>12 DEF PutRouteOrder, ReloadProviderOrder
<1>13. QED
  BY <1>10, <1>11, <1>12

LEMMA ModelsFit ==
  ASSUME AdminTypeOK, Shapes, NEW h \in Handlers,
         SyncModels(h) \/ SavePrice(h) \/ Prune(h) \/ ConfigReload(h) \/ LoadModels(h)
  PROVE  Fits(h)
<1>h. HandlersTypeOK /\ loaded \subseteq Faces /\ modelRows \in Cells /\ faceRows \subseteq Faces \X Models
  BY DEF AdminTypeOK, ProvidersTypeOK, CatalogTypeOK
<1>m. my[h] \in MyType /\ Fit(pc[h], my[h])
  BY Held
<1> USE DEF At
<1>1. CASE \E v \in Vendors : \/ Begin(h, "sync", "syncNames", v)
                              \/ Begin(h, "savePrice", "price", v)
                              \/ Begin(h, "prune", "count", v)
  BY <1>1, <1>h, BeginFits DEF Places
<1>2. CASE Begin(h, "config", "billing", "none")
  BY <1>2, <1>h, BeginFits DEF Places
<1>3. CASE \E c : Ends(h, c) \/ Finish(h, c)
  BY <1>3, <1>h, EndFits
<1>4. ASSUME Keep, NEW l \in {"prices", "rows", "orphans"}, Go(h, l),
             pc[h] \in {"list", "prices", "upsert", "price", "count", "orphans", "billing"},
             l = "prices" => pc[h] = "list",
             l = "orphans" => pc[h] = "count"
      PROVE  Fits(h)
  <2>1. Fit(l, my[h])
    BY <1>4, <1>m DEF Fit
  <2>2. QED
    BY <1>4, <1>h, <2>1, KeepFits DEF Places
<1>5. CASE SyncModels(h)
  <2>1. CASE At(h, "syncNames")
    <3> DEFINE todo == {f \in loaded : VendorFor(f) = my[h].target}
               m == [my[h] EXCEPT !.todo = todo]
    <3>1. Put(h, m) /\ Go(h, "list")
      BY <1>5, <2>1 DEF SyncModels, Begin, SyncLists, SyncEnds, SyncUpserts, Fails
    <3>2. todo \subseteq Faces /\ todo \subseteq Names
      BY <1>h, NamesSorted
    <3> HIDE DEF todo
    <3>3. m \in MyType /\ m.todo = todo /\ m.target = my[h].target /\ m.merged = my[h].merged
          /\ m.built = my[h].built /\ m.map = my[h].map
      BY <1>m, <3>2 DEF MyType
    <3> HIDE DEF m
    <3>4. Fit("list", m)
      BY <2>1, <1>m, <3>2, <3>3 DEF Fit
    <3>5. QED
      BY <1>h, <3>1, <3>3, <3>4, PutFits DEF Places
  <2>2. CASE SyncLists(h)
    <3>1. PICK f \in my[h].todo, ms \in SUBSET Models :
            Put(h, [my[h] EXCEPT !.todo = @ \ {f}, !.merged = @ \cup ms]) \/ Put(h, [my[h] EXCEPT !.todo = @ \ {f}])
      BY <2>2 DEF SyncLists
    <3>2. pc[h] = "list" /\ Go(h, "list")
      BY <2>2 DEF SyncLists, Stay
    <3>3. my[h].todo \ {f} \subseteq Faces /\ my[h].todo \ {f} \subseteq Names
          /\ my[h].merged \cup ms \subseteq Models
      BY <1>m, <3>2, NamesSorted DEF Fit
    <3>4. ASSUME NEW merged \in SUBSET Models, Put(h, [my[h] EXCEPT !.todo = @ \ {f}, !.merged = merged])
          PROVE  Fits(h)
      <4> DEFINE m == [my[h] EXCEPT !.todo = @ \ {f}, !.merged = merged]
      <4>1. m \in MyType /\ m.todo = my[h].todo \ {f} /\ m.target = my[h].target /\ m.merged = merged
            /\ m.built = my[h].built /\ m.map = my[h].map
        BY <1>m, <3>3, <3>4 DEF MyType
      <4> HIDE DEF m
      <4>2. Fit("list", m)
        BY <1>m, <3>2, <3>3, <3>4, <4>1 DEF Fit
      <4>3. QED
        BY <1>h, <3>2, <3>4, <4>1, <4>2, PutFits DEF m, Places
    <3>5. CASE Put(h, [my[h] EXCEPT !.todo = @ \ {f}, !.merged = @ \cup ms])
      BY <3>3, <3>4, <3>5
    <3>6. CASE Put(h, [my[h] EXCEPT !.todo = @ \ {f}])
      <4>1. [my[h] EXCEPT !.todo = @ \ {f}] = [my[h] EXCEPT !.todo = @ \ {f}, !.merged = my[h].merged]
        BY <1>m DEF MyType
      <4>2. my[h].merged \in SUBSET Models
        BY <3>3
      <4>3. QED
        BY <3>4, <3>6, <4>1, <4>2
    <3>7. QED
      BY <3>1, <3>5, <3>6
  <2>3. CASE SyncEnds(h)
    BY <1>3, <1>4, <2>3 DEF SyncEnds
  <2>4. CASE SyncUpserts(h) /\ At(h, "prices")
    <3> DEFINE m == [my[h] EXCEPT !.rows = modelRows]
    <3>1. m \in MyType /\ m.target = my[h].target /\ m.merged = my[h].merged
          /\ m.built = my[h].built /\ m.map = my[h].map
      BY <1>h, <1>m DEF MyType
    <3>2. Put(h, m) /\ Go(h, "upsert")
      BY <2>4 DEF SyncUpserts
    <3> HIDE DEF m
    <3>3. Fit("upsert", m)
      BY <1>m, <2>4, <3>1 DEF Fit
    <3>4. QED
      BY <1>h, <3>1, <3>2, <3>3, PutFits DEF Places
  <2>5. CASE SyncUpserts(h) /\ At(h, "upsert")
    BY <1>4, <2>5 DEF SyncUpserts
  <2>6. CASE SyncUpserts(h)
    BY <2>4, <2>5, <2>6 DEF SyncUpserts
  <2>7. QED
    BY <1>1, <1>3, <1>5, <2>1, <2>2, <2>3, <2>6 DEF SyncModels, Fails
<1>6. CASE SavePrice(h)
  BY <1>1, <1>4, <1>6 DEF SavePrice
<1>7. CASE Prune(h)
  BY <1>1, <1>4, <1>7 DEF Prune
<1>8. CASE ConfigReload(h)
  BY <1>2, <1>4, <1>8 DEF ConfigReload
<1>9. CASE LoadModels(h)
  <2>1. CASE ReadRows(h)
    <3> DEFINE m == [my[h] EXCEPT !.rows = modelRows]
    <3>1. m \in MyType /\ m.built = my[h].built /\ m.map = my[h].map
      BY <1>h, <1>m DEF MyType
    <3>2. Put(h, m) /\ Go(h, "faceList") /\ pc[h] = "rows"
      BY <2>1 DEF ReadRows
    <3> HIDE DEF m
    <3>3. Fit("faceList", m)
      BY <1>m, <3>1, <3>2 DEF Fit
    <3>4. QED
      BY <1>h, <3>1, <3>2, <3>3, PutFits DEF Places
  <2>2. CASE ReadFaceRows(h)
    <3> DEFINE m == [my[h] EXCEPT !.offers = faceRows]
    <3>1. m \in MyType /\ m.built = my[h].built /\ m.map = my[h].map
      BY <1>h, <1>m DEF MyType
    <3>2. Put(h, m) /\ Go(h, "install") /\ pc[h] = "faceList"
      BY <2>2 DEF ReadFaceRows
    <3> HIDE DEF m
    <3>3. Fit("install", m)
      BY <1>m, <3>1, <3>2 DEF Fit
    <3>4. QED
      BY <1>h, <3>1, <3>2, <3>3, PutFits DEF Places
  <2>3. QED
    BY <1>3, <1>9, <2>1, <2>2 DEF LoadModels
<1>10. QED
  BY <1>5, <1>6, <1>7, <1>8, <1>9

LEMMA StationsFit ==
  ASSUME AdminTypeOK, Shapes, NEW h \in Handlers,
         CreateStation(h) \/ UpdateStation(h) \/ DeleteStation(h)
  PROVE  Fits(h)
<1>h. HandlersTypeOK
  BY DEF AdminTypeOK
<1>m. my[h] \in MyType /\ Fit(pc[h], my[h])
  BY Held
<1> USE DEF At
<1>1. CASE \E s \in Stations : \/ Begin(h, "createStation", "insert", s)
                               \/ Begin(h, "updateStation", "get", s)
                               \/ Begin(h, "deleteStation", "faces", s)
  BY <1>1, <1>h, BeginFits, NamesSorted DEF Places
<1>2. CASE \E c : Ends(h, c) \/ Finish(h, c)
  BY <1>2, <1>h, EndFits
<1>3. ASSUME Keep, NEW l \in {"save", "relays", "purge"}, Go(h, l),
             pc[h] \in {"insert", "get", "save", "faceRows", "purge"}
      PROVE  Fits(h)
  <2>1. Fit(l, my[h])
    BY <1>3, <1>m DEF Fit
  <2>2. QED
    BY <1>3, <1>h, <2>1, KeepFits DEF Places
<1>4. CASE CreateStation(h)
  BY <1>1, <1>2, <1>3, <1>4 DEF CreateStation, SaveStation
<1>5. CASE UpdateStation(h)
  BY <1>1, <1>2, <1>3, <1>5 DEF UpdateStation, SaveStation
<1>6. CASE DeleteStation(h)
  <2>1. CASE At(h, "faces")
    <3> DEFINE seen == IF my[h].target \in stationRows THEN FacesOf[my[h].target] ELSE {}
               m == [my[h] EXCEPT !.seen = seen]
    <3>1. Put(h, m) /\ Go(h, "drop")
      BY <1>6, <2>1 DEF DeleteStation, Begin, DropFaceRows, DropOrder, PurgeKeys, Fails
    <3>2. my[h].target \in Stations
      BY <1>m, <2>1 DEF Fit
    <3>3. seen \subseteq Faces /\ seen \subseteq Names
      BY <3>2, NamesSorted
    <3> HIDE DEF seen
    <3>4. m \in MyType /\ m.seen = seen /\ m.target = my[h].target
          /\ m.built = my[h].built /\ m.map = my[h].map
      BY <1>m, <3>3 DEF MyType
    <3> HIDE DEF m
    <3>5. Fit("drop", m)
      BY <1>m, <2>1, <3>2, <3>3, <3>4 DEF Fit
    <3>6. QED
      BY <1>h, <3>1, <3>4, <3>5, PutFits DEF Places
  <2>2. CASE At(h, "drop")
    <3> DEFINE m == [my[h] EXCEPT !.todo = my[h].seen]
    <3>1. Put(h, m) /\ Go(h, "faceRows")
      BY <1>6, <2>2 DEF DeleteStation, Begin, DropFaceRows, DropOrder, PurgeKeys, Fails
    <3>2. my[h].seen \subseteq Faces /\ my[h].seen \subseteq Names
      BY <1>m, <2>2, NamesSorted DEF Fit
    <3>3. m \in MyType /\ m.todo = my[h].seen /\ m.target = my[h].target
          /\ m.built = my[h].built /\ m.map = my[h].map
      BY <1>m, <3>2 DEF MyType
    <3> HIDE DEF m
    <3>4. Fit("faceRows", m)
      BY <1>m, <2>2, <3>2, <3>3 DEF Fit
    <3>5. QED
      BY <1>h, <3>1, <3>3, <3>4, PutFits DEF Places
  <2>3. CASE DropFaceRows(h)
    <3>1. PICK f \in my[h].todo : Put(h, [my[h] EXCEPT !.todo = @ \ {f}])
      BY <2>3 DEF DropFaceRows
    <3> DEFINE m == [my[h] EXCEPT !.todo = @ \ {f}]
    <3>2. m \in MyType /\ m.todo \subseteq my[h].todo /\ m.target = my[h].target
          /\ m.built = my[h].built /\ m.map = my[h].map
      BY <1>m DEF MyType
    <3>3. Put(h, m) /\ Go(h, "faceRows") /\ pc[h] = "faceRows"
      BY <2>3, <3>1 DEF DropFaceRows, Stay
    <3> HIDE DEF m
    <3>4. Fit("faceRows", m)
      BY <1>m, <3>2, <3>3 DEF Fit
    <3>5. QED
      BY <1>h, <3>2, <3>3, <3>4, PutFits DEF Places
  <2>4. CASE DropOrder(h)
    BY <1>3, <2>4 DEF DropOrder
  <2>5. CASE PurgeKeys(h)
    <3> DEFINE m == [my[h] EXCEPT !.seen = {}]
    <3>1. m \in MyType /\ m.built = my[h].built /\ m.map = my[h].map
      BY <1>m DEF MyType
    <3>2. Put(h, m) /\ Go(h, "relays") /\ pc[h] = "purge"
      BY <2>5 DEF PurgeKeys
    <3> HIDE DEF m
    <3>3. Fit("relays", m)
      BY <1>m, <3>1, <3>2 DEF Fit
    <3>4. QED
      BY <1>h, <3>1, <3>2, <3>3, PutFits DEF Places
  <2>6. QED
    BY <1>1, <1>2, <1>6, <2>1, <2>2, <2>3, <2>4, <2>5 DEF DeleteStation, Fails
<1>7. QED
  BY <1>4, <1>5, <1>6

LEMMA RelayFits ==
  ASSUME AdminTypeOK, Shapes, NEW h \in Handlers, ReloadStations(h) PROVE Fits(h)
<1>h. HandlersTypeOK /\ registered \subseteq RelayFaces /\ RelayFaces \subseteq Names
      /\ stationRows \subseteq Stations /\ columnKeys \in [Stations -> SUBSET Keys]
      /\ keyRows \subseteq Keys
  BY NamesSorted DEF AdminTypeOK, ProvidersTypeOK, StationsTypeOK, PoolsTypeOK
<1>m. my[h] \in MyType /\ Fit(pc[h], my[h])
  BY Held
<1> USE DEF At
<1>1. CASE Begin(h, "reload", "relays", "all")
  BY <1>1, <1>h, BeginFits DEF Places
<1>2. CASE Fails(h, "remove")
  BY <1>2, <1>h, EndFits DEF Fails
<1>3. CASE RelayList(h)
  <2> DEFINE todo == {f \in loaded : IsRelay(f)}
             covers == IF Leftovers THEN {"stations", "leftovers"} ELSE {"stations"}
             m == [my[h] EXCEPT !.todo = todo, !.covers = covers]
  <2>1. todo \subseteq RelayFaces /\ todo \subseteq Names
    BY <1>h DEF IsRelay
  <2>2. covers \subseteq {"stations", "leftovers"}
    OBVIOUS
  <2>3. Put(h, m) /\ Go(h, "remove") /\ pc[h] = "relays"
    BY <1>3 DEF RelayList
  <2> HIDE DEF todo, covers
  <2>4. m \in MyType /\ m.todo = todo /\ m.built = my[h].built /\ m.map = my[h].map
    BY <1>m, <2>1, <2>2 DEF MyType
  <2> HIDE DEF m
  <2>5. Fit("remove", m)
    BY <1>m, <2>1, <2>3, <2>4 DEF Fit
  <2>6. QED
    BY <1>h, <2>3, <2>4, <2>5, PutFits DEF Places
<1>4. CASE RelayRemoves(h) /\ At(h, "remove")
  <2>1. PICK f \in my[h].todo : Put(h, [my[h] EXCEPT !.seen = {f}])
    BY <1>4 DEF RelayRemoves
  <2> DEFINE m == [my[h] EXCEPT !.seen = {f}]
  <2>2. f \in Names
    BY <1>m DEF MyType
  <2>3. m \in MyType /\ m.todo = my[h].todo /\ m.seen = {f} /\ m.built = my[h].built
        /\ m.map = my[h].map
    BY <1>m, <2>2 DEF MyType
  <2>4. Put(h, m) /\ Go(h, "unregister")
    BY <1>4, <2>1 DEF RelayRemoves
  <2> HIDE DEF m
  <2>5. Fit("unregister", m)
    BY <1>4, <1>m, <2>3 DEF Fit
  <2>6. QED
    BY <1>h, <2>3, <2>4, <2>5, PutFits DEF Places
<1>5. CASE RelayRemoves(h) /\ At(h, "unregister")
  <2>1. PICK f \in my[h].seen : Put(h, [my[h] EXCEPT !.todo = @ \ {f}, !.seen = {}])
    BY <1>5 DEF RelayRemoves
  <2> DEFINE m == [my[h] EXCEPT !.todo = @ \ {f}, !.seen = {}]
  <2>2. m \in MyType /\ m.todo \subseteq my[h].todo /\ m.built = my[h].built /\ m.map = my[h].map
    BY <1>m DEF MyType
  <2>3. Put(h, m) /\ Go(h, "remove")
    BY <1>5, <2>1 DEF RelayRemoves
  <2> HIDE DEF m
  <2>4. Fit("remove", m)
    BY <1>5, <1>m, <2>2 DEF Fit
  <2>5. QED
    BY <1>h, <2>2, <2>3, <2>4, PutFits DEF Places
<1>6. CASE RelayRows(h)
  <2> DEFINE list == {<<s, columnKeys[s]>> : s \in stationRows}
             m == [my[h] EXCEPT !.list = list]
  <2>1. list \subseteq Stations \X SUBSET Keys
    BY <1>h
  <2>2. Put(h, m) /\ Go(h, "station") /\ pc[h] = "remove"
    BY <1>6 DEF RelayRows
  <2> HIDE DEF list
  <2>3. m \in MyType /\ m.built = my[h].built /\ m.map = my[h].map
    BY <1>m, <2>1 DEF MyType
  <2> HIDE DEF m
  <2>4. Fit("station", m)
    BY <1>m, <2>2, <2>3 DEF Fit
  <2>5. QED
    BY <1>h, <2>2, <2>3, <2>4, PutFits DEF Places
<1>7. CASE RelaySync(h)
  <2>1. PICK st \in my[h].list :
          \/ /\ Put(h, [my[h] EXCEPT !.target = st[1], !.merged = st[2], !.seen = KeysOf(st[1])])
             /\ Go(h, "sync")
          \/ /\ Put(h, [my[h] EXCEPT !.target = st[1], !.merged = st[2], !.seen = FacesOf[st[1]],
                                      !.covers = @ \cup {"unsynced"}])
             /\ pc' = [pc EXCEPT ![h] = "register"]
    BY <1>7 DEF RelaySync
  <2>2. st \in Stations \X SUBSET Keys
    BY Held
  <2>3. st[1] \in Stations /\ st[1] \in Vendors /\ st[2] \subseteq Keys
        /\ KeysOf(st[1]) \subseteq Keys /\ FacesOf[st[1]] \subseteq Names
    BY <1>h, <2>2, NamesSorted DEF KeysOf
  <2>4. pc[h] = "station"
    BY <1>7 DEF RelaySync
  <2>5. CASE Put(h, [my[h] EXCEPT !.target = st[1], !.merged = st[2], !.seen = KeysOf(st[1])])
             /\ Go(h, "sync")
    <3> DEFINE seen == KeysOf(st[1])
               m == [my[h] EXCEPT !.target = st[1], !.merged = st[2], !.seen = seen]
    <3>1. Put(h, m) /\ Go(h, "sync")
      BY <2>5
    <3> HIDE DEF seen
    <3>2. m \in MyType /\ m.target = st[1] /\ m.seen = seen /\ m.merged = st[2]
          /\ m.built = my[h].built /\ m.map = my[h].map
      BY <1>m, <2>3 DEF MyType, seen
    <3>3. seen \subseteq Keys
      BY <2>3 DEF seen
    <3> HIDE DEF m
    <3>4. Fit("sync", m)
      BY <1>m, <2>3, <2>4, <3>2, <3>3 DEF Fit
    <3>5. QED
      BY <1>h, <3>1, <3>2, <3>4, PutFits DEF Places
  <2>6. CASE Put(h, [my[h] EXCEPT !.target = st[1], !.merged = st[2], !.seen = FacesOf[st[1]],
                                  !.covers = @ \cup {"unsynced"}])
             /\ pc' = [pc EXCEPT ![h] = "register"]
    <3> DEFINE m == [my[h] EXCEPT !.target = st[1], !.merged = st[2], !.seen = FacesOf[st[1]],
                                  !.covers = @ \cup {"unsynced"}]
    <3>1. Put(h, m)
      BY <2>6
    <3>2. m \in MyType /\ m.target = st[1] /\ m.seen = FacesOf[st[1]]
          /\ m.built = my[h].built /\ m.map = my[h].map
      BY <1>m, <2>3 DEF MyType
    <3> HIDE DEF m
    <3>3. Fit("register", m)
      BY <1>m, <2>3, <2>4, <3>2 DEF Fit
    <3>4. QED
      BY <1>h, <2>6, <3>1, <3>2, <3>3, PutFits DEF Places
  <2>7. QED
    BY <2>1, <2>5, <2>6
<1>8. ASSUME NEW seen \in SUBSET Keys, NEW covers \in {my[h].covers, my[h].covers \cup {"unsynced"}},
             At(h, "sync"), Put(h, [my[h] EXCEPT !.seen = seen, !.covers = covers]),
             pc' = [pc EXCEPT ![h] = "sync"]
      PROVE  Fits(h)
  <2> DEFINE m == [my[h] EXCEPT !.seen = seen, !.covers = covers]
  <2>1. m \in MyType /\ m.target = my[h].target /\ m.seen = seen /\ m.merged = my[h].merged
        /\ m.built = my[h].built /\ m.map = my[h].map
    BY <1>m, <1>8 DEF MyType
  <2>2. Put(h, m)
    BY <1>8
  <2> HIDE DEF m
  <2>3. Fit("sync", m)
    BY <1>8, <1>m, <2>1 DEF Fit
  <2>4. QED
    BY <1>h, <1>8, <2>1, <2>2, <2>3, PutFits DEF Places
<1>9. CASE RelaySyncWrites(h) /\ Go(h, "register")
           /\ Put(h, [my[h] EXCEPT !.seen = FacesOf[my[h].target]])
  <2> DEFINE m == [my[h] EXCEPT !.seen = FacesOf[my[h].target]]
  <2>0. At(h, "sync")
    BY <1>9 DEF RelaySyncWrites
  <2>1. my[h].target \in Stations /\ FacesOf[my[h].target] \subseteq Names
    BY <2>0, <1>m, NamesSorted DEF Fit
  <2>2. m \in MyType /\ m.target = my[h].target /\ m.seen = FacesOf[my[h].target]
        /\ m.built = my[h].built /\ m.map = my[h].map
    BY <1>m, <2>1 DEF MyType
  <2>3. Put(h, m) /\ Go(h, "register")
    BY <1>9
  <2> HIDE DEF m
  <2>4. Fit("register", m)
    BY <2>0, <1>m, <2>1, <2>2 DEF Fit
  <2>5. QED
    BY <1>h, <2>2, <2>3, <2>4, PutFits DEF Places
<1>10. CASE RelayRegisters(h) /\ At(h, "register") /\ my[h].seen # {}
  <2>1. PICK f \in my[h].seen : Put(h, [my[h] EXCEPT !.merged = {f}])
    BY <1>10 DEF RelayRegisters
  <2> DEFINE m == [my[h] EXCEPT !.merged = {f}]
  <2>2. f \in Faces
    BY <1>10, <1>m, NamesSorted DEF Fit
  <2>3. m \in MyType /\ m.target = my[h].target /\ m.seen = my[h].seen /\ m.merged = {f}
        /\ m.built = my[h].built /\ m.map = my[h].map
    BY <1>m, <2>2 DEF MyType
  <2>4. Put(h, m) /\ Go(h, "add")
    BY <1>10, <2>1 DEF RelayRegisters
  <2> HIDE DEF m
  <2>5. Fit("add", m)
    BY <1>10, <1>m, <2>1, <2>2, <2>3 DEF Fit
  <2>6. QED
    BY <1>h, <2>3, <2>4, <2>5, PutFits DEF Places
<1>11. CASE RelayRegisters(h) /\ At(h, "add")
  <2>1. PICK f \in my[h].merged : Put(h, [my[h] EXCEPT !.seen = @ \ {f}, !.merged = {}])
    BY <1>11 DEF RelayRegisters
  <2> DEFINE m == [my[h] EXCEPT !.seen = @ \ {f}, !.merged = {}]
  <2>2. m \in MyType /\ m.target = my[h].target /\ m.seen \subseteq my[h].seen
        /\ m.built = my[h].built /\ m.map = my[h].map
    BY <1>m DEF MyType
  <2>3. Put(h, m) /\ Go(h, "register")
    BY <1>11, <2>1 DEF RelayRegisters
  <2> HIDE DEF m
  <2>4. Fit("register", m)
    BY <1>11, <1>m, <2>2 DEF Fit
  <2>5. QED
    BY <1>h, <2>2, <2>3, <2>4, PutFits DEF Places
<1>12. CASE RelayRegisters(h) /\ At(h, "register") /\ my[h].seen = {}
  <2> DEFINE list == {st \in my[h].list : st[1] # my[h].target}
             m == [my[h] EXCEPT !.list = list]
  <2>1. list \subseteq my[h].list
    OBVIOUS
  <2>2. Put(h, m) /\ Go(h, "station")
    BY <1>12 DEF RelayRegisters
  <2> HIDE DEF list
  <2>3. m \in MyType /\ m.built = my[h].built /\ m.map = my[h].map
    BY <1>m, <2>1 DEF MyType
  <2> HIDE DEF m
  <2>4. Fit("station", m)
    BY <1>12, <1>m, <2>3 DEF Fit
  <2>5. QED
    BY <1>h, <2>2, <2>3, <2>4, PutFits DEF Places
<1>13. CASE RelayEnds(h)
  <2> DEFINE m == [my[h] EXCEPT !.target = "all", !.seen = {}, !.merged = {}]
  <2>1. m \in MyType /\ m.target = "all" /\ m.built = my[h].built /\ m.map = my[h].map
    BY <1>m DEF MyType
  <2>2. Put(h, m) /\ Go(h, "names") /\ pc[h] = "station"
    BY <1>13 DEF RelayEnds
  <2> HIDE DEF m
  <2>3. Fit("names", m)
    BY <1>m, <2>1, <2>2 DEF Fit
  <2>4. QED
    BY <1>h, <2>1, <2>2, <2>3, PutFits DEF Places
<1>14. CASE RelayRemoves(h)
  BY <1>4, <1>5, <1>14 DEF RelayRemoves
<1>15. CASE RelaySyncWrites(h)
  <2>1. /\ At(h, "sync") /\ my[h].seen \subseteq Keys /\ my[h].merged \subseteq Keys
        /\ my[h] = [my[h] EXCEPT !.covers = my[h].covers]
    BY <1>15, <1>m DEF RelaySyncWrites, Fit, MyType
  <2>2. \/ \E seen \in SUBSET Keys : Synced(h, seen) \/ Unsynced(h, seen)
        \/ Go(h, "register") /\ Put(h, [my[h] EXCEPT !.seen = FacesOf[my[h].target]])
    BY <1>15, <2>1 DEF RelaySyncWrites
  <2>3. CASE \E seen \in SUBSET Keys : Synced(h, seen) \/ Unsynced(h, seen)
    <3>1. PICK seen \in SUBSET Keys : Synced(h, seen) \/ Unsynced(h, seen)
      BY <2>3
    <3>2. pc' = [pc EXCEPT ![h] = "sync"]
      BY <1>h, <2>1, <3>1 DEF Synced, Unsynced, Stay, Go, HandlersTypeOK
    <3>3. \E covers \in {my[h].covers, my[h].covers \cup {"unsynced"}} :
            Put(h, [my[h] EXCEPT !.seen = seen, !.covers = covers])
      BY <1>m, <3>1 DEF Synced, Unsynced, MyType
    <3>4. QED
      BY <1>8, <2>1, <3>2, <3>3
  <2>4. QED
    BY <1>9, <1>15, <2>2, <2>3
<1>16. CASE RelayRegisters(h)
  BY <1>10, <1>11, <1>12, <1>16 DEF RelayRegisters
<1>17. QED
  BY <1>1, <1>2, <1>3, <1>6, <1>7, <1>13, <1>14, <1>15, <1>16 DEF ReloadStations

\* A handler's step leaves it with what its next steps rely on, and the others with
\* what they have.
LEMMA StepFits ==
  ASSUME AdminTypeOK, Shapes, NEW h \in Handlers, Handler(h) PROVE Fits(h)
BY ReloadFits, KeysFit, ModelsFit, StationsFit, RelayFits DEF Handler

LEMMA Others ==
  ASSUME HandlersTypeOK, NEW h \in Handlers, Handler(h), NEW g \in Handlers, g # h
  PROVE  pc'[g] = pc[g] /\ my'[g] = my[g]
<1>1. CASE Begins(h)
  BY <1>1 DEF HandlersTypeOK, Begins, Begin
<1>2. CASE Moves(h)
  BY <1>2 DEF HandlersTypeOK, Moves
<1>3. CASE Ended(h)
  BY <1>3 DEF HandlersTypeOK, Ended, Finish
<1>4. QED
  BY <1>1, <1>2, <1>3, Kinds

\* Removing a face takes no more than its own name and its vendor's.
LEMMA ProvidersTyped ==
  ASSUME AdminTypeOK, Shapes, NEW h \in Handlers, Handler(h) PROVE ProvidersTypeOK'
<1>h. /\ loaded \subseteq Faces /\ registered \subseteq RelayFaces
      /\ endpoints \subseteq Names /\ billing \subseteq Names
  BY DEF AdminTypeOK, ProvidersTypeOK
<1>m. my[h] \in MyType /\ Fit(pc[h], my[h])
  BY Held
<1>v. \A f \in Faces : VendorFor(f) \in Names
  BY <1>h, VendorForType, NamesSorted
<1> USE DEF At, ProvidersTypeOK
<1>1. CASE UNCHANGED providers
  BY <1>1, <1>h DEF providers
<1>2. CASE RelayRemoves(h)
  BY <1>2, <1>h DEF RelayRemoves, RemoveProvider, UnregisterRelay
<1>3. CASE RelayRegisters(h)
  <2>1. ASSUME NEW f \in my[h].seen, pc[h] = "register", RegisterRelay(f) PROVE ProvidersTypeOK'
    <3>1. f \in RelayFaces
      BY <1>m, <2>1, NamesSorted DEF Fit
    <3>2. QED
      BY <1>h, <2>1, <3>1 DEF RegisterRelay
  <2>2. ASSUME NEW f \in my[h].merged, pc[h] = "add", AddProvider(f) PROVE ProvidersTypeOK'
    <3>1. f \in Faces /\ f \in Names /\ VendorFor(f) \in Names
      BY <1>m, <1>v, <2>2, NamesSorted DEF Fit
    <3>2. QED
      BY <1>h, <2>2, <3>1 DEF AddProvider
  <2>3. QED
    BY <1>1, <1>3, <2>1, <2>2 DEF RelayRegisters, Same
<1>4. CASE At(h, "billing") /\ ConfigReload(h)
  <2>1. ReloadPricing
    BY <1>4 DEF ConfigReload, Begin
  <2>2. UNION {{f, VendorFor(f)} : f \in loaded \ Configured} \subseteq Names
    BY <1>h, <1>v, NamesSorted
  <2>3. QED
    BY <1>h, <2>1, <2>2, NamesSorted DEF ReloadPricing
<1>5. QED
  BY <1>1, <1>2, <1>3, <1>4, ProvidersTouched

LEMMA FaceRowsTyped ==
  ASSUME CatalogTypeOK, NEW f \in Faces, NEW ms \in SUBSET Models, ReplaceFaceModels(f, ms)
  PROVE  CatalogTypeOK'
BY DEF CatalogTypeOK, ReplaceFaceModels, Cached

LEMMA CatalogTyped ==
  ASSUME AdminTypeOK, Shapes, NEW h \in Handlers, Handler(h) PROVE CatalogTypeOK'
<1>h. CatalogTypeOK
  BY DEF AdminTypeOK
<1>m. my[h] \in MyType /\ Fit(pc[h], my[h])
  BY Held
<1> USE DEF At
<1>1. CASE UNCHANGED catalog
  BY <1>1, <1>h DEF catalog, CatalogTypeOK
<1>2. CASE DropFaceRows(h)
  <2>1. PICK f \in my[h].todo : DeleteFaceModels(f)
    BY <1>2 DEF DropFaceRows
  <2>2. f \in Faces
    BY <1>2, <1>m DEF DropFaceRows, Fit
  <2>3. QED
    BY <1>h, <2>1, <2>2, FaceRowsTyped DEF DeleteFaceModels
<1>3. CASE SyncLists(h)
  <2>1. PICK f \in my[h].todo : UNCHANGED catalog \/ \E ms \in SUBSET Models : ReplaceFaceModels(f, ms)
    BY <1>3 DEF SyncLists
  <2>2. f \in Faces
    BY <1>3, <1>m DEF SyncLists, Fit
  <2>3. QED
    BY <1>1, <1>h, <2>1, <2>2, FaceRowsTyped
<1>4. CASE At(h, "upsert") /\ SyncUpserts(h)
  <2>1. UpsertModels(my[h].target, my[h].merged, my[h].rows)
    BY <1>4 DEF SyncUpserts
  <2>2. my[h].rows \in Cells
    BY Held
  <2>3. modelRows' \in Cells
    <3>1. \A vm \in Vendors \X Models : modelRows[vm] \in Prices \cup {Unpriced, Absent}
      BY <1>h DEF CatalogTypeOK, Cells
    <3>2. \A vm \in Vendors \X Models : my[h].rows[vm] \in Prices \cup {Unpriced, Absent}
      BY <2>2 DEF Cells
    <3>3. DOMAIN modelRows = Vendors \X Models
      BY <1>h DEF CatalogTypeOK, Cells
    <3>4. QED
      BY <2>1, <3>1, <3>2, <3>3 DEF UpsertModels, Cells
  <2>4. UNCHANGED <<faceRows, priced, pricing, faceModels>>
    BY <2>1 DEF UpsertModels, Cached
  <2>5. QED
    BY <1>h, <2>3, <2>4 DEF CatalogTypeOK
<1>5. CASE At(h, "price") /\ SavePrice(h)
  <2>1. PICK m \in Models, p \in Prices : SavePricing(my[h].target, m, p, alone)
    BY <1>5 DEF SavePrice, Begin
  <2>2. my[h].target \in Vendors
    BY <1>5, <1>m DEF Fit
  <2>3. modelRows' \in Cells
    BY <1>h, <2>1, <2>2 DEF SavePricing, CatalogTypeOK, Cells
  <2>4. modelRows'[<<my[h].target, m>>] \in Prices \cup {Unpriced, Absent}
    BY <2>2, <2>3 DEF Cells
  <2>5. priced' \in Cells
    BY <1>h, <2>1, <2>2, <2>4 DEF SavePricing, CatalogTypeOK, Cells
  <2>6. UNCHANGED <<faceRows, pricing, faceModels>>
    BY <2>1 DEF SavePricing, Cached
  <2>7. QED
    BY <1>h, <2>3, <2>5, <2>6 DEF CatalogTypeOK
<1>6. CASE At(h, "orphans") /\ Prune(h)
  <2>1. DeleteOrphans(my[h].target)
    BY <1>6 DEF Prune, Begin
  <2>2. modelRows' \in Cells /\ priced' \in Cells
    BY <1>h, <2>1 DEF DeleteOrphans, CatalogTypeOK, Cells
  <2>3. UNCHANGED <<faceRows, pricing, faceModels>>
    BY <2>1 DEF DeleteOrphans, Cached
  <2>4. QED
    BY <1>h, <2>2, <2>3 DEF CatalogTypeOK
<1>7. CASE At(h, "install") /\ LoadModels(h)
  <2>1. InstallModels(my[h].rows, my[h].offers)
    BY <1>7 DEF LoadModels, ReadRows, ReadFaceRows
  <2>2. my[h].rows \in Cells /\ my[h].offers \subseteq Faces \X Models
    BY Held
  <2>3. QED
    BY <1>h, <2>1, <2>2 DEF InstallModels, CatalogTypeOK
<1>8. QED
  BY <1>1, <1>2, <1>3, <1>4, <1>5, <1>6, <1>7, CatalogTouched

LEMMA PoolsTyped ==
  ASSUME AdminTypeOK, Shapes, NEW h \in Handlers, Handler(h) PROVE PoolsTypeOK'
<1>h. PoolsTypeOK
  BY DEF AdminTypeOK
<1>m. my[h] \in MyType /\ Fit(pc[h], my[h])
  BY Held
<1> USE DEF At
<1>1. CASE UNCHANGED pools
  BY <1>1, <1>h DEF pools, PoolsTypeOK
<1>2. ASSUME NEW ks, ks \subseteq Keys, CreateRows(ks) PROVE PoolsTypeOK'
  BY <1>2, <1>h DEF CreateRows, Maps, PoolsTypeOK
<1>3. ASSUME NEW ks, DeleteRows(ks) PROVE PoolsTypeOK'
  BY <1>3, <1>h DEF DeleteRows, Maps, PoolsTypeOK
<1>4. CASE At(h, "create") /\ CreateKey(h)
  <2>1. my[h].target \in Keys
    BY <1>4, <1>m DEF Fit
  <2>2. UNCHANGED pools \/ CreateRows({my[h].target})
    BY <1>4 DEF CreateKey, Begin, Same
  <2>3. QED
    BY <1>1, <1>2, <2>1, <2>2
<1>5. CASE At(h, "delete") /\ DeleteKey(h)
  <2>1. UNCHANGED pools \/ DeleteRows({my[h].target})
    BY <1>5 DEF DeleteKey, Begin, Same
  <2>2. QED
    BY <1>1, <1>3, <2>1
<1>6. CASE PurgeKeys(h)
  BY <1>3, <1>6 DEF PurgeKeys
<1>7. CASE RelaySyncWrites(h)
  <2>1. my[h].merged \subseteq Keys
    BY <1>m, <1>7 DEF Fit, RelaySyncWrites
  <2>2. \/ UNCHANGED pools
        \/ \E k \in my[h].seen : DeleteRows({k})
        \/ \E k \in my[h].merged : CreateRows({k})
    BY <1>7 DEF RelaySyncWrites, Unsynced
  <2>3. QED
    BY <1>1, <1>2, <1>3, <2>1, <2>2
<1>8. CASE At(h, "add") /\ RelayRegisters(h)
  <2>1. PICK f : NewInstance(f)
    BY <1>8 DEF RelayRegisters
  <2>2. QED
    BY <1>h, <2>1 DEF NewInstance, Maps, PoolsTypeOK
<1>9. CASE ReloadVisits(h)
  <2>1. UNCHANGED pools \/ \E f \in my[h].todo, p \in my[h].built : f \in Faces /\ SetPool(f, p)
    BY <1>9 DEF ReloadVisits, Build, Same, Built
  <2>2. ASSUME NEW f \in Faces, NEW p \in my[h].built, SetPool(f, p) PROVE PoolsTypeOK'
    <3>1. p \in PoolType
      BY Held
    <3>2. QED
      BY <1>h, <2>2, <3>1 DEF SetPool, Maps, PoolsTypeOK
  <2>3. QED
    BY <1>1, <2>1, <2>2
<1>10. CASE ReloadSwaps(h)
  <2>1. my[h].map \in PoolMaps
    BY Held
  <2>2. QED
    BY <1>h, <1>10, <2>1 DEF ReloadSwaps, SwapServer, SwapRouter, SwapQuota, PoolsTypeOK
<1>11. QED
  BY <1>1, <1>4, <1>5, <1>6, <1>7, <1>8, <1>9, <1>10, PoolsTouched

LEMMA StationsTyped ==
  ASSUME AdminTypeOK, Shapes, NEW h \in Handlers, Handler(h) PROVE StationsTypeOK'
<1>h. StationsTypeOK
  BY DEF AdminTypeOK
<1>m. my[h] \in MyType /\ Fit(pc[h], my[h])
  BY Held
<1> USE DEF At
<1>1. CASE UNCHANGED stations
  BY <1>1, <1>h DEF stations, StationsTypeOK, OwnKeys
<1>2. CASE ReplaceOrder(h)
  BY <1>2, <1>h DEF ReplaceOrder, StationsTypeOK, OwnKeys
<1>3. CASE At(h, "setOrder") /\ ReloadProviderOrder(h)
  <2>1. my[h].seen \subseteq Vendors
    BY <1>3, <1>m DEF Fit
  <2>2. QED
    BY <1>3, <1>h, <2>1 DEF ReloadProviderOrder, StationsTypeOK, OwnKeys
<1>4. CASE DropOrder(h)
  BY <1>4, <1>h DEF DropOrder, StationsTypeOK, OwnKeys
<1>5. ASSUME NEW s \in Stations, NEW ks \in SUBSET OwnKeys(s), SaveStation(h, s, ks)
      PROVE  StationsTypeOK'
  BY <1>5, <1>h DEF SaveStation, StationsTypeOK, OwnKeys
<1>6. CASE At(h, "insert") /\ CreateStation(h)
  <2>1. my[h].target \in Stations
    BY <1>6, <1>m DEF Fit
  <2>2. UNCHANGED stations \/ \E ks \in SUBSET OwnKeys(my[h].target) : SaveStation(h, my[h].target, ks)
    BY <1>6 DEF CreateStation, Begin, Same
  <2>3. QED
    BY <1>1, <1>5, <2>1, <2>2
<1>7. CASE At(h, "save") /\ UpdateStation(h)
  <2>1. my[h].target \in Stations
    BY <1>7, <1>m DEF Fit
  <2>2. \E ks \in SUBSET OwnKeys(my[h].target) : SaveStation(h, my[h].target, ks)
    BY <1>7 DEF UpdateStation, Begin
  <2>3. QED
    BY <1>5, <2>1, <2>2
<1>8. CASE At(h, "drop") /\ DeleteStation(h)
  <2>1. stationRows' \subseteq stationRows /\ UNCHANGED <<columnKeys, orderRows, routerOrder>>
    BY <1>8 DEF DeleteStation, Begin, DropFaceRows, DropOrder, PurgeKeys, Fails
  <2>2. QED
    BY <1>h, <2>1 DEF StationsTypeOK, OwnKeys
<1>9. QED
  BY <1>1, <1>2, <1>3, <1>4, <1>6, <1>7, <1>8, StationsTouched

LEMMA HandlersTyped ==
  ASSUME AdminTypeOK, Shapes, NEW h \in Handlers, Handler(h) PROVE HandlersTypeOK' /\ Shapes'
<1>h. HandlersTypeOK
  BY DEF AdminTypeOK
<1>1. Fits(h)
  BY StepFits
<1>2. \A g \in Handlers : g # h => pc'[g] = pc[g] /\ my'[g] = my[g]
  BY <1>h, Others
<1>3. DOMAIN my' = Handlers /\ my' = [g \in Handlers |-> my'[g]]
  <2>1. \/ \E m : my' = [my EXCEPT ![h] = m]
        \/ \E t : my' = [my EXCEPT ![h].target = t]
        \/ my' = my
    <3> USE DEF Put, Keep, Ends, Finish, Begin, Build
    <3>1. CASE CreateKey(h) \/ DeleteKey(h) \/ PutRouteOrder(h)
      BY <3>1 DEF CreateKey, DeleteKey, PutRouteOrder, ReplaceOrder, ReloadProviderOrder
    <3>2. CASE CreateStation(h) \/ UpdateStation(h) \/ DeleteStation(h)
      BY <3>2 DEF CreateStation, UpdateStation, DeleteStation, SaveStation, DropFaceRows, DropOrder,
                  PurgeKeys, Fails
    <3>3. CASE ReloadStations(h)
      BY <3>3 DEF ReloadStations, RelayList, RelayRemoves, RelayRows, RelaySync, RelaySyncWrites, Synced, Unsynced,
                  RelayRegisters, RelayEnds, Fails
    <3>4. CASE SyncModels(h) \/ SavePrice(h) \/ Prune(h) \/ ConfigReload(h) \/ LoadModels(h)
      BY <3>4 DEF SyncModels, SyncLists, SyncEnds, SyncUpserts, SavePrice, Prune, ConfigReload,
                  LoadModels, ReadRows, ReadFaceRows, Fails
    <3>5. CASE ReloadPool(h)
      BY <3>5 DEF ReloadPool, ReloadNames, ReloadBuilds, ReloadCopies, ReloadVisits, ReloadRelays,
                  ReloadSwaps
    <3>6. QED
      BY <3>1, <3>2, <3>3, <3>4, <3>5 DEF Handler
  <2>2. QED
    BY <1>h, <2>1 DEF HandlersTypeOK
<1>4. my' \in [Handlers -> MyType]
  <2>1. \A g \in Handlers : my'[g] \in MyType
    BY <1>h, <1>1, <1>2 DEF Fits, HandlersTypeOK
  <2>2. QED
    BY <1>3, <2>1
<1>5. /\ pc' \in [Handlers -> Places] /\ alone' \in BOOLEAN /\ failures' \in 0 .. MaxFailures
      /\ settled' \subseteq Vendors \cup {"order", "stations", "leftovers", "unsynced", "models"}
  <2>1. CASE Begins(h)
    BY <1>h, <2>1 DEF HandlersTypeOK, Begins, Begin, Places
  <2>2. CASE Moves(h)
    <3>1. failures \in Nat /\ MaxFailures \in Nat /\ failures <= MaxFailures
      BY <1>h, AdminAssumption DEF HandlersTypeOK
    <3>2. failures' \in 0 .. MaxFailures
      BY <2>2, <3>1 DEF Moves, MayFail
    <3>3. pc' \in [Handlers -> Places] /\ UNCHANGED <<alone, settled>>
      BY <1>h, <2>2 DEF HandlersTypeOK, Moves
    <3>4. QED
      BY <1>h, <3>2, <3>3 DEF HandlersTypeOK
  <2>3. CASE Ended(h)
    <3>1. failures \in Nat /\ MaxFailures \in Nat /\ failures <= MaxFailures
      BY <1>h, AdminAssumption DEF HandlersTypeOK
    <3>2. failures' \in 0 .. MaxFailures
      BY <2>3, <3>1 DEF Ended, MayFail
    <3>3. PICK covers : Settles(h, covers) /\ Finish(h, covers)
      BY <2>3 DEF Ended
    <3>4. covers \subseteq Vendors \cup {"order", "stations", "leftovers", "unsynced", "models"}
      BY <3>3, Held DEF Settles
    <3>5. QED
      BY <1>h, <3>2, <3>3, <3>4 DEF HandlersTypeOK, Finish, Places
  <2>4. QED
    BY <1>h, <2>1, <2>2, <2>3, Kinds
<1>6. Shapes'
  BY <1>1, <1>2 DEF Shapes, Fits
<1>7. QED
  BY <1>4, <1>5, <1>6 DEF HandlersTypeOK

LEMMA IdleKeeps == ASSUME AdminTypeOK, Shapes, UNCHANGED admin PROVE AdminTypeOK' /\ Shapes'
<1> USE DEF admin, providers, catalog, pools, stations, handlers
<1>1. ProvidersTypeOK' /\ CatalogTypeOK'
  BY DEF AdminTypeOK, ProvidersTypeOK, CatalogTypeOK
<1>2. PoolsTypeOK' /\ StationsTypeOK'
  BY DEF AdminTypeOK, PoolsTypeOK, StationsTypeOK, OwnKeys
<1>3. HandlersTypeOK' /\ Shapes'
  BY DEF AdminTypeOK, HandlersTypeOK, Shapes, Fit
<1>4. QED
  BY <1>1, <1>2, <1>3 DEF AdminTypeOK

LEMMA NextTyped == AdminTypeOK /\ Shapes /\ [AdminNext]_admin => AdminTypeOK' /\ Shapes'
<1>1. ASSUME AdminTypeOK, Shapes, NEW h \in Handlers, Handler(h) PROVE AdminTypeOK' /\ Shapes'
  BY <1>1, ProvidersTyped, CatalogTyped, PoolsTyped, StationsTyped, HandlersTyped DEF AdminTypeOK
<1>2. QED
  BY <1>1, IdleKeeps DEF AdminNext, AllEnded

LEMMA InitTyped == AdminInit => AdminTypeOK /\ Shapes
<1> SUFFICES ASSUME AdminInit PROVE AdminTypeOK /\ Shapes
  OBVIOUS
<1>1. ProvidersTypeOK
  <2>1. RelaysOf(stationRows) \subseteq RelayFaces
    BY DEF AdminInit, RelayFaces, RelaysOf
  <2>2. QED
    BY <2>1, NamesSorted DEF AdminInit, ProvidersInit, ProvidersTypeOK, RelaysOf
<1>2. CatalogTypeOK
  <2>1. modelRows \in Cells /\ priced \in Cells
    BY DEF AdminInit, CatalogInit, Cells
  <2>2. QED
    BY <2>1 DEF AdminInit, CatalogInit, CatalogTypeOK
<1>3. PICK ks \in SUBSET {k \in Keys : KeyOwner[k] \notin Stations} :
        PoolsInit(ks \cup UNION {columnKeys[s] : s \in stationRows})
  BY DEF AdminInit
<1> DEFINE rows == ks \cup UNION {columnKeys[s] : s \in stationRows}
<1>4. rows \subseteq Keys
  BY DEF AdminInit
<1>5. PoolsTypeOK
  <2> HIDE DEF rows
  <2>1. \A n \in loaded : Pool(VendorOf[n], {k \in rows : KeyOwner[k] = VendorOf[n]}, "boot") \in PoolType
    BY <1>1, <1>4, OneVendor, NamesSorted DEF Pool, PoolType, ProvidersTypeOK
  <2>2. \A n \in Names : Pool(n, {k \in rows : KeyOwner[k] = n}, "boot") \in PoolType
    BY <1>4 DEF Pool, PoolType
  <2>3. serverPools \in PoolMaps
    BY <1>3, <2>1, <2>2 DEF PoolsInit, PoolMaps, rows
  <2>4. routerPools = serverPools /\ quotaPools = serverPools /\ keyRows \subseteq Keys
    BY <1>3, <1>4 DEF PoolsInit, rows
  <2>5. facePool = [f \in Faces |-> serverPools[f]] /\ hooked = {serverPools[n] : n \in Names} \ {NoPool}
    BY <1>3 DEF PoolsInit
  <2>6. facePool \in [Faces -> PoolType \cup {NoPool}] /\ hooked \subseteq PoolType
    BY <2>3, <2>5, NamesSorted DEF PoolMaps
  <2>7. QED
    BY <2>3, <2>4, <2>6 DEF PoolsTypeOK
<1>6. StationsTypeOK
  BY NamesSorted DEF AdminInit, StationsTypeOK, OwnKeys
<1>7. HandlersTypeOK
  BY NobodyFits, AdminAssumption DEF AdminInit, HandlersTypeOK, Places
<1>8. Shapes
  BY NobodyFits DEF AdminInit, Shapes
<1>9. QED
  BY <1>1, <1>2, <1>5, <1>6, <1>7, <1>8 DEF AdminTypeOK

\* Whatever overlaps and fails: what the database, the gateway and each handler hold is of
\* its type at every step of a handler.
THEOREM AdminTypes == AdminSpec => []AdminTypeOK
<1>1. AdminSpec => [](AdminTypeOK /\ Shapes)
  BY InitTyped, NextTyped, PTL DEF AdminSpec
<1>2. QED
  BY <1>1, PTL

-----------------------------------------------------------------------------
(* Handlers alone.                                                         *)

LEMMA SolitudeKept ==
  ASSUME AdminTypeOK, Solitude, NEW h \in Handlers, Handler(h) PROVE Solitude'
<1>h. HandlersTypeOK
  BY DEF AdminTypeOK
<1>1. \A g \in Handlers : g # h => pc'[g] = pc[g]
  BY <1>h, Others
<1>2. CASE Begins(h)
  <2>1. alone' = (\A g \in Handlers : ~Busy(g)) /\ settled' = {}
    BY <1>2 DEF Begins, Begin
  <2>2. alone' => \A g \in Handlers : Busy(g)' => g = h
    BY <1>1, <2>1 DEF Busy
  <2>3. QED
    BY <2>1, <2>2 DEF Solitude
<1>3. CASE Moves(h)
  <2>1. alone' = alone /\ settled' = settled /\ Busy(h)
    BY <1>3 DEF Moves
  <2>2. settled' = {} /\ \A g \in Handlers : Busy(g)' => Busy(g)
    BY <1>1, <2>1 DEF Solitude, Busy
  <2>3. QED
    BY <2>1, <2>2 DEF Solitude
<1>4. CASE Ended(h)
  <2>1. Busy(h) /\ alone' = alone /\ (settled' = {} \/ alone) /\ pc'[h] = "done"
    BY <1>h, <1>4 DEF Ended, Finish, HandlersTypeOK
  <2>2. \A g \in Handlers : Busy(g)' => Busy(g) /\ g # h
    BY <1>1, <2>1 DEF Busy
  <2>3. QED
    BY <2>1, <2>2 DEF Solitude
<1>5. QED
  BY <1>h, <1>2, <1>3, <1>4, Kinds

\* Whoever steps, no other handler is alone afterwards.
LEMMA NoOtherSolo ==
  ASSUME AdminTypeOK, Solitude, NEW h \in Handlers, Handler(h), NEW g \in Handlers, Solo(g)'
  PROVE  g = h
<1>h. HandlersTypeOK
  BY DEF AdminTypeOK
<1>1. SUFFICES ASSUME g # h PROVE FALSE
  OBVIOUS
<1>2. Busy(g)
  BY <1>h, <1>1, Others DEF Solo, Busy
<1>3. CASE Begins(h)
  BY <1>2, <1>3 DEF Begins, Begin, Solo
<1>4. CASE Moves(h) \/ Ended(h)
  <2>1. Busy(h) /\ alone' = alone
    BY <1>4 DEF Moves, Ended, Finish
  <2>2. QED
    BY <1>1, <1>2, <2>1 DEF Solo, Solitude
<1>5. QED
  BY <1>h, <1>3, <1>4, Kinds

\* A handler that is alone after its step was, or begins with nobody at work.
LEMMA SoloBefore ==
  ASSUME AdminTypeOK, NEW h \in Handlers, Handler(h), Solo(h)'
  PROVE  \/ Begins(h) /\ pc[h] = "idle" /\ \A g \in Handlers : ~Busy(g)
         \/ Solo(h) /\ Moves(h)
<1>h. HandlersTypeOK
  BY DEF AdminTypeOK
<1>1. CASE Begins(h)
  BY <1>1 DEF Begins, Begin, Solo
<1>2. CASE Moves(h)
  BY <1>2 DEF Moves, Solo
<1>3. CASE Ended(h)
  <2>1. pc'[h] = "done"
    BY <1>h, <1>3 DEF Ended, Finish, HandlersTypeOK
  <2>2. QED
    BY <2>1 DEF Solo, Busy
<1>4. QED
  BY <1>h, <1>1, <1>2, <1>3, Kinds

\* What a step leaves settled its handler covered, and was alone with.
LEMMA SettledBy ==
  ASSUME AdminTypeOK, Solitude, NEW h \in Handlers, Handler(h), settled' # {}
  PROVE  Solo(h) /\ Settles(h, settled') /\ \E c : Finish(h, c)
<1>h. HandlersTypeOK
  BY DEF AdminTypeOK
<1>1. CASE Begins(h)
  BY <1>1 DEF Begins, Begin
<1>2. CASE Moves(h)
  BY <1>2 DEF Moves, Solitude
<1>3. CASE Ended(h)
  BY <1>3 DEF Ended, Finish, Solo
<1>4. QED
  BY <1>h, <1>1, <1>2, <1>3, Kinds

-----------------------------------------------------------------------------
(* The metadata.                                                           *)

MetaInv == MetadataKept /\ Loads

LEMMA RemoveKeepsMeta ==
  ASSUME ProvidersTypeOK, MetaInv, NEW f \in RelayFaces, RemoveProvider(f)
  PROVE  MetaInv'
<1> USE DEF ProvidersTypeOK, MetaInv, MetadataKept, Loads
<1>1. f \in Faces /\ f \notin Configured
  BY NamesSorted DEF Configured
<1>2. CASE f \notin loaded
  BY <1>2 DEF RemoveProvider
<1>3. CASE f \in loaded
  <2> DEFINE last == \A g \in loaded \ {f} : VendorFor(g) # VendorFor(f)
  <2>1. ASSUME last, NEW g \in loaded \ {f}, g = VendorFor(f) PROVE FALSE
    <3>1. g \in Faces /\ f \in Names
      BY <1>1, <2>1, NamesSorted
    <3>2. f \in Configured \cup registered /\ g \in Vendors
      BY <2>1, <3>1, VendorForType
    <3>3. VendorOf[g] = g
      BY <3>1, <3>2, OneVendor
    <3>4. VendorFor(g) = g
      BY <3>1, <3>3, NamesSorted, VendorForType
    <3>5. QED
      BY <2>1, <3>4
  <2>2. loaded' = loaded \ {f}
    BY DEF RemoveProvider
  <2>3. \A g \in loaded' : g \in endpoints' /\ g \in billing'
    BY <1>3, <2>1, <2>2 DEF RemoveProvider
  <2>4. QED
    BY <1>1, <2>2, <2>3
<1>4. QED
  BY <1>2, <1>3

LEMMA MetaKept ==
  ASSUME AdminTypeOK, Shapes, MetaInv, NEW h \in Handlers, Handler(h) PROVE MetaInv'
<1>h. ProvidersTypeOK
  BY DEF AdminTypeOK
<1>m. my[h] \in MyType /\ Fit(pc[h], my[h])
  BY Held
<1> USE DEF At
<1>1. CASE UNCHANGED providers
  BY <1>1 DEF providers, MetaInv, MetadataKept, Loads
<1>2. CASE RelayRemoves(h)
  <2>1. ASSUME pc[h] = "remove", NEW f \in my[h].todo, RemoveProvider(f) PROVE MetaInv'
    <3>1. f \in RelayFaces
      BY <1>m, <2>1 DEF Fit
    <3>2. QED
      BY <1>h, <2>1, <3>1, RemoveKeepsMeta
  <2>2. ASSUME NEW f, UnregisterRelay(f) PROVE MetaInv'
    BY <2>2 DEF UnregisterRelay, MetaInv, MetadataKept, Loads
  <2>3. QED
    BY <1>2, <2>1, <2>2 DEF RelayRemoves
<1>3. CASE RelayRegisters(h)
  <2>1. ASSUME NEW f, RegisterRelay(f) PROVE MetaInv'
    BY <2>1 DEF RegisterRelay, MetaInv, MetadataKept, Loads
  <2>2. ASSUME NEW f, AddProvider(f) PROVE MetaInv'
    BY <2>2 DEF AddProvider, MetaInv, MetadataKept, Loads
  <2>3. QED
    BY <1>1, <1>3, <2>1, <2>2 DEF RelayRegisters, Same
<1>4. CASE At(h, "billing") /\ ConfigReload(h)
  <2>1. ReloadPricing
    BY <1>4 DEF ConfigReload, Begin
  <2>2. QED
    BY <2>1 DEF ReloadPricing, MetaInv, MetadataKept, Loads
<1>5. QED
  BY <1>1, <1>2, <1>3, <1>4, ProvidersTouched

LEMMA InitMeta == AdminInit => MetaInv
BY DEF AdminInit, ProvidersInit, MetaInv, MetadataKept, Loads

LEMMA NextBase ==
  ASSUME AdminTypeOK, Shapes, Solitude, MetaInv, [AdminNext]_admin
  PROVE  AdminTypeOK' /\ Shapes' /\ Solitude' /\ MetaInv'
<1>1. CASE UNCHANGED admin
  BY <1>1, NextTyped DEF admin, providers, handlers, Solitude, Busy, MetaInv, MetadataKept, Loads
<1>2. ASSUME NEW h \in Handlers, Handler(h) PROVE Solitude' /\ MetaInv'
  BY <1>2, SolitudeKept, MetaKept
<1>3. QED
  BY <1>1, <1>2, NextTyped DEF AdminNext, AllEnded

LEMMA InitSolitude == AdminInit => Solitude
BY DEF AdminInit, Solitude, Busy

\* What every other invariant rests on.
BaseInv == AdminTypeOK /\ Shapes /\ Solitude /\ MetaInv

LEMMA BaseCorrect == AdminSpec => []BaseInv
<1>1. AdminInit => BaseInv
  BY InitTyped, InitSolitude, InitMeta DEF BaseInv
<1>2. BaseInv /\ [AdminNext]_admin => BaseInv'
  BY NextBase DEF BaseInv
<1>3. QED
  BY <1>1, <1>2, PTL DEF AdminSpec

\* Through every reload of the stations and of the configuration, whatever overlaps, a
\* loaded face has an endpoint and a billing source.
THEOREM AdminKeepsMetadata == AdminSpec => []MetadataKept
<1>1. BaseInv => MetadataKept
  BY DEF BaseInv, MetaInv
<1>2. QED
  BY <1>1, BaseCorrect, PTL

-----------------------------------------------------------------------------
(* How a handler comes to where it is.                                     *)

LEMMA Enters ==
  ASSUME HandlersTypeOK, NEW h \in Handlers, Handler(h)
  PROVE  /\ pc'[h] = "upsert" => At(h, "prices") /\ SyncUpserts(h)
         /\ pc'[h] = "orphans" => At(h, "count") /\ Prune(h)
         /\ pc'[h] = "faceList" => ReadRows(h)
         /\ pc'[h] = "install" => ReadFaceRows(h)
         /\ pc'[h] = "remove" => RelayList(h) \/ (At(h, "unregister") /\ RelayRemoves(h))
         /\ pc'[h] = "unregister" => At(h, "remove") /\ RelayRemoves(h)
         /\ pc'[h] = "station" => RelayRows(h) \/ (At(h, "register") /\ RelayRegisters(h))
         /\ pc'[h] = "sync" => RelaySync(h) \/ RelaySyncWrites(h)
         /\ pc'[h] = "register" => \/ RelaySync(h) \/ RelaySyncWrites(h)
                                   \/ At(h, "add") /\ RelayRegisters(h)
         /\ pc'[h] = "add" => At(h, "register") /\ RelayRegisters(h)
         /\ pc'[h] = "names" => \/ RelayEnds(h)
                                \/ At(h, "create") /\ CreateKey(h)
                                \/ At(h, "delete") /\ DeleteKey(h)
         /\ pc'[h] = "build" => ReloadNames(h) /\ my[h].target # "all"
         /\ pc'[h] = "copy" => ReloadBuilds(h)
         /\ pc'[h] = "visit" => \/ ReloadNames(h) /\ my[h].target = "all"
                                \/ ReloadCopies(h) \/ ReloadVisits(h)
                                \/ ReloadRelays(h) /\ my[h].target = "all"
         /\ pc'[h] = "server" => ReloadRelays(h) /\ my[h].target # "all"
         /\ pc'[h] = "router" => At(h, "server") /\ ReloadSwaps(h)
         /\ pc'[h] = "quota" => At(h, "router") /\ ReloadSwaps(h)
<1> USE DEF HandlersTypeOK, At, Go, Stay, Ends, Finish, Begin
<1>1. CASE CreateKey(h) \/ DeleteKey(h) \/ PutRouteOrder(h)
  BY <1>1 DEF CreateKey, DeleteKey, PutRouteOrder, ReplaceOrder, ReloadProviderOrder
<1>2. CASE CreateStation(h) \/ UpdateStation(h) \/ DeleteStation(h)
  BY <1>2 DEF CreateStation, UpdateStation, DeleteStation, SaveStation, DropFaceRows, DropOrder,
              PurgeKeys, Fails
<1>3. CASE ReloadStations(h)
  <2>1. CASE RelayList(h) \/ RelayRows(h) \/ RelaySync(h) \/ RelayEnds(h)
    BY <2>1 DEF RelayList, RelayRows, RelaySync, RelayEnds
  <2>2. CASE RelayRemoves(h)
    BY <2>2 DEF RelayRemoves
  <2>3. CASE RelaySyncWrites(h)
    BY <2>3 DEF RelaySyncWrites, Synced, Unsynced
  <2>4. CASE RelayRegisters(h)
    BY <2>4 DEF RelayRegisters
  <2>5. QED
    BY <1>3, <2>1, <2>2, <2>3, <2>4 DEF ReloadStations, Fails
<1>4. CASE SyncModels(h) \/ SavePrice(h) \/ Prune(h) \/ ConfigReload(h) \/ LoadModels(h)
  <2>1. CASE SyncModels(h)
    BY <2>1 DEF SyncModels, SyncLists, SyncEnds, SyncUpserts, Fails
  <2>2. CASE SavePrice(h) \/ Prune(h) \/ ConfigReload(h)
    BY <2>2 DEF SavePrice, Prune, ConfigReload
  <2>3. CASE LoadModels(h)
    BY <2>3 DEF LoadModels, ReadRows, ReadFaceRows
  <2>4. QED
    BY <1>4, <2>1, <2>2, <2>3
<1>5. CASE ReloadPool(h)
  <2>1. CASE ReloadNames(h)
    BY <2>1 DEF ReloadNames
  <2>2. CASE ReloadBuilds(h) \/ ReloadCopies(h)
    BY <2>2 DEF ReloadBuilds, ReloadCopies
  <2>3. CASE ReloadVisits(h)
    <3>1. pc[h] = "visit" /\ pc'[h] = pc[h]
      BY <2>3 DEF ReloadVisits
    <3>2. QED
      BY <2>3, <3>1
  <2>4. CASE ReloadRelays(h)
    BY <2>4 DEF ReloadRelays
  <2>5. CASE ReloadSwaps(h)
    BY <2>5 DEF ReloadSwaps
  <2>6. QED
    BY <1>5, <2>1, <2>2, <2>3, <2>4, <2>5 DEF ReloadPool
<1>6. QED
  BY <1>1, <1>2, <1>3, <1>4, <1>5 DEF Handler

-----------------------------------------------------------------------------
(* Prices.                                                                 *)

PriceInv == PricesKept /\ SyncReads

\* Steps that leave the rows and the saved prices alone.
LEMMA PricesStand ==
  ASSUME AdminTypeOK, PriceInv, NEW h \in Handlers, Handler(h), UNCHANGED <<modelRows, priced>>
  PROVE  PriceInv'
<1>h. HandlersTypeOK /\ priced \in Cells /\ modelRows \in Cells
  BY DEF AdminTypeOK, CatalogTypeOK
<1>1. PricesKept'
  BY DEF PriceInv, PricesKept
<1>2. ASSUME NEW g \in Handlers, pc'[g] = "upsert", NEW vm \in Vendors \X Models,
             priced'[vm] # Absent
      PROVE  my'[g].rows[vm] = priced'[vm]
  <2>1. CASE g = h
    <3>1. my'[h] = [my[h] EXCEPT !.rows = modelRows]
      BY <1>h, <1>2, <2>1, Enters DEF SyncUpserts, At, Put, HandlersTypeOK
    <3>2. my[h] \in MyType
      BY <1>h DEF HandlersTypeOK
    <3>3. my'[h].rows = modelRows
      BY <3>1, <3>2 DEF MyType
    <3>4. DOMAIN priced = Vendors \X Models
      BY <1>h DEF Cells
    <3>5. QED
      BY <1>2, <2>1, <3>3, <3>4 DEF PriceInv, PricesKept
  <2>2. CASE g # h
    BY <1>h, <1>2, <2>2, Others DEF PriceInv, SyncReads
  <2>3. QED
    BY <2>1, <2>2
<1>3. QED
  BY <1>1, <1>2 DEF PriceInv, SyncReads

\* The other handlers at their upsert hold what they held.
LEMMA ReadsStand ==
  ASSUME AdminTypeOK, PriceInv, NEW h \in Handlers, Handler(h), pc'[h] # "upsert",
         \A g \in Handlers \ {h} : pc[g] = "upsert" =>
           \A vm \in Vendors \X Models : priced'[vm] # Absent => priced'[vm] = priced[vm]
  PROVE  SyncReads'
<1>h. HandlersTypeOK
  BY DEF AdminTypeOK
<1>1. \A g \in Handlers : g # h => pc'[g] = pc[g] /\ my'[g] = my[g]
  BY <1>h, Others
<1>2. QED
  BY <1>1 DEF PriceInv, SyncReads

LEMMA UpsertKeepsPrices ==
  ASSUME AdminTypeOK, PriceInv, NEW h \in Handlers, Handler(h), At(h, "upsert"), SyncUpserts(h)
  PROVE  PriceInv'
<1>h. HandlersTypeOK /\ priced \in Cells /\ modelRows \in Cells
  BY DEF AdminTypeOK, CatalogTypeOK
<1>1. UpsertModels(my[h].target, my[h].merged, my[h].rows) /\ pc'[h] = "rows"
  BY <1>h DEF SyncUpserts, At, Go, HandlersTypeOK
<1>2. priced' = priced
  BY <1>1 DEF UpsertModels
<1>3. \A vm \in DOMAIN priced : priced[vm] # Absent => modelRows'[vm] = priced[vm]
  <2>1. SUFFICES ASSUME NEW vm \in Vendors \X Models, priced[vm] # Absent
                 PROVE  modelRows'[vm] = priced[vm]
    BY <1>h DEF Cells
  <2>2. my[h].rows[vm] = priced[vm] /\ modelRows[vm] = priced[vm]
    BY <1>h, <2>1 DEF PriceInv, SyncReads, PricesKept, At, Cells
  <2>3. vm \in DOMAIN modelRows
    BY <1>h, <2>1 DEF Cells
  <2>4. QED
    BY <1>1, <2>1, <2>2, <2>3 DEF UpsertModels
<1>4. SyncReads'
  BY <1>1, <1>2, ReadsStand
<1>5. QED
  BY <1>2, <1>3, <1>4 DEF PriceInv, PricesKept

LEMMA SavingKeepsPrices ==
  ASSUME AdminTypeOK, Solitude, PriceInv, NEW h \in Handlers, Handler(h), At(h, "price"),
         SavePrice(h)
  PROVE  PriceInv'
<1>h. HandlersTypeOK /\ priced \in Cells /\ modelRows \in Cells /\ Busy(h)
  BY DEF AdminTypeOK, CatalogTypeOK, At, Busy
<1>1. PICK m \in Models, p \in Prices : SavePricing(my[h].target, m, p, alone)
  BY <1>h DEF SavePrice, At, Begin
<1>2. pc'[h] = "rows"
  BY <1>h DEF SavePrice, At, Begin, Go, HandlersTypeOK
<1> DEFINE cell == <<my[h].target, m>>
<1> HIDE DEF cell
<1>3. /\ modelRows' = [modelRows EXCEPT ![cell] = IF @ = Absent THEN Absent ELSE p]
      /\ priced' = [priced EXCEPT ![cell] = IF alone THEN modelRows'[cell] ELSE Absent]
  BY <1>1 DEF SavePricing, cell
<1>4. \A vm \in DOMAIN priced : vm # cell => priced'[vm] = priced[vm] /\ modelRows'[vm] = modelRows[vm]
  BY <1>h, <1>3 DEF Cells
<1>5. cell \in DOMAIN priced => priced'[cell] = Absent \/ (alone /\ priced'[cell] = modelRows'[cell])
  BY <1>3
<1>6. DOMAIN priced' = DOMAIN priced /\ DOMAIN priced = Vendors \X Models
  BY <1>h, <1>3 DEF Cells
<1>7. PricesKept'
  BY <1>4, <1>5, <1>6 DEF PriceInv, PricesKept
<1>8. SyncReads'
  <2>1. CASE alone
    <3>1. \A g \in Handlers \ {h} : pc[g] # "upsert"
      BY <1>h, <2>1 DEF Solitude, Busy
    <3>2. QED
      BY <1>2, <3>1, ReadsStand
  <2>2. CASE ~alone
    BY <1>2, <1>4, <1>5, <1>6, <2>2, ReadsStand
  <2>3. QED
    BY <2>1, <2>2
<1>9. QED
  BY <1>7, <1>8 DEF PriceInv

LEMMA PruningKeepsPrices ==
  ASSUME AdminTypeOK, PriceInv, NEW h \in Handlers, Handler(h), At(h, "orphans"), Prune(h)
  PROVE  PriceInv'
<1>h. HandlersTypeOK /\ priced \in Cells /\ modelRows \in Cells
  BY DEF AdminTypeOK, CatalogTypeOK
<1>1. DeleteOrphans(my[h].target) /\ pc'[h] = "rows"
  BY <1>h DEF Prune, At, Begin, Go, HandlersTypeOK
<1>2. DOMAIN priced' = Vendors \X Models /\ DOMAIN modelRows' = Vendors \X Models
  BY <1>h, <1>1 DEF DeleteOrphans, Cells
<1>3. \A vm \in Vendors \X Models :
        \/ priced'[vm] = Absent
        \/ priced'[vm] = priced[vm] /\ modelRows'[vm] = modelRows[vm]
  BY <1>h, <1>1 DEF DeleteOrphans, Cells
<1>4. PricesKept'
  BY <1>h, <1>2, <1>3 DEF PriceInv, PricesKept, Cells
<1>5. SyncReads'
  BY <1>1, <1>3, ReadsStand
<1>6. QED
  BY <1>4, <1>5 DEF PriceInv

LEMMA PriceKept ==
  ASSUME AdminTypeOK, Solitude, PriceInv, NEW h \in Handlers, Handler(h) PROVE PriceInv'
<1>1. CASE UNCHANGED catalog
  BY <1>1, PricesStand DEF catalog
<1>2. CASE DropFaceRows(h) \/ SyncLists(h)
  BY <1>2, PricesStand DEF DropFaceRows, SyncLists, DeleteFaceModels, ReplaceFaceModels, catalog
<1>3. CASE At(h, "install") /\ LoadModels(h)
  <2>1. UNCHANGED <<modelRows, priced>>
    BY <1>3 DEF LoadModels, ReadRows, ReadFaceRows, InstallModels, At
  <2>2. QED
    BY <2>1, PricesStand
<1>4. QED
  BY <1>1, <1>2, <1>3, CatalogTouched, UpsertKeepsPrices, SavingKeepsPrices, PruningKeepsPrices

\* A price that an admin saved while nobody else was at work survives every sync with
\* the upstream: one that read the rows before the saving would have overlapped with it.
THEOREM AdminKeepsPrices == AdminSpec => []PricesKept
<1>1. AdminInit => PriceInv
  BY DEF AdminInit, CatalogInit, PriceInv, PricesKept, SyncReads
<1>2. BaseInv /\ PriceInv /\ [AdminNext]_admin => PriceInv'
  <2>1. CASE UNCHANGED admin
    BY <2>1 DEF admin, catalog, handlers, PriceInv, PricesKept, SyncReads
  <2>2. QED
    BY <2>1, PriceKept DEF BaseInv, AdminNext, AllEnded
<1>3. PriceInv => PricesKept
  BY DEF PriceInv
<1>4. QED
  BY <1>1, <1>2, <1>3, BaseCorrect, PTL DEF AdminSpec

-----------------------------------------------------------------------------
(* The manager's copies.                                                   *)

\* What a handler does where it is.
LEMMA Does ==
  ASSUME NEW h \in Handlers, Handler(h)
  PROVE  /\ pc[h] = "install" => LoadModels(h)
         /\ pc[h] = "orphans" => Prune(h)
         /\ pc[h] = "quota" => ReloadSwaps(h)
<1> USE DEF At, Begin
<1>1. CASE CreateKey(h) \/ DeleteKey(h) \/ PutRouteOrder(h)
  BY <1>1 DEF CreateKey, DeleteKey, PutRouteOrder, ReplaceOrder, ReloadProviderOrder
<1>2. CASE CreateStation(h) \/ UpdateStation(h) \/ DeleteStation(h)
  BY <1>2 DEF CreateStation, UpdateStation, DeleteStation, SaveStation, DropFaceRows, DropOrder,
              PurgeKeys, Fails
<1>3. CASE ReloadStations(h)
  BY <1>3 DEF ReloadStations, RelayList, RelayRemoves, RelayRows, RelaySync, RelaySyncWrites, Synced, Unsynced,
              RelayRegisters, RelayEnds, Fails
<1>4. CASE SyncModels(h) \/ SavePrice(h) \/ ConfigReload(h)
  BY <1>4 DEF SyncModels, SyncLists, SyncEnds, SyncUpserts, SavePrice, ConfigReload, Fails
<1>5. CASE Prune(h) \/ LoadModels(h)
  BY <1>5 DEF Prune, LoadModels, ReadRows, ReadFaceRows
<1>6. CASE ReloadPool(h)
  BY <1>6 DEF ReloadPool, ReloadNames, ReloadBuilds, ReloadCopies, ReloadVisits, ReloadRelays,
              ReloadSwaps
<1>7. QED
  BY <1>1, <1>2, <1>3, <1>4, <1>5, <1>6 DEF Handler

\* Only the end of a load leaves the models settled.
LEMMA ModelsSettledBy ==
  ASSUME AdminTypeOK, Solitude, NEW h \in Handlers, Handler(h), "models" \in settled'
  PROVE  Solo(h) /\ pc[h] = "install" /\ LoadModels(h)
<1>1. Solo(h) /\ Settles(h, settled')
  BY SettledBy
<1>2. my[h].covers \subseteq Vendors \cup {"stations", "leftovers", "unsynced"}
  BY DEF AdminTypeOK, HandlersTypeOK, MyType
<1>3. "models" \notin my[h].covers
  BY <1>2, NamesSorted DEF Tags
<1>4. pc[h] = "install"
  BY <1>1, <1>3 DEF Settles
<1>5. QED
  BY <1>1, <1>4, Does

LEMMA ReadsFreshKept ==
  ASSUME AdminTypeOK, Solitude, ReadsFresh, NEW h \in Handlers, Handler(h) PROVE ReadsFresh'
<1>h. HandlersTypeOK /\ my[h] \in MyType
  BY DEF AdminTypeOK, HandlersTypeOK
<1>1. ASSUME NEW g \in Handlers, Solo(g)', pc'[g] \in {"faceList", "install"}
      PROVE  my'[g].rows = modelRows' /\ (pc'[g] = "install" => my'[g].offers = faceRows')
  <2>1. g = h
    BY <1>1, NoOtherSolo
  <2>2. CASE pc'[h] = "faceList"
    <3>1. my'[h] = [my[h] EXCEPT !.rows = modelRows] /\ modelRows' = modelRows
      BY <1>h, <2>2, Enters DEF ReadRows, Put, HandlersTypeOK, Same, catalog
    <3>2. my'[h].rows = modelRows
      BY <1>h, <3>1 DEF MyType
    <3>3. QED
      BY <2>1, <2>2, <3>1, <3>2
  <2>3. CASE pc'[h] = "install"
    <3>1. pc[h] = "faceList" /\ my'[h] = [my[h] EXCEPT !.offers = faceRows]
      BY <1>h, <2>3, Enters DEF ReadFaceRows, At, Put, HandlersTypeOK
    <3>2. modelRows' = modelRows /\ faceRows' = faceRows
      BY <1>h, <2>3, Enters DEF ReadFaceRows, Same, catalog
    <3>3. ~(pc[h] = "idle")
      BY <3>1
    <3>4. Solo(h)
      BY <1>1, <2>1, <3>3, SoloBefore
    <3>5. my[h].rows = modelRows
      BY <3>1, <3>4 DEF ReadsFresh
    <3>6. my'[h].rows = my[h].rows /\ my'[h].offers = faceRows
      BY <1>h, <3>1 DEF MyType
    <3>7. QED
      BY <2>1, <3>2, <3>5, <3>6
  <2>4. QED
    BY <1>1, <2>1, <2>2, <2>3
<1>2. ModelsFresh'
  <2>1. SUFFICES ASSUME "models" \in settled' PROVE pricing' = modelRows' /\ faceModels' = faceRows'
    BY DEF ModelsFresh
  <2>2. Solo(h) /\ pc[h] = "install" /\ LoadModels(h)
    BY <2>1, ModelsSettledBy
  <2>3. my[h].rows = modelRows /\ my[h].offers = faceRows
    BY <2>2 DEF ReadsFresh
  <2>4. InstallModels(my[h].rows, my[h].offers)
    BY <2>2 DEF LoadModels, ReadRows, ReadFaceRows, At
  <2>5. QED
    BY <2>3, <2>4 DEF InstallModels
<1>3. QED
  BY <1>1, <1>2 DEF ReadsFresh

\* Once a handler that nobody disturbed has ended its load, the manager bills by the
\* prices and routes by the face rows of the database.
THEOREM AdminModelsFresh == AdminSpec => []ModelsFresh
<1>1. AdminInit => ReadsFresh
  BY DEF AdminInit, ReadsFresh, ModelsFresh, Solo, Busy
<1>2. BaseInv /\ ReadsFresh /\ [AdminNext]_admin => ReadsFresh'
  <2>1. CASE UNCHANGED admin
    BY <2>1 DEF admin, catalog, handlers, ReadsFresh, ModelsFresh, Solo, Busy
  <2>2. QED
    BY <2>1, ReadsFreshKept DEF BaseInv, AdminNext, AllEnded
<1>3. ReadsFresh => ModelsFresh
  BY DEF ReadsFresh
<1>4. QED
  BY <1>1, <1>2, <1>3, BaseCorrect, PTL DEF AdminSpec

-----------------------------------------------------------------------------
(* What the steps of a pool reload write.                                  *)

LEMMA NamesWritten ==
  ASSUME AdminTypeOK, Shapes, NEW h \in Handlers, ReloadNames(h)
  PROVE  LET v   == my[h].target
             its == {f \in loaded : VendorFor(f) = v}
         IN  /\ pc[h] = "names" /\ v \in Vendors \cup {"all"}
             /\ my[h].built = {} /\ my'[h].built = {} /\ my'[h].target = v
             /\ v = "all" => /\ pc'[h] = "visit" /\ my'[h].todo = Configured
                             /\ my'[h].covers = my[h].covers \cup Vendors
             /\ v # "all" => /\ pc'[h] = "build" /\ v \in Vendors
                             /\ my'[h].todo = IF its = {} THEN {v} ELSE its
                             /\ my'[h].covers = my[h].covers \cup {v}
<1>m. my[h] \in MyType /\ Fit(pc[h], my[h]) /\ HandlersTypeOK
  BY Held DEF AdminTypeOK
<1> DEFINE v == my[h].target
           its == IF v = "all" THEN Configured ELSE {f \in loaded : VendorFor(f) = v}
           todo == IF its = {} /\ v # "all" THEN {v} ELSE its
           covers == my[h].covers \cup IF v = "all" THEN Vendors ELSE {v}
           m == [my[h] EXCEPT !.todo = todo, !.covers = covers]
<1>1. pc[h] = "names" /\ v \in Vendors \cup {"all"} /\ my[h].built = {}
  BY <1>m DEF ReloadNames, At, Fit
<1>2. my'[h] = m /\ pc'[h] = IF v = "all" THEN "visit" ELSE "build"
  BY <1>m DEF ReloadNames, Put, Go, HandlersTypeOK
<1>3. /\ todo = IF v = "all" THEN Configured
                ELSE IF {f \in loaded : VendorFor(f) = v} = {} THEN {v}
                     ELSE {f \in loaded : VendorFor(f) = v}
      /\ v = "all" => covers = my[h].covers \cup Vendors
      /\ v # "all" => covers = my[h].covers \cup {v}
  OBVIOUS
<1> HIDE DEF todo, covers, its
<1>4. m.target = v /\ m.todo = todo /\ m.covers = covers /\ m.built = my[h].built
  BY <1>m DEF MyType
<1> HIDE DEF m
<1>5. QED
  BY <1>1, <1>2, <1>3, <1>4

LEMMA BuildWritten ==
  ASSUME AdminTypeOK, NEW h \in Handlers, NEW v \in Names, NEW fails \in BOOLEAN, Build(h, v, fails)
  PROVE  \E p \in PoolType :
           /\ p.vendor = v /\ (~fails => p.keys = KeysOf(v))
           /\ my'[h].built = my[h].built \cup {p}
           /\ my'[h].covers = IF fails THEN {} ELSE my[h].covers
           /\ my'[h].target = my[h].target /\ my'[h].todo = my[h].todo /\ my'[h].map = my[h].map
<1>m. my[h] \in MyType /\ HandlersTypeOK
  BY DEF AdminTypeOK, HandlersTypeOK
<1> DEFINE p == BuildOnePool(v, h, fails)
           covers == IF fails THEN {} ELSE my[h].covers
           m == [my[h] EXCEPT !.built = @ \cup {p}, !.covers = covers]
<1>1. p \in PoolType /\ p.vendor = v /\ (~fails => p.keys = KeysOf(v))
  BY PoolBuilt
<1>2. my'[h] = m
  BY <1>m DEF Build, Put, HandlersTypeOK
<1> HIDE DEF p, covers
<1>3. /\ m.built = my[h].built \cup {p} /\ m.covers = covers
      /\ m.target = my[h].target /\ m.todo = my[h].todo /\ m.map = my[h].map
  BY <1>m DEF MyType
<1> HIDE DEF m
<1>4. QED
  BY <1>1, <1>2, <1>3 DEF covers

LEMMA BuildsWritten ==
  ASSUME AdminTypeOK, Shapes, NEW h \in Handlers, ReloadBuilds(h)
  PROVE  /\ pc[h] = "build" /\ pc'[h] = "copy" /\ my[h].target \in Vendors
         /\ my[h].built = {} /\ UNCHANGED <<providers, pools>>
         /\ my'[h].target = my[h].target /\ my'[h].todo = my[h].todo /\ my'[h].map = my[h].map
         /\ \E p \in PoolType :
              /\ p.vendor = my[h].target /\ my'[h].built = {p}
              /\ \/ my'[h].covers = {}
                 \/ my'[h].covers = my[h].covers /\ p.keys = KeysOf(p.vendor)
<1>m. my[h] \in MyType /\ Fit(pc[h], my[h]) /\ HandlersTypeOK
  BY Held DEF AdminTypeOK
<1>1. pc[h] = "build" /\ my[h].target \in Vendors /\ my[h].built = {} /\ my[h].target \in Names
  BY <1>m, NamesSorted DEF ReloadBuilds, At, Fit
<1>2. PICK fails \in BOOLEAN : Build(h, my[h].target, fails)
  BY DEF ReloadBuilds
<1>3. pc'[h] = "copy"
  BY <1>m DEF ReloadBuilds, Go, HandlersTypeOK
<1>4. UNCHANGED <<providers, pools>>
  BY <1>2 DEF Build, Same
<1>5. QED
  BY <1>1, <1>2, <1>3, <1>4, BuildWritten

LEMMA CopiesWritten ==
  ASSUME AdminTypeOK, Shapes, NEW h \in Handlers, ReloadCopies(h)
  PROVE  /\ pc[h] = "copy" /\ pc'[h] = "visit" /\ my[h].target \in Vendors
         /\ UNCHANGED <<providers, pools>>
         /\ my'[h].target = my[h].target /\ my'[h].todo = my[h].todo
         /\ my'[h].built = my[h].built /\ my'[h].covers = my[h].covers
         /\ \E p \in my[h].built : my'[h].map = Under(serverPools, {p.vendor}, p)
<1>m. my[h] \in MyType /\ Fit(pc[h], my[h]) /\ HandlersTypeOK
  BY Held DEF AdminTypeOK
<1>1. pc[h] = "copy" /\ pc'[h] = "visit" /\ my[h].target \in Vendors /\ UNCHANGED <<providers, pools>>
  BY <1>m DEF ReloadCopies, At, Go, HandlersTypeOK, Fit, Same
<1>2. PICK p \in my[h].built : Put(h, [my[h] EXCEPT !.map = Under(serverPools, {p.vendor}, p)])
  BY DEF ReloadCopies
<1> DEFINE map == Under(serverPools, {p.vendor}, p)
           m == [my[h] EXCEPT !.map = map]
<1>3. my'[h] = m
  BY <1>m, <1>2 DEF Put, HandlersTypeOK
<1> HIDE DEF map
<1>4. /\ m.target = my[h].target /\ m.todo = my[h].todo /\ m.built = my[h].built
      /\ m.covers = my[h].covers /\ m.map = map
  BY <1>m DEF MyType
<1> HIDE DEF m
<1>5. QED
  BY <1>1, <1>3, <1>4 DEF map

\* The vendor whose pool the name gets.
Owner(h, f) == IF Full(h) THEN VendorFor(f) ELSE my[h].target

VisitBuilds(h) ==
  /\ UNCHANGED <<providers, pools>>
  /\ \E f \in my[h].todo : \E p \in PoolType :
       /\ Built(h, Owner(h, f)) = {}
       /\ p.vendor = Owner(h, f) /\ my'[h].built = my[h].built \cup {p}
       /\ \/ my'[h].covers = {}
          \/ my'[h].covers = my[h].covers /\ p.keys = KeysOf(p.vendor)
  /\ my'[h].todo = my[h].todo /\ my'[h].map = my[h].map

VisitEnters(h) ==
  /\ UNCHANGED providers
  /\ \E f \in my[h].todo : \E p \in Built(h, Owner(h, f)) :
       /\ IF f \in Faces THEN SetPool(f, p) ELSE UNCHANGED pools
       /\ my'[h].todo = my[h].todo \ {f}
       /\ my'[h].map = Under(my[h].map, Entered(h, f, Owner(h, f)), p)
  /\ my'[h].built = my[h].built /\ my'[h].covers = my[h].covers

LEMMA VisitsWritten ==
  ASSUME AdminTypeOK, Shapes, NEW h \in Handlers, ReloadVisits(h)
  PROVE  /\ pc[h] = "visit" /\ pc'[h] = "visit" /\ my'[h].target = my[h].target
         /\ my[h].target \in Vendors \cup {"all", "relays"}
         /\ VisitBuilds(h) \/ VisitEnters(h)
<1>m. /\ my[h] \in MyType /\ Fit(pc[h], my[h]) /\ HandlersTypeOK
      /\ registered \subseteq RelayFaces /\ my[h].todo \subseteq Names
  BY Held DEF AdminTypeOK, ProvidersTypeOK
<1>1. PICK f \in my[h].todo :
        \/ /\ Built(h, Owner(h, f)) = {}
           /\ \E fails \in BOOLEAN : Build(h, Owner(h, f), fails) /\ (Stay(h) \/ UNCHANGED pc)
        \/ \E p \in Built(h, Owner(h, f)) :
             /\ IF f \in Faces THEN SetPool(f, p) ELSE UNCHANGED pools
             /\ Put(h, [my[h] EXCEPT !.todo = @ \ {f},
                                     !.map = Under(@, Entered(h, f, Owner(h, f)), p)])
             /\ Stay(h) /\ UNCHANGED providers
  BY DEF ReloadVisits, Owner
<1>2. pc[h] = "visit" /\ my[h].target \in Vendors \cup {"all", "relays"}
  BY <1>m DEF ReloadVisits, At, Fit
<1>3. Owner(h, f) \in Names
  BY <1>m, <1>1, <1>2, VendorForType, NamesSorted DEF Owner, Full
<1>4. pc'[h] = "visit"
  BY <1>m, <1>1, <1>2 DEF Stay, Go, HandlersTypeOK
<1>5. ASSUME NEW fails \in BOOLEAN, Build(h, Owner(h, f), fails), Built(h, Owner(h, f)) = {}
      PROVE  my'[h].target = my[h].target /\ VisitBuilds(h)
  <2>1. UNCHANGED <<providers, pools>>
    BY <1>5 DEF Build, Same
  <2>2. QED
    BY <1>1, <1>3, <1>5, <2>1, BuildWritten DEF VisitBuilds
<1>6. ASSUME NEW p \in Built(h, Owner(h, f)), UNCHANGED providers,
             IF f \in Faces THEN SetPool(f, p) ELSE UNCHANGED pools,
             Put(h, [my[h] EXCEPT !.todo = @ \ {f}, !.map = Under(@, Entered(h, f, Owner(h, f)), p)])
      PROVE  my'[h].target = my[h].target /\ VisitEnters(h)
  <2> DEFINE map == Under(my[h].map, Entered(h, f, Owner(h, f)), p)
             todo == my[h].todo \ {f}
             m == [my[h] EXCEPT !.todo = todo, !.map = map]
  <2>1. my'[h] = m
    BY <1>m, <1>6 DEF Put, HandlersTypeOK
  <2> HIDE DEF map, todo
  <2>2. /\ m.target = my[h].target /\ m.todo = todo /\ m.built = my[h].built
        /\ m.covers = my[h].covers /\ m.map = map
    BY <1>m DEF MyType
  <2> HIDE DEF m
  <2>3. QED
    BY <1>1, <1>6, <2>1, <2>2 DEF VisitEnters, map, todo
<1>7. QED
  BY <1>1, <1>2, <1>4, <1>5, <1>6

LEMMA RelaysWritten ==
  ASSUME AdminTypeOK, Shapes, NEW h \in Handlers, ReloadRelays(h)
  PROVE  /\ pc[h] = "visit" /\ my[h].todo = {} /\ UNCHANGED <<providers, pools>>
         /\ my'[h].built = my[h].built /\ my'[h].map = my[h].map /\ my'[h].covers = my[h].covers
         /\ my[h].target = "all" =>
              /\ pc'[h] = "visit" /\ my'[h].target = "relays"
              /\ my'[h].todo = {f \in loaded : f \in registered}
         /\ my[h].target # "all" => pc'[h] = "server" /\ my'[h] = my[h]
<1>m. my[h] \in MyType /\ HandlersTypeOK
  BY Held DEF AdminTypeOK
<1>1. pc[h] = "visit" /\ my[h].todo = {} /\ UNCHANGED <<providers, pools>>
  BY DEF ReloadRelays, At, Same
<1>2. CASE my[h].target = "all"
  <2> DEFINE todo == {f \in loaded : f \in registered}
             m == [my[h] EXCEPT !.todo = todo, !.target = "relays"]
  <2>1. my'[h] = m /\ pc'[h] = "visit"
    BY <1>m, <1>1, <1>2 DEF ReloadRelays, Put, Stay, Go, HandlersTypeOK, IsRelay
  <2> HIDE DEF todo
  <2>2. /\ m.target = "relays" /\ m.todo = todo /\ m.built = my[h].built
        /\ m.covers = my[h].covers /\ m.map = my[h].map
    BY <1>m DEF MyType
  <2> HIDE DEF m
  <2>3. QED
    BY <1>1, <1>2, <2>1, <2>2 DEF todo
<1>3. CASE my[h].target # "all"
  BY <1>m, <1>1, <1>3 DEF ReloadRelays, Keep, Go, HandlersTypeOK
<1>4. QED
  BY <1>2, <1>3

-----------------------------------------------------------------------------
(* One pool for the faces of a configured vendor.                          *)

LEMMA NamesMapped ==
  ASSUME BaseInv, NEW h \in Handlers, ReloadNames(h) PROVE MapFit(pc'[h], my'[h])
<1>b. AdminTypeOK /\ Shapes /\ Loads /\ registered \subseteq RelayFaces
  BY DEF BaseInv, MetaInv, AdminTypeOK, ProvidersTypeOK
<1>t. "all" \notin Vendors
  BY NamesSorted DEF Tags
<1> DEFINE v == my[h].target
           its == {f \in loaded : VendorFor(f) = v}
<1>1. CASE v = "all"
  <2>1. /\ pc'[h] = "visit" /\ my'[h].todo = Configured /\ my'[h].target = "all"
        /\ my'[h].built = {}
    BY <1>b, <1>1, NamesWritten
  <2>2. OneEach(my'[h].built) /\ FullMap(my'[h])
    BY <2>1 DEF OneEach, FullMap
  <2>3. QED
    BY <1>t, <2>1, <2>2 DEF MapFit
<1>2. CASE v # "all"
  <2>1. /\ pc'[h] = "build" /\ my'[h].target = v
        /\ my'[h].todo = IF its = {} THEN {v} ELSE its
    BY <1>b, <1>2, NamesWritten
  <2>2. ASSUME NEW f \in Configured PROVE f \in my'[h].todo <=> VendorOf[f] = v
    <3>1. f \in loaded /\ VendorFor(f) = VendorOf[f]
      BY <1>b, NamesSorted, VendorForType DEF Loads
    <3>2. f \in its <=> VendorOf[f] = v
      BY <3>1
    <3>3. f = v => VendorOf[f] = v
      <4>1. f = v => f \in Vendors /\ f \in Faces
        BY <1>2, <1>b, NamesWritten, NamesSorted
      <4>2. QED
        BY <4>1, OneVendor
    <3> HIDE DEF its
    <3>4. QED
      BY <2>1, <3>2, <3>3
  <2>3. TodoOf(my'[h])
    BY <2>1, <2>2 DEF TodoOf
  <2>4. QED
    BY <2>1, <2>3 DEF MapFit
<1>3. QED
  BY <1>1, <1>2

LEMMA CopiesMapped ==
  ASSUME BaseInv, Mapped, NEW h \in Handlers, ReloadCopies(h) PROVE MapFit(pc'[h], my'[h])
<1>b. AdminTypeOK /\ Shapes
  BY DEF BaseInv
<1>1. /\ pc[h] = "copy" /\ pc'[h] = "visit" /\ my[h].target \in Vendors
      /\ my'[h].target = my[h].target /\ my'[h].todo = my[h].todo /\ my'[h].built = my[h].built
  BY <1>b, CopiesWritten
<1>2. PICK p \in my[h].built : my'[h].map = Under(serverPools, {p.vendor}, p)
  BY <1>b, CopiesWritten
<1>3. TodoOf(my[h]) /\ OneBuilt(my[h]) /\ Shared(serverPools)
  BY <1>1 DEF Mapped, MapFit, MapsShared
<1>4. p \in PoolType /\ p.vendor = my[h].target /\ my[h].built = {p} /\ p # NoPool
  BY <1>2, <1>3, NamesSorted DEF OneBuilt
<1>5. \A f \in Configured : my'[h].map[f] = IF f = my[h].target THEN p ELSE serverPools[f]
  BY <1>2, <1>4, NamesSorted DEF Under
<1>6. \A f \in Configured : f = my[h].target => VendorOf[f] = my[h].target
  BY <1>1, OneVendor, NamesSorted
<1>7. /\ \A f \in Configured : my'[h].map[f] # NoPool
      /\ \A f, g \in Configured : VendorOf[f] = VendorOf[g] /\ VendorOf[f] # my[h].target
                                    => my'[h].map[f] = my'[h].map[g]
  BY <1>3, <1>4, <1>5, <1>6 DEF Shared
<1>8. VendorMap(my'[h])
  BY <1>1, <1>3, <1>7 DEF VendorMap, TodoOf, OneBuilt
<1>9. OneEach(my'[h].built)
  BY <1>1, <1>4 DEF OneEach
<1>10. my'[h].target \notin {"all", "relays"}
  BY <1>1, NamesSorted DEF Tags
<1>11. QED
  BY <1>1, <1>8, <1>9, <1>10 DEF MapFit

LEMMA VisitsMapped ==
  ASSUME BaseInv, Mapped, NEW h \in Handlers, ReloadVisits(h) PROVE MapFit(pc'[h], my'[h])
<1>b. AdminTypeOK /\ Shapes /\ registered \subseteq RelayFaces
  BY DEF BaseInv, AdminTypeOK, ProvidersTypeOK
<1>1. /\ pc[h] = "visit" /\ pc'[h] = "visit" /\ my'[h].target = my[h].target
      /\ my[h].target \in Vendors \cup {"all", "relays"} /\ (VisitBuilds(h) \/ VisitEnters(h))
  BY <1>b, VisitsWritten
<1>2. /\ OneEach(my[h].built)
      /\ my[h].target \in Vendors => VendorMap(my[h])
      /\ my[h].target \in {"all", "relays"} => FullMap(my[h])
  BY <1>1 DEF Mapped, MapFit
<1>m. /\ my[h].todo \subseteq Names /\ my[h].map \in PoolMaps
      /\ my[h].target = "all" => my[h].todo \subseteq Configured
      /\ my[h].target = "relays" => my[h].todo \subseteq RelayFaces
      /\ my[h].built \subseteq PoolType
  BY <1>b, <1>1, Held DEF Fit
<1>t. my[h].target \in Vendors <=> ~Full(h)
  BY <1>1, NamesSorted DEF Tags, Full
<1>3. CASE VisitBuilds(h)
  <2>1. PICK f \in my[h].todo, p \in PoolType :
          /\ Built(h, Owner(h, f)) = {}
          /\ p.vendor = Owner(h, f) /\ my'[h].built = my[h].built \cup {p}
    BY <1>3 DEF VisitBuilds
  <2>2. my'[h].todo = my[h].todo /\ my'[h].map = my[h].map
    BY <1>3 DEF VisitBuilds
  <2>3. my[h].target \notin Vendors
    <3>1. SUFFICES ASSUME my[h].target \in Vendors PROVE FALSE
      OBVIOUS
    <3>2. OneBuilt(my[h]) /\ Owner(h, f) = my[h].target
      BY <1>2, <1>t, <3>1 DEF VendorMap, Owner
    <3>3. QED
      BY <2>1, <3>2 DEF OneBuilt, Built
  <2>4. FullMap(my'[h])
    BY <1>1, <1>2, <2>1, <2>2, <2>3 DEF FullMap
  <2>5. OneEach(my'[h].built)
    BY <1>2, <2>1 DEF OneEach, Built
  <2>6. QED
    BY <1>1, <2>3, <2>4, <2>5 DEF MapFit
<1>4. CASE VisitEnters(h)
  <2>0. PICK f \in my[h].todo : \E p \in Built(h, Owner(h, f)) :
          /\ my'[h].todo = my[h].todo \ {f}
          /\ my'[h].map = Under(my[h].map, Entered(h, f, Owner(h, f)), p)
    BY <1>4 DEF VisitEnters
  <2>1. PICK p \in Built(h, Owner(h, f)) :
          /\ my'[h].todo = my[h].todo \ {f}
          /\ my'[h].map = Under(my[h].map, Entered(h, f, Owner(h, f)), p)
    BY <2>0
  <2>2. my'[h].built = my[h].built /\ p \in my[h].built /\ p.vendor = Owner(h, f) /\ p # NoPool
    BY <1>4, <1>m, NamesSorted DEF VisitEnters, Built
  <2>3. \A x \in Names : my'[h].map[x] = IF x \in Entered(h, f, Owner(h, f)) THEN p ELSE my[h].map[x]
    BY <2>1 DEF Under
  <2>4. CASE my[h].target \in Vendors
    <3>1. VendorMap(my[h]) /\ Owner(h, f) = my[h].target /\ Entered(h, f, Owner(h, f)) = {f}
      BY <1>2, <1>t, <2>4 DEF Owner, Entered, Full
    <3>2. \A x \in Configured : my'[h].map[x] = IF x = f THEN p ELSE my[h].map[x]
      BY <2>3, <3>1, NamesSorted
    <3>3. VendorMap(my'[h])
      <4>1. OneBuilt(my'[h])
        BY <1>1, <2>2, <3>1 DEF VendorMap, OneBuilt
      <4>2. \A x \in Configured : /\ my'[h].map[x] # NoPool
                                  /\ x \in my'[h].todo => VendorOf[x] = my'[h].target
        BY <1>1, <2>1, <2>2, <3>1, <3>2 DEF VendorMap
      <4>3. \A x \in Configured : VendorOf[x] = my'[h].target =>
                                    x \in my'[h].todo \/ my'[h].map[x] \in my'[h].built
        BY <1>1, <2>1, <2>2, <3>1, <3>2 DEF VendorMap
      <4>4. \A x, y \in Configured : VendorOf[x] = VendorOf[y] /\ VendorOf[x] # my'[h].target
                                       => my'[h].map[x] = my'[h].map[y]
        BY <1>1, <2>1, <3>1, <3>2 DEF VendorMap
      <4>5. QED
        BY <4>1, <4>2, <4>3, <4>4 DEF VendorMap
    <3>4. QED
      BY <1>1, <1>2, <1>t, <2>2, <2>4, <3>3 DEF MapFit, Full
  <2>5. CASE my[h].target = "all"
    <3>1. f \in Configured /\ f \in Names /\ Owner(h, f) = VendorOf[f] /\ Entered(h, f, Owner(h, f)) = {f}
      BY <1>b, <1>m, <2>5, VendorForType DEF Owner, Full, Entered
    <3>2. \A x \in Configured : my'[h].map[x] = IF x = f THEN p ELSE my[h].map[x]
      BY <2>3, <3>1, NamesSorted
    <3>3. FullMap(my'[h])
      BY <1>1, <1>2, <2>1, <2>2, <2>5, <3>1, <3>2 DEF FullMap
    <3>4. QED
      BY <1>1, <1>2, <1>t, <2>2, <2>5, <3>3 DEF MapFit, Full
  <2>6. CASE my[h].target = "relays"
    <3>1. f \in RelayFaces /\ f \in Names /\ Owner(h, f) = VendorFor(f)
      BY <1>m, <2>6 DEF Owner, Full
    <3>2. ASSUME NEW x \in Configured PROVE x \notin Entered(h, f, Owner(h, f))
      <4>1. x # f /\ x \in Faces
        BY <3>1, NamesSorted DEF Configured
      <4>2. x \notin Stations
        BY <4>1, RelaysAndConfigured
      <4>3. VendorFor(f) \in Stations \/ VendorFor(f) = f
        BY <1>b, <3>1, VendorForType DEF Configured
      <4>4. QED
        BY <2>6, <3>1, <4>1, <4>2, <4>3 DEF Entered
    <3>3. \A x \in Configured : my'[h].map[x] = my[h].map[x]
      BY <2>3, <3>2, NamesSorted
    <3>4. FullMap(my'[h])
      BY <1>1, <1>2, <2>2, <2>6, <3>3 DEF FullMap
    <3>5. QED
      BY <1>1, <1>2, <1>t, <2>2, <2>6, <3>4 DEF MapFit, Full
  <2>7. QED
    BY <1>1, <2>4, <2>5, <2>6
<1>5. QED
  BY <1>1, <1>3, <1>4

LEMMA RelaysMapped ==
  ASSUME BaseInv, Mapped, NEW h \in Handlers, ReloadRelays(h) PROVE MapFit(pc'[h], my'[h])
<1>b. AdminTypeOK /\ Shapes
  BY DEF BaseInv
<1>1. /\ pc[h] = "visit" /\ my[h].todo = {}
      /\ my'[h].built = my[h].built /\ my'[h].map = my[h].map
  BY <1>b, RelaysWritten
<1>2. /\ OneEach(my[h].built)
      /\ my[h].target \in Vendors => VendorMap(my[h])
      /\ my[h].target \in {"all", "relays"} => FullMap(my[h])
  BY <1>1 DEF Mapped, MapFit
<1>m. my[h].target \in Vendors \cup {"all", "relays"} /\ my[h].built \subseteq PoolType
  BY <1>b, <1>1, Held DEF Fit
<1>t. {"all", "relays"} \cap Vendors = {}
  BY NamesSorted DEF Tags
<1>3. CASE my[h].target = "all"
  <2>1. pc'[h] = "visit" /\ my'[h].target = "relays"
    BY <1>b, <1>3, RelaysWritten
  <2>2. FullMap(my'[h])
    BY <1>1, <1>2, <1>3 DEF FullMap
  <2>3. QED
    BY <1>1, <1>2, <1>t, <2>1, <2>2 DEF MapFit
<1>4. CASE my[h].target # "all"
  <2>1. pc'[h] = "server" /\ my'[h] = my[h]
    BY <1>b, <1>4, RelaysWritten
  <2>2. Shared(my[h].map)
    <3>1. CASE my[h].target \in Vendors
      BY <1>1, <1>2, <3>1 DEF VendorMap, OneBuilt, Shared
    <3>2. CASE my[h].target = "relays"
      BY <1>1, <1>2, <1>m, <3>2, NamesSorted DEF FullMap, OneEach, Shared
    <3>3. QED
      BY <1>m, <1>4, <3>1, <3>2
  <2>3. QED
    BY <2>1, <2>2 DEF MapFit
<1>5. QED
  BY <1>3, <1>4

LEMMA ReloadMapped ==
  ASSUME BaseInv, Mapped, NEW h \in Handlers, Handler(h) PROVE MapFit(pc'[h], my'[h])
<1>b. AdminTypeOK /\ Shapes /\ HandlersTypeOK
  BY DEF BaseInv, AdminTypeOK
<1>1. CASE ReloadNames(h) \/ ReloadCopies(h) \/ ReloadVisits(h) \/ ReloadRelays(h)
  BY <1>1, NamesMapped, CopiesMapped, VisitsMapped, RelaysMapped
<1>2. CASE ReloadBuilds(h)
  <2>1. /\ pc[h] = "build" /\ pc'[h] = "copy"
        /\ my'[h].target = my[h].target /\ my'[h].todo = my[h].todo
        /\ \E p \in PoolType : p.vendor = my[h].target /\ my'[h].built = {p}
    BY <1>b, <1>2, BuildsWritten
  <2>2. TodoOf(my'[h])
    BY <2>1 DEF Mapped, MapFit, TodoOf
  <2>3. QED
    BY <2>1, <2>2 DEF MapFit, OneBuilt
<1>3. CASE ReloadSwaps(h)
  <2>1. CASE pc'[h] \in {"router", "quota"}
    <3>1. pc[h] \in {"server", "router"} /\ my'[h] = my[h]
      BY <1>b, <1>3, <2>1, Enters DEF ReloadSwaps, At, Keep, Ends, Finish, HandlersTypeOK
    <3>2. QED
      BY <2>1, <3>1 DEF Mapped, MapFit
  <2>2. CASE pc'[h] = "done"
    BY <2>2 DEF MapFit
  <2>3. QED
    BY <1>b, <1>3, <2>1, <2>2 DEF ReloadSwaps, Go, Ends, Finish, HandlersTypeOK
<1>4. CASE pc'[h] \notin {"build", "copy", "visit", "server", "router", "quota"}
  BY <1>4 DEF MapFit
<1>5. QED
  BY <1>b, <1>1, <1>2, <1>3, <1>4, Enters

LEMMA MapsTouched ==
  ASSUME NEW h, Handler(h)
  PROVE  UNCHANGED <<serverPools, routerPools, quotaPools>> \/ ReloadSwaps(h)
<1> USE DEF Maps
<1>1. CASE (At(h, "create") /\ CreateKey(h)) \/ (At(h, "delete") /\ DeleteKey(h)) \/ PurgeKeys(h)
  BY <1>1 DEF At, CreateKey, DeleteKey, PurgeKeys, CreateRows, DeleteRows, Begin, Same, pools
<1>2. CASE RelaySyncWrites(h) \/ (At(h, "add") /\ RelayRegisters(h))
  BY <1>2 DEF At, RelaySyncWrites, Synced, Unsynced, RelayRegisters, CreateRows, DeleteRows, NewInstance, pools
<1>3. CASE ReloadVisits(h)
  BY <1>3 DEF ReloadVisits, Build, SetPool, Same, pools
<1>4. CASE UNCHANGED pools
  BY <1>4 DEF pools
<1>5. QED
  BY <1>1, <1>2, <1>3, <1>4, PoolsTouched

LEMMA SwapsShared ==
  ASSUME AdminTypeOK, Mapped, NEW h \in Handlers, ReloadSwaps(h) PROVE MapsShared'
<1>1. pc[h] \in {"server", "router", "quota"}
  BY DEF ReloadSwaps, At
<1>2. Shared(my[h].map) /\ MapsShared
  BY <1>1 DEF Mapped, MapFit
<1>3. CASE SwapServer(my[h].map)
  BY <1>2, <1>3 DEF SwapServer, MapsShared, Shared
<1>4. CASE SwapRouter(my[h].map)
  BY <1>2, <1>4 DEF SwapRouter, MapsShared, Shared
<1>5. CASE SwapQuota(my[h].map)
  BY <1>2, <1>5 DEF SwapQuota, MapsShared, Shared
<1>6. QED
  BY <1>3, <1>4, <1>5 DEF ReloadSwaps

LEMMA MappedKept ==
  ASSUME BaseInv, Mapped, NEW h \in Handlers, Handler(h) PROVE Mapped'
<1>h. AdminTypeOK /\ HandlersTypeOK
  BY DEF BaseInv, AdminTypeOK
<1>1. ASSUME NEW g \in Handlers PROVE MapFit(pc'[g], my'[g])
  <2>1. CASE g = h
    BY <2>1, ReloadMapped
  <2>2. CASE g # h
    BY <1>h, <2>2, Others DEF Mapped
  <2>3. QED
    BY <2>1, <2>2
<1>2. MapsShared'
  BY <1>h, MapsTouched, SwapsShared DEF Mapped, MapsShared, Shared
<1>3. QED
  BY <1>1, <1>2 DEF Mapped

LEMMA InitMapped == AdminInit => Mapped
<1>1. SUFFICES ASSUME AdminInit PROVE Mapped
  OBVIOUS
<1>2. Configured \subseteq loaded
  BY <1>1 DEF AdminInit, ProvidersInit
<1>3. \A h \in Handlers : pc[h] = "idle"
  BY <1>1 DEF AdminInit
<1>4. PICK rows : PoolsInit(rows)
  BY <1>1 DEF AdminInit
<1> DEFINE pool(v) == Pool(v, {k \in rows : KeyOwner[k] = v}, "boot")
           map == [n \in Names |->
                     CASE n \in loaded -> pool(VendorOf[n])
                       [] n \in Stations /\ FacesOf[n] \cap loaded # {} -> pool(n)
                       [] OTHER -> NoPool]
<1>5. serverPools = map /\ routerPools = map /\ quotaPools = map
  BY <1>4 DEF PoolsInit
<1>6. \A f \in Configured : map[f] = pool(VendorOf[f])
  <2> HIDE DEF pool
  <2>1. ASSUME NEW f \in Configured PROVE map[f] = pool(VendorOf[f])
    <3>1. f \in Names /\ f \in loaded /\ f \notin Stations
      BY <1>2, NamesSorted, RelaysAndConfigured
    <3>2. QED
      BY <3>1
  <2>2. QED
    BY <2>1
<1>7. \A f \in Configured : map[f] # NoPool
  <2>1. rows \subseteq Keys
    BY <1>1, <1>4, InitTyped DEF PoolsInit, AdminTypeOK, PoolsTypeOK
  <2>2. \A v \in Vendors : pool(v) \in PoolType
    BY <2>1, NamesSorted DEF Pool, PoolType
  <2> HIDE DEF pool, map
  <2>3. QED
    BY <1>6, <2>2, OneVendor, NamesSorted
<1> HIDE DEF map, pool
<1>8. Shared(map)
  BY <1>6, <1>7 DEF Shared
<1>10. QED
  BY <1>3, <1>5, <1>8 DEF Mapped, MapFit, MapsShared

LEMMA MappedCorrect == AdminSpec => []Mapped
<1>1. BaseInv /\ Mapped /\ [AdminNext]_admin => Mapped'
  <2>1. CASE UNCHANGED admin
    BY <2>1 DEF admin, pools, handlers, Mapped, MapsShared, Shared
  <2>2. QED
    BY <2>1, MappedKept DEF AdminNext, AllEnded
<1>2. QED
  BY <1>1, InitMapped, BaseCorrect, PTL DEF AdminSpec

\* However many handlers rebuild pools at once, the faces of a configured vendor have in
\* each of the three maps one pool and the same: each reload enters all of them or none.
THEOREM AdminVendorShared == AdminSpec => []VendorShared
<1>1. Mapped => VendorShared
  BY DEF Mapped, MapsShared, Shared, VendorShared
<1>2. QED
  BY <1>1, MappedCorrect, PTL

-----------------------------------------------------------------------------
(* Names registered but not loaded.                                        *)

Reloading(h) == \/ RelayRemoves(h) \/ RelayRows(h) \/ RelaySync(h) \/ RelaySyncWrites(h)
                \/ RelayRegisters(h) \/ RelayEnds(h) \/ Fails(h, "remove")

\* What a handler does in a reload.
LEMMA DoesReload ==
  ASSUME NEW h \in Handlers, Handler(h)
  PROVE  /\ pc[h] \in RelayStages => Reloading(h)
         /\ pc[h] \in PoolStages => ReloadPool(h)
<1> USE DEF At, Begin, RelayStages, PoolStages
<1>1. CASE CreateKey(h) \/ DeleteKey(h) \/ PutRouteOrder(h)
  BY <1>1 DEF CreateKey, DeleteKey, PutRouteOrder, ReplaceOrder, ReloadProviderOrder
<1>2. CASE CreateStation(h) \/ UpdateStation(h) \/ DeleteStation(h)
  BY <1>2 DEF CreateStation, UpdateStation, DeleteStation, SaveStation, DropFaceRows, DropOrder,
              PurgeKeys, Fails
<1>3. CASE ReloadStations(h)
  <2>1. CASE Begin(h, "reload", "relays", "all") \/ RelayList(h)
    BY <2>1 DEF RelayList
  <2>2. CASE Reloading(h)
    BY <2>2 DEF Reloading, RelayRemoves, RelayRows, RelaySync, RelaySyncWrites, Synced, Unsynced,
                RelayRegisters, RelayEnds, Fails
  <2>3. QED
    BY <1>3, <2>1, <2>2 DEF ReloadStations, Reloading
<1>4. CASE SyncModels(h) \/ SavePrice(h) \/ ConfigReload(h)
  BY <1>4 DEF SyncModels, SyncLists, SyncEnds, SyncUpserts, SavePrice, ConfigReload, Fails
<1>5. CASE Prune(h) \/ LoadModels(h)
  BY <1>5 DEF Prune, LoadModels, ReadRows, ReadFaceRows
<1>6. CASE ReloadPool(h)
  BY <1>6 DEF ReloadPool, ReloadNames, ReloadBuilds, ReloadCopies, ReloadVisits, ReloadRelays,
              ReloadSwaps
<1>7. QED
  BY <1>1, <1>2, <1>3, <1>4, <1>5, <1>6 DEF Handler

\* A face between the two steps that load or unload it.
Handed(g, f) == \/ pc[g] = "add" /\ my[g].merged = {f}
                \/ pc[g] = "unregister" /\ my[g].seen = {f}

LEMMA AddWritten ==
  ASSUME AdminTypeOK, Shapes, NEW h \in Handlers, RelayRegisters(h), pc[h] = "add"
  PROVE  \E f \in my[h].seen :
           /\ my[h].merged = {f} /\ AddProvider(f) /\ NewInstance(f)
           /\ pc'[h] = "register" /\ my'[h].seen = my[h].seen \ {f}
           /\ my'[h].target = my[h].target /\ my'[h].list = my[h].list
           /\ my'[h].covers = my[h].covers /\ UNCHANGED stations
<1>m. my[h] \in MyType /\ Fit(pc[h], my[h]) /\ HandlersTypeOK
  BY Held DEF AdminTypeOK
<1>1. PICK f \in my[h].merged :
        /\ AddProvider(f) /\ NewInstance(f)
        /\ Put(h, [my[h] EXCEPT !.seen = @ \ {f}, !.merged = {}])
  BY DEF RelayRegisters, At
<1>2. f \in my[h].seen /\ my[h].merged = {f}
  BY <1>m, <1>1 DEF Fit
<1>3. pc'[h] = "register" /\ UNCHANGED stations
  BY <1>m DEF RelayRegisters, At, Go, HandlersTypeOK
<1> DEFINE seen == my[h].seen \ {f}
           m == [my[h] EXCEPT !.seen = seen, !.merged = {}]
<1>4. my'[h] = m
  BY <1>m, <1>1 DEF Put, HandlersTypeOK
<1> HIDE DEF seen
<1>5. m.seen = seen /\ m.target = my[h].target /\ m.list = my[h].list /\ m.covers = my[h].covers
  BY <1>m DEF MyType
<1> HIDE DEF m
<1>6. QED
  BY <1>1, <1>2, <1>3, <1>4, <1>5 DEF seen

LEMMA RegisterWritten ==
  ASSUME AdminTypeOK, Shapes, NEW h \in Handlers, RelayRegisters(h), pc[h] = "register"
  PROVE  /\ my'[h].seen = my[h].seen /\ my'[h].target = my[h].target
         /\ my'[h].covers = my[h].covers /\ UNCHANGED <<catalog, pools, stations>>
         /\ \/ \E f \in my[h].seen :
                 /\ RegisterRelay(f) /\ pc'[h] = "add"
                 /\ my'[h].merged = {f} /\ my'[h].list = my[h].list
            \/ /\ my[h].seen = {} /\ UNCHANGED providers /\ pc'[h] = "station"
               /\ my'[h].list = {st \in my[h].list : st[1] # my[h].target}
<1>m. my[h] \in MyType /\ Fit(pc[h], my[h]) /\ HandlersTypeOK
  BY Held DEF AdminTypeOK
<1>1. CASE \E f \in my[h].seen : RegisterRelay(f) /\ Put(h, [my[h] EXCEPT !.merged = {f}])
           /\ Go(h, "add") /\ UNCHANGED <<catalog, pools, stations>>
  <2>1. PICK f \in my[h].seen : RegisterRelay(f) /\ Put(h, [my[h] EXCEPT !.merged = {f}])
    BY <1>1
  <2> DEFINE m == [my[h] EXCEPT !.merged = {f}]
  <2>2. my'[h] = m /\ pc'[h] = "add" /\ UNCHANGED <<catalog, pools, stations>>
    BY <1>m, <1>1, <2>1 DEF Put, Go, HandlersTypeOK
  <2>3. /\ m.merged = {f} /\ m.seen = my[h].seen /\ m.target = my[h].target
        /\ m.list = my[h].list /\ m.covers = my[h].covers
    BY <1>m DEF MyType
  <2> HIDE DEF m
  <2>4. QED
    BY <2>1, <2>2, <2>3
<1>2. CASE /\ my[h].seen = {}
           /\ Put(h, [my[h] EXCEPT !.list = {st \in @ : st[1] # my[h].target}])
           /\ Go(h, "station") /\ Same
  <2> DEFINE list == {st \in my[h].list : st[1] # my[h].target}
             m == [my[h] EXCEPT !.list = list]
  <2>1. my'[h] = m /\ pc'[h] = "station" /\ UNCHANGED <<providers, catalog, pools, stations>>
    BY <1>m, <1>2 DEF Put, Go, HandlersTypeOK, Same
  <2> HIDE DEF list
  <2>2. /\ m.list = list /\ m.seen = my[h].seen /\ m.target = my[h].target
        /\ m.covers = my[h].covers
    BY <1>m DEF MyType
  <2> HIDE DEF m
  <2>3. QED
    BY <1>2, <2>1, <2>2 DEF list
<1>3. QED
  BY <1>1, <1>2 DEF RelayRegisters, At

LEMMA RemoveWritten ==
  ASSUME AdminTypeOK, Shapes, NEW h \in Handlers, RelayRemoves(h)
  PROVE  /\ my'[h].covers = my[h].covers /\ UNCHANGED <<catalog, pools, stations>>
         /\ \/ /\ pc[h] = "remove" /\ pc'[h] = "unregister" /\ my'[h].todo = my[h].todo
               /\ \E f \in my[h].todo : f \in RelayFaces /\ RemoveProvider(f) /\ my'[h].seen = {f}
            \/ /\ pc[h] = "unregister" /\ pc'[h] = "remove"
               /\ \E f \in my[h].todo : /\ UnregisterRelay(f) /\ my[h].seen = {f}
                                        /\ my'[h].todo = my[h].todo \ {f}
<1>m. my[h] \in MyType /\ Fit(pc[h], my[h]) /\ HandlersTypeOK
  BY Held DEF AdminTypeOK
<1>0. UNCHANGED <<catalog, pools, stations>>
  BY DEF RelayRemoves
<1>1. CASE /\ At(h, "remove")
           /\ \E f \in my[h].todo : RemoveProvider(f) /\ Put(h, [my[h] EXCEPT !.seen = {f}])
           /\ Go(h, "unregister")
  <2>1. PICK f \in my[h].todo : RemoveProvider(f) /\ Put(h, [my[h] EXCEPT !.seen = {f}])
    BY <1>1
  <2> DEFINE m == [my[h] EXCEPT !.seen = {f}]
  <2>2. my'[h] = m /\ pc[h] = "remove" /\ pc'[h] = "unregister" /\ f \in RelayFaces
    BY <1>m, <1>1, <2>1 DEF Put, Go, At, HandlersTypeOK, Fit
  <2>3. m.seen = {f} /\ m.todo = my[h].todo /\ m.covers = my[h].covers
    BY <1>m DEF MyType
  <2> HIDE DEF m
  <2>4. QED
    BY <1>0, <2>1, <2>2, <2>3
<1>2. CASE /\ At(h, "unregister")
           /\ \E f \in my[h].seen : /\ UnregisterRelay(f)
                                    /\ Put(h, [my[h] EXCEPT !.todo = @ \ {f}, !.seen = {}])
           /\ Go(h, "remove")
  <2>1. PICK f \in my[h].seen : /\ UnregisterRelay(f)
                                /\ Put(h, [my[h] EXCEPT !.todo = @ \ {f}, !.seen = {}])
    BY <1>2
  <2> DEFINE todo == my[h].todo \ {f}
             m == [my[h] EXCEPT !.todo = todo, !.seen = {}]
  <2>2. /\ my'[h] = m /\ pc[h] = "unregister" /\ pc'[h] = "remove"
        /\ my[h].seen = {f} /\ f \in my[h].todo
    BY <1>m, <1>2, <2>1 DEF Put, Go, At, HandlersTypeOK, Fit
  <2> HIDE DEF todo
  <2>3. m.todo = todo /\ m.covers = my[h].covers
    BY <1>m DEF MyType
  <2> HIDE DEF m
  <2>4. QED
    BY <1>0, <2>1, <2>2, <2>3 DEF todo
<1>3. QED
  BY <1>1, <1>2 DEF RelayRemoves

LEMMA AnnouncedKept ==
  ASSUME AdminTypeOK, Shapes, Announced, NEW h \in Handlers, Handler(h) PROVE Announced'
<1>h. HandlersTypeOK
  BY DEF AdminTypeOK
<1>1. \A g \in Handlers : \A f : g # h /\ Handed(g, f) => Handed(g, f)'
  BY <1>h, Others DEF Handed
<1>2. \A f \in registered \ loaded : \E g \in Handlers : Handed(g, f)
  BY DEF Announced, Handed
<1>3. SUFFICES \A f \in registered' \ loaded' : \E g \in Handlers : Handed(g, f)'
  BY DEF Announced, Handed
<1>4. CASE RelayRemoves(h) /\ pc[h] = "remove"
  <2>1. PICK f \in my[h].todo : RemoveProvider(f) /\ my'[h].seen = {f} /\ pc'[h] = "unregister"
    BY <1>4, RemoveWritten
  <2>2. Handed(h, f)' /\ (\A e : ~Handed(h, e))
    BY <1>4, <2>1 DEF Handed
  <2>3. registered' \ loaded' \subseteq (registered \ loaded) \cup {f}
    BY <2>1 DEF RemoveProvider
  <2>4. QED
    BY <1>1, <1>2, <2>2, <2>3
<1>5. CASE RelayRemoves(h) /\ pc[h] = "unregister"
  <2>1. PICK f \in my[h].todo : UnregisterRelay(f) /\ my[h].seen = {f}
    BY <1>5, RemoveWritten
  <2>2. \A e : Handed(h, e) => e = f
    BY <1>5, <2>1 DEF Handed
  <2>3. registered' \ loaded' \subseteq (registered \ loaded) \ {f}
    BY <2>1 DEF UnregisterRelay
  <2>4. QED
    BY <1>1, <1>2, <2>2, <2>3
<1>6. CASE RelayRegisters(h) /\ pc[h] = "add"
  <2>1. PICK f \in my[h].seen : my[h].merged = {f} /\ AddProvider(f)
    BY <1>6, AddWritten
  <2>2. \A e : Handed(h, e) => e = f
    BY <1>6, <2>1 DEF Handed
  <2>3. registered' \ loaded' \subseteq (registered \ loaded) \ {f}
    BY <2>1 DEF AddProvider
  <2>4. QED
    BY <1>1, <1>2, <2>2, <2>3
<1>7. CASE RelayRegisters(h) /\ pc[h] = "register"
  <2>1. \A e : ~Handed(h, e)
    BY <1>7 DEF Handed
  <2>2. CASE UNCHANGED providers
    BY <1>1, <1>2, <2>1, <2>2 DEF providers
  <2>3. CASE ~UNCHANGED providers
    <3>1. PICK f \in my[h].seen : RegisterRelay(f) /\ pc'[h] = "add" /\ my'[h].merged = {f}
      BY <1>7, <2>3, RegisterWritten
    <3>2. Handed(h, f)'
      BY <3>1 DEF Handed
    <3>3. registered' \ loaded' \subseteq (registered \ loaded) \cup {f}
      BY <3>1 DEF RegisterRelay
    <3>4. QED
      BY <1>1, <1>2, <2>1, <3>2, <3>3
  <2>4. QED
    BY <2>2, <2>3
<1>8. CASE pc[h] \notin {"add", "unregister"} /\ UNCHANGED <<loaded, registered>>
  <2>1. \A e : ~Handed(h, e)
    BY <1>8 DEF Handed
  <2>2. QED
    BY <1>1, <1>2, <1>8, <2>1
<1>9. pc[h] \in {"add", "unregister"} => RelayRemoves(h) \/ RelayRegisters(h)
  BY DoesReload DEF Reloading, RelayStages, RelayRows, RelaySync, RelaySyncWrites, Synced, Unsynced, RelayEnds,
                    Fails, At
<1>10. RelayRemoves(h) => pc[h] \in {"remove", "unregister"}
  BY DEF RelayRemoves, At
<1>11. RelayRegisters(h) => pc[h] \in {"register", "add"}
  BY DEF RelayRegisters, At
<1>12. UNCHANGED <<loaded, registered>> \/ RelayRemoves(h) \/ RelayRegisters(h)
  BY ProvidersTouched DEF providers, ConfigReload, Begin, At, ReloadPricing
<1>13. QED
  BY <1>4, <1>5, <1>6, <1>7, <1>8, <1>9, <1>10, <1>11, <1>12

-----------------------------------------------------------------------------
(* What the other steps of a stations' reload write, and what is covered.  *)

LEMMA ListWritten ==
  ASSUME AdminTypeOK, NEW h \in Handlers, RelayList(h)
  PROVE  /\ pc[h] = "relays" /\ pc'[h] = "remove"
         /\ UNCHANGED <<providers, catalog, pools, stations>>
         /\ my'[h].todo = {f \in loaded : f \in registered}
         /\ my'[h].covers = IF Leftovers THEN {"stations", "leftovers"} ELSE {"stations"}
<1>m. my[h] \in MyType /\ HandlersTypeOK
  BY DEF AdminTypeOK, HandlersTypeOK
<1> DEFINE todo == {f \in loaded : f \in registered}
           covers == IF Leftovers THEN {"stations", "leftovers"} ELSE {"stations"}
           m == [my[h] EXCEPT !.todo = todo, !.covers = covers]
<1>1. /\ my'[h] = m /\ pc[h] = "relays" /\ pc'[h] = "remove"
      /\ UNCHANGED <<providers, catalog, pools, stations>>
  BY <1>m DEF RelayList, IsRelay, Put, Go, At, HandlersTypeOK, Same
<1> HIDE DEF todo, covers
<1>2. m.todo = todo /\ m.covers = covers
  BY <1>m DEF MyType
<1> HIDE DEF m
<1>3. QED
  BY <1>1, <1>2 DEF todo, covers

LEMMA RowsWritten ==
  ASSUME AdminTypeOK, NEW h \in Handlers, RelayRows(h)
  PROVE  /\ pc[h] = "remove" /\ pc'[h] = "station" /\ my[h].todo = {}
         /\ UNCHANGED <<providers, catalog, pools, stations>>
         /\ my'[h].list = {<<s, columnKeys[s]>> : s \in stationRows}
         /\ my'[h].covers = my[h].covers
<1>m. my[h] \in MyType /\ HandlersTypeOK
  BY DEF AdminTypeOK, HandlersTypeOK
<1> DEFINE list == {<<s, columnKeys[s]>> : s \in stationRows}
           m == [my[h] EXCEPT !.list = list]
<1>1. /\ my'[h] = m /\ pc[h] = "remove" /\ pc'[h] = "station" /\ my[h].todo = {}
      /\ UNCHANGED <<providers, catalog, pools, stations>>
  BY <1>m DEF RelayRows, Put, Go, At, HandlersTypeOK, Same
<1> HIDE DEF list
<1>2. m.list = list /\ m.covers = my[h].covers
  BY <1>m DEF MyType
<1> HIDE DEF m
<1>3. QED
  BY <1>1, <1>2 DEF list

LEMMA SyncWritten ==
  ASSUME AdminTypeOK, NEW h \in Handlers, RelaySync(h)
  PROVE  /\ pc[h] = "station" /\ UNCHANGED <<providers, catalog, pools, stations>>
         /\ my'[h].list = my[h].list
         /\ \E st \in my[h].list :
              /\ my'[h].target = st[1] /\ my'[h].merged = st[2]
              /\ \/ /\ pc'[h] = "sync" /\ my'[h].seen = KeysOf(st[1])
                    /\ my'[h].covers = my[h].covers
                 \/ /\ pc'[h] = "register" /\ my'[h].seen = FacesOf[st[1]]
                    /\ my'[h].covers = my[h].covers \cup {"unsynced"}
<1>m. my[h] \in MyType /\ HandlersTypeOK
  BY DEF AdminTypeOK, HandlersTypeOK
<1>0. pc[h] = "station" /\ UNCHANGED <<providers, catalog, pools, stations>>
  BY DEF RelaySync, At, Same
<1>1. PICK st \in my[h].list :
        \/ /\ Put(h, [my[h] EXCEPT !.target = st[1], !.merged = st[2], !.seen = KeysOf(st[1])])
           /\ Go(h, "sync")
        \/ /\ Put(h, [my[h] EXCEPT !.target = st[1], !.merged = st[2], !.seen = FacesOf[st[1]],
                                    !.covers = @ \cup {"unsynced"}])
           /\ pc' = [pc EXCEPT ![h] = "register"]
  BY DEF RelaySync
<1>2. ASSUME NEW seen, NEW covers,
             Put(h, [my[h] EXCEPT !.target = st[1], !.merged = st[2], !.seen = seen, !.covers = covers])
      PROVE  /\ my'[h].target = st[1] /\ my'[h].merged = st[2] /\ my'[h].seen = seen
             /\ my'[h].covers = covers /\ my'[h].list = my[h].list
  <2> DEFINE target == st[1]
             merged == st[2]
             m == [my[h] EXCEPT !.target = target, !.merged = merged, !.seen = seen, !.covers = covers]
  <2>1. my'[h] = m
    BY <1>m, <1>2 DEF Put, HandlersTypeOK
  <2> HIDE DEF target, merged
  <2>2. /\ m.target = target /\ m.merged = merged /\ m.seen = seen /\ m.covers = covers
        /\ m.list = my[h].list
    BY <1>m DEF MyType
  <2> HIDE DEF m
  <2>3. QED
    BY <2>1, <2>2 DEF target, merged
<1>3. CASE /\ Put(h, [my[h] EXCEPT !.target = st[1], !.merged = st[2], !.seen = KeysOf(st[1])])
           /\ Go(h, "sync")
  <2> DEFINE seen == KeysOf(st[1])
  <2> HIDE DEF seen
  <2>1. Put(h, [my[h] EXCEPT !.target = st[1], !.merged = st[2], !.seen = seen,
                             !.covers = my[h].covers])
    BY <1>m, <1>3 DEF MyType, seen
  <2>2. pc'[h] = "sync"
    BY <1>m, <1>3 DEF Go, HandlersTypeOK
  <2>3. QED
    BY <1>0, <1>2, <2>1, <2>2 DEF seen
<1>4. CASE /\ Put(h, [my[h] EXCEPT !.target = st[1], !.merged = st[2], !.seen = FacesOf[st[1]],
                                    !.covers = @ \cup {"unsynced"}])
           /\ pc' = [pc EXCEPT ![h] = "register"]
  <2>1. pc'[h] = "register"
    BY <1>m, <1>4 DEF HandlersTypeOK
  <2>2. QED
    BY <1>0, <1>2, <1>4, <2>1
<1>5. QED
  BY <1>1, <1>3, <1>4

LEMMA SyncWritesWritten ==
  ASSUME AdminTypeOK, NEW h \in Handlers, RelaySyncWrites(h)
  PROVE  /\ UNCHANGED <<providers, catalog, stations>>
         /\ my'[h].target = my[h].target /\ my'[h].list = my[h].list
         /\ my'[h].merged = my[h].merged /\ pc[h] = "sync"
         /\ \/ /\ pc'[h] = "sync" /\ my'[h].covers = my[h].covers
               /\ \/ \E k \in my[h].seen \ my[h].merged :
                         DeleteRows({k}) /\ my'[h].seen = my[h].seen \ {k}
                  \/ \E k \in my[h].merged \ my[h].seen :
                         CreateRows({k}) /\ my'[h].seen = my[h].seen \cup {k}
            \/ /\ pc'[h] = "sync" /\ my'[h].covers = my[h].covers \cup {"unsynced"}
               /\ UNCHANGED pools
            \/ /\ pc'[h] = "register" /\ my'[h].covers = my[h].covers
               /\ my[h].seen = my[h].merged /\ my'[h].seen = FacesOf[my[h].target]
               /\ UNCHANGED pools
<1>m. my[h] \in MyType /\ HandlersTypeOK
  BY DEF AdminTypeOK, HandlersTypeOK
<1>0. UNCHANGED <<providers, catalog, stations>> /\ pc[h] = "sync"
  BY DEF RelaySyncWrites, At
<1>1. ASSUME NEW seen, Put(h, [my[h] EXCEPT !.seen = seen])
      PROVE  /\ my'[h].target = my[h].target /\ my'[h].list = my[h].list
             /\ my'[h].merged = my[h].merged /\ my'[h].covers = my[h].covers
             /\ my'[h].seen = seen
  BY <1>m, <1>1 DEF Put, HandlersTypeOK, MyType
<1>2. ASSUME NEW seen, Synced(h, seen)
      PROVE  /\ my'[h].target = my[h].target /\ my'[h].list = my[h].list
             /\ my'[h].merged = my[h].merged /\ my'[h].covers = my[h].covers
             /\ my'[h].seen = seen /\ pc'[h] = "sync"
  <2>1. pc'[h] = "sync"
    BY <1>m, <1>0, <1>2 DEF Synced, Stay, Go, HandlersTypeOK
  <2>2. QED
    BY <1>1, <1>2, <2>1 DEF Synced
<1>3. ASSUME NEW seen, Unsynced(h, seen)
      PROVE  /\ my'[h].target = my[h].target /\ my'[h].list = my[h].list
             /\ my'[h].merged = my[h].merged /\ my'[h].covers = my[h].covers \cup {"unsynced"}
             /\ pc'[h] = "sync" /\ UNCHANGED pools
  <2> DEFINE covers == my[h].covers \cup {"unsynced"}
             m == [my[h] EXCEPT !.seen = seen, !.covers = covers]
  <2>1. my'[h] = m
    BY <1>m, <1>3 DEF Unsynced, Put, HandlersTypeOK
  <2> HIDE DEF covers
  <2>2. /\ m.target = my[h].target /\ m.list = my[h].list /\ m.merged = my[h].merged
        /\ m.covers = covers
    BY <1>m DEF MyType
  <2> HIDE DEF m
  <2>3. QED
    BY <1>0, <1>3, <2>1, <2>2 DEF Unsynced, covers
<1>4. CASE \E k \in my[h].seen \ my[h].merged : DeleteRows({k}) /\ Synced(h, my[h].seen \ {k})
  BY <1>0, <1>2, <1>4
<1>5. CASE \E k \in my[h].merged \ my[h].seen : CreateRows({k}) /\ Synced(h, my[h].seen \cup {k})
  BY <1>0, <1>2, <1>5
<1>6. CASE \E seen : Unsynced(h, seen)
  BY <1>0, <1>3, <1>6
<1>7. CASE /\ my[h].seen = my[h].merged /\ UNCHANGED pools /\ Go(h, "register")
           /\ Put(h, [my[h] EXCEPT !.seen = FacesOf[my[h].target]])
  <2>1. pc'[h] = "register"
    BY <1>m, <1>7 DEF Go, HandlersTypeOK
  <2>2. QED
    BY <1>0, <1>1, <1>7, <2>1
<1>8. QED
  BY <1>4, <1>5, <1>6, <1>7 DEF RelaySyncWrites

LEMMA EndsWritten ==
  ASSUME AdminTypeOK, NEW h \in Handlers, RelayEnds(h)
  PROVE  /\ pc[h] = "station" /\ pc'[h] = "names" /\ my[h].list = {}
         /\ UNCHANGED <<providers, catalog, pools, stations>>
         /\ my'[h].covers = my[h].covers
<1>m. my[h] \in MyType /\ HandlersTypeOK
  BY DEF AdminTypeOK, HandlersTypeOK
<1> DEFINE m == [my[h] EXCEPT !.target = "all", !.seen = {}, !.merged = {}]
<1>1. /\ my'[h] = m /\ pc[h] = "station" /\ pc'[h] = "names" /\ my[h].list = {}
      /\ UNCHANGED <<providers, catalog, pools, stations>>
  BY <1>m DEF RelayEnds, Put, Go, At, HandlersTypeOK, Same
<1>2. m.covers = my[h].covers
  BY <1>m DEF MyType
<1> HIDE DEF m
<1>3. QED
  BY <1>1, <1>2

\* Only a reload covers anything.
LEMMA CoversStand ==
  ASSUME AdminTypeOK, NEW h \in Handlers, Handler(h), ~ReloadPool(h), ~Reloading(h), ~RelayList(h)
  PROVE  my'[h].covers = my[h].covers \/ my'[h] = Nobody
<1>h. HandlersTypeOK /\ my[h] \in MyType
  BY DEF AdminTypeOK, HandlersTypeOK
<1>d. "covers" \in DOMAIN my[h] /\ h \in DOMAIN my
  BY <1>h DEF MyType, HandlersTypeOK
<1> USE <1>d DEF Put, Keep, Begin, Ends, Finish
<1>1. CASE CreateKey(h) \/ DeleteKey(h) \/ PutRouteOrder(h)
  BY <1>1 DEF CreateKey, DeleteKey, PutRouteOrder, ReplaceOrder, ReloadProviderOrder
<1>2. CASE CreateStation(h) \/ UpdateStation(h) \/ DeleteStation(h)
  BY <1>2 DEF CreateStation, UpdateStation, DeleteStation, SaveStation, DropFaceRows, DropOrder,
              PurgeKeys, Fails
<1>3. CASE ReloadStations(h)
  BY <1>3 DEF ReloadStations, Reloading
<1>4. CASE SyncModels(h) \/ SavePrice(h) \/ ConfigReload(h)
  BY <1>4 DEF SyncModels, SyncLists, SyncEnds, SyncUpserts, SavePrice, ConfigReload, Fails
<1>5. CASE Prune(h) \/ LoadModels(h)
  BY <1>5 DEF Prune, LoadModels, ReadRows, ReadFaceRows
<1>6. QED
  BY <1>1, <1>2, <1>3, <1>4, <1>5 DEF Handler

\* A step of a reload stays in the reload or ends it.
LEMMA StagesLeft ==
  ASSUME AdminTypeOK, Shapes, NEW h \in Handlers, Handler(h), pc[h] \in RelayStages \cup PoolStages
  PROVE  pc'[h] \in RelayStages \cup PoolStages \/ my'[h] = Nobody
<1>h. HandlersTypeOK
  BY DEF AdminTypeOK
<1> USE <1>h DEF RelayStages, PoolStages
<1>1. CASE Reloading(h)
  <2>1. CASE RelayRegisters(h)
    <3>1. pc[h] \in {"register", "add"}
      BY <2>1 DEF RelayRegisters, At
    <3>2. QED
      BY <2>1, <3>1, AddWritten, RegisterWritten
  <2>2. CASE Fails(h, "remove")
    BY <2>2 DEF Fails, Finish, HandlersTypeOK
  <2>3. CASE RelayRemoves(h) \/ RelayRows(h)
    BY <2>3, RemoveWritten, RowsWritten
  <2>4. CASE RelaySync(h) \/ RelaySyncWrites(h) \/ RelayEnds(h)
    BY <2>4, SyncWritten, SyncWritesWritten, EndsWritten
  <2>5. QED
    BY <1>1, <2>1, <2>2, <2>3, <2>4 DEF Reloading
<1>2. CASE ReloadPool(h)
  <2>1. CASE ReloadSwaps(h)
    BY <2>1 DEF ReloadSwaps, Go, Ends, Finish, HandlersTypeOK
  <2>2. QED
    BY <1>2, <2>1, NamesWritten, BuildsWritten, CopiesWritten, VisitsWritten, RelaysWritten
       DEF ReloadPool
<1>3. QED
  BY <1>1, <1>2, DoesReload

LEMMA CoversOfPools ==
  ASSUME AdminTypeOK, Shapes, NEW h \in Handlers, ReloadPool(h)
  PROVE  \/ my'[h].covers \in {{}, my[h].covers}
         \/ my'[h].covers \subseteq my[h].covers \cup Vendors /\ my[h].covers \subseteq my'[h].covers
<1>h. HandlersTypeOK
  BY DEF AdminTypeOK
<1>1. CASE ReloadSwaps(h)
  BY <1>h, <1>1 DEF ReloadSwaps, Keep, Ends, Finish, HandlersTypeOK, Nobody
<1>2. CASE ReloadNames(h)
  BY <1>2, NamesWritten
<1>3. CASE ReloadVisits(h)
  BY <1>3, VisitsWritten DEF VisitBuilds, VisitEnters
<1>4. QED
  BY <1>1, <1>2, <1>3, BuildsWritten, CopiesWritten, RelaysWritten DEF ReloadPool

LEMMA CoversOfRelays ==
  ASSUME AdminTypeOK, Shapes, NEW h \in Handlers, Reloading(h)
  PROVE  my'[h].covers \in {{}, my[h].covers, my[h].covers \cup {"unsynced"}}
<1>h. HandlersTypeOK
  BY DEF AdminTypeOK
<1>1. Fails(h, "remove") => my'[h].covers = {}
  BY <1>h DEF Fails, Finish, HandlersTypeOK, Nobody
<1>2. RelayRegisters(h) => my'[h].covers = my[h].covers
  BY AddWritten, RegisterWritten DEF RelayRegisters, At
<1>3. QED
  BY <1>1, <1>2, RemoveWritten, RowsWritten, SyncWritten, SyncWritesWritten, EndsWritten
     DEF Reloading

LEMMA CoversKept ==
  ASSUME AdminTypeOK, Shapes, NEW h \in Handlers, Handler(h), CoversFit(pc[h], my[h].covers)
  PROVE  CoversFit(pc'[h], my'[h].covers)
<1>h. HandlersTypeOK
  BY DEF AdminTypeOK
<1>n. Nobody.covers = {}
  BY DEF Nobody
<1>1. CASE pc[h] \notin RelayStages \cup PoolStages
  <2>1. ~ReloadPool(h) /\ ~Reloading(h)
    BY <1>1 DEF RelayStages, PoolStages, ReloadPool, ReloadNames, ReloadBuilds, ReloadCopies,
                ReloadVisits, ReloadRelays, ReloadSwaps, Reloading, RelayRemoves, RelayRows,
                RelaySync, RelaySyncWrites, Synced, Unsynced, RelayRegisters, RelayEnds, Fails, At
  <2>2. CASE RelayList(h)
    BY <2>2, ListWritten DEF CoversFit, RelayStages, PoolStages
  <2>3. CASE ~RelayList(h)
    BY <1>1, <1>n, <2>1, <2>3, CoversStand DEF CoversFit
  <2>4. QED
    BY <2>2, <2>3
<1>2. CASE pc[h] \in RelayStages
  <2>1. Reloading(h) /\ my[h].covers \subseteq {"stations", "leftovers", "unsynced"}
    BY <1>2, DoesReload DEF CoversFit
  <2>2. my'[h].covers \in {{}, my[h].covers, my[h].covers \cup {"unsynced"}}
    BY <2>1, CoversOfRelays
  <2>3. my'[h].covers # {} => pc'[h] \in RelayStages \cup PoolStages
    BY <1>2, <1>n, StagesLeft
  <2>4. QED
    BY <2>1, <2>2, <2>3 DEF CoversFit
<1>3. CASE pc[h] \in PoolStages
  <2>1. my'[h].covers # {} => pc'[h] \in RelayStages \cup PoolStages
    BY <1>3, <1>n, StagesLeft
  <2>2. pc'[h] \notin RelayStages
    <3>1. ReloadPool(h)
      BY <1>3, DoesReload
    <3>2. CASE ReloadSwaps(h)
      BY <1>h, <3>2 DEF ReloadSwaps, Go, Ends, Finish, HandlersTypeOK, RelayStages
    <3>3. QED
      BY <3>1, <3>2, NamesWritten, BuildsWritten, CopiesWritten, VisitsWritten, RelaysWritten
         DEF ReloadPool, RelayStages
  <2>3. QED
    BY <2>1, <2>2 DEF CoversFit
<1>4. QED
  BY <1>1, <1>2, <1>3

-----------------------------------------------------------------------------
(* A reload of the stations that nobody disturbs.                          *)

LEMMA RelaysOfMore ==
  ASSUME NEW ss, NEW s
  PROVE  /\ RelaysOf(ss \cup {s}) = RelaysOf(ss) \cup FacesOf[s]
         /\ RelaysOf({}) = {}
BY DEF RelaysOf

LEMMA RelaysAre ==
  ASSUME NEW ss \in SUBSET Stations, NEW f \in RelaysOf(ss)
  PROVE  f \in RelayFaces /\ f \in Faces /\ f \notin Configured /\ VendorOf[f] \in ss
<1>1. PICK s \in ss : f \in FacesOf[s]
  BY DEF RelaysOf
<1>2. f \in RelayFaces /\ s \in Vendors
  BY <1>1, NamesSorted DEF RelayFaces
<1>3. f \in Faces /\ f \notin Configured
  BY <1>2, NamesSorted DEF Configured
<1>4. VendorOf[f] = s
  BY <1>1, <1>2, <1>3, OneVendor
<1>5. QED
  BY <1>2, <1>3, <1>4

\* Where every loaded relay face is registered, loading and unloading keep the endpoints tidy.
LEMMA TidyKept ==
  ASSUME ProvidersTypeOK, Loads, Tidy, loaded \ Configured \subseteq registered, NEW f \in RelayFaces
  PROVE  /\ RemoveProvider(f) => Tidy'
         /\ f \in registered /\ AddProvider(f) => Tidy'
<1>1. f \in Faces /\ f \in Names /\ f \notin Configured
  BY NamesSorted DEF Configured
<1>2. \A g \in loaded \cup registered : g \in Configured \cup registered /\ g \in Names
  BY NamesSorted DEF ProvidersTypeOK
<1>3. \A g \in loaded \cup registered : VendorFor(g) = VendorOf[g]
  BY <1>2, VendorForType DEF ProvidersTypeOK
<1>4. ASSUME RemoveProvider(f) PROVE Tidy'
  <2>1. CASE f \notin loaded
    BY <1>4, <2>1 DEF RemoveProvider, Tidy
  <2>2. CASE f \in loaded
    <3> DEFINE last == \A g \in loaded \ {f} : VendorFor(g) # VendorFor(f)
    <3>1. ASSUME NEW e \in endpoints', e \notin loaded'
          PROVE  \E g \in loaded' \ Configured : e = VendorOf[g]
      <4>1. e \in endpoints /\ e # f /\ e \notin loaded
        BY <1>4, <2>2, <3>1 DEF RemoveProvider
      <4>2. PICK g \in loaded \ Configured : e = VendorOf[g]
        BY <4>1 DEF Tidy
      <4>3. CASE g # f
        BY <1>4, <4>2, <4>3 DEF RemoveProvider
      <4>4. CASE g = f
        <5>1. ~last
          <6>1. e = VendorFor(f)
            BY <1>3, <2>2, <4>2, <4>4
          <6>2. QED
            BY <1>4, <2>2, <3>1, <6>1 DEF RemoveProvider
        <5>2. PICK g2 \in loaded \ {f} : VendorFor(g2) = VendorFor(f)
          BY <5>1
        <5>3. VendorOf[g2] = e
          BY <1>3, <2>2, <4>2, <4>4, <5>2
        <5>4. g2 \notin Configured
          <6>1. g2 \in Faces
            BY <5>2 DEF ProvidersTypeOK
          <6>2. VendorOf[f] \in Stations
            BY <1>1, RelaysAndConfigured
          <6>3. QED
            BY <4>2, <4>4, <5>3, <6>1, <6>2, RelaysAndConfigured
        <5>5. g2 \in loaded'
          BY <1>4, <5>2 DEF RemoveProvider
        <5>6. QED
          BY <5>3, <5>4, <5>5
      <4>5. QED
        BY <4>3, <4>4
    <3>2. QED
      BY <3>1 DEF Tidy
  <2>3. QED
    BY <2>1, <2>2
<1>5. ASSUME f \in registered, AddProvider(f) PROVE Tidy'
  <2>1. VendorFor(f) = VendorOf[f]
    BY <1>3, <1>5
  <2>2. loaded' = loaded \cup {f} /\ endpoints' = endpoints \cup {f, VendorOf[f]}
    BY <1>5, <2>1 DEF AddProvider
  <2>3. QED
    BY <1>1, <2>2 DEF Tidy
<1>6. QED
  BY <1>4, <1>5

\* The list: with nobody else at work, what is registered is loaded.
LEMMA ListFollows ==
  ASSUME BaseInv, Announced, NEW h \in Handlers, RelayList(h), Solo(h), Clean(h)'
  PROVE  Relays(h)'
<1>b. AdminTypeOK /\ Shapes /\ Solitude /\ Loads /\ ProvidersTypeOK
  BY DEF BaseInv, MetaInv, AdminTypeOK
<1>1. /\ pc[h] = "relays" /\ pc'[h] = "remove"
      /\ UNCHANGED <<providers, catalog, pools, stations>>
      /\ my'[h].todo = {f \in loaded : f \in registered}
      /\ my'[h].covers = IF Leftovers THEN {"stations", "leftovers"} ELSE {"stations"}
  BY <1>b, ListWritten
<1>2. loaded \ Configured \subseteq registered /\ ~Leftovers
  BY <1>1 DEF Clean, Leftovers
<1>3. registered \subseteq loaded
  <2>1. ASSUME NEW g \in Handlers, NEW f, Handed(g, f) PROVE FALSE
    <3>1. Busy(g) /\ Busy(h)
      BY <1>1, <2>1 DEF Handed, Busy
    <3>2. g = h
      BY <1>b, <3>1 DEF Solo, Solitude
    <3>3. QED
      BY <1>1, <2>1, <3>2 DEF Handed
  <2>2. QED
    BY <2>1 DEF Announced, Handed
<1>4. my'[h].todo = registered
  BY <1>1, <1>3
<1>5. registered \cap Configured = {}
  BY <1>b DEF ProvidersTypeOK, Configured
<1>6. loaded = Configured \cup registered
  BY <1>b, <1>2, <1>3 DEF Loads
<1>7. Tidy
  <2>1. ASSUME NEW f \in loaded \ Configured PROVE VendorFor(f) = VendorOf[f]
    BY <1>b, <1>2, <2>1, NamesSorted, VendorForType DEF ProvidersTypeOK
  <2>2. QED
    BY <1>2, <2>1 DEF Leftovers, Tidy
<1>8. UNCHANGED <<loaded, registered, endpoints>>
  BY <1>1 DEF providers
<1>9. Tidy'
  BY <1>7, <1>8 DEF Tidy
<1>10. Have(my[h].todo, my[h].todo)'
  BY <1>4, <1>6, <1>8 DEF Have
<1>11. QED
  BY <1>1, <1>9, <1>10 DEF Relays

LEMMA RemoveFollows ==
  ASSUME BaseInv, NEW h \in Handlers, RelayRemoves(h), Relays(h) PROVE Relays(h)'
<1>b. AdminTypeOK /\ Shapes /\ Loads /\ ProvidersTypeOK
  BY DEF BaseInv, MetaInv, AdminTypeOK
<1>1. CASE pc[h] = "remove"
  <2>1. PICK f \in my[h].todo : f \in RelayFaces /\ RemoveProvider(f) /\ my'[h].seen = {f}
    BY <1>b, <1>1, RemoveWritten
  <2>2. pc'[h] = "unregister" /\ my'[h].todo = my[h].todo
    BY <1>b, <1>1, RemoveWritten
  <2>3. Have(my[h].todo, my[h].todo) /\ Tidy
    BY <1>1 DEF Relays
  <2>4. f \notin Configured
    BY <2>1 DEF Configured
  <2>5. loaded' = loaded \ {f} /\ registered' = registered
    BY <2>1 DEF RemoveProvider
  <2>6. Have(my[h].todo \ my[h].seen, my[h].todo)'
    BY <2>1, <2>2, <2>3, <2>4, <2>5 DEF Have
  <2>7. loaded \ Configured \subseteq registered
    BY <2>3 DEF Have
  <2>8. Tidy'
    BY <1>b, <2>1, <2>3, <2>7, TidyKept
  <2>9. QED
    BY <2>2, <2>6, <2>8 DEF Relays
<1>2. CASE pc[h] = "unregister"
  <2>1. PICK f \in my[h].todo : /\ UnregisterRelay(f) /\ my[h].seen = {f}
                                /\ my'[h].todo = my[h].todo \ {f}
    BY <1>b, <1>2, RemoveWritten
  <2>2. pc'[h] = "remove"
    BY <1>b, <1>2, RemoveWritten
  <2>3. Have(my[h].todo \ my[h].seen, my[h].todo) /\ Tidy
    BY <1>2 DEF Relays
  <2>4. Have(my[h].todo, my[h].todo)' /\ Tidy'
    BY <2>1, <2>3 DEF Have, Tidy, UnregisterRelay
  <2>5. QED
    BY <2>2, <2>4 DEF Relays
<1>3. QED
  BY <1>b, <1>1, <1>2, RemoveWritten

LEMMA RowsFollow ==
  ASSUME BaseInv, NEW h \in Handlers, RelayRows(h), Relays(h) PROVE Relays(h)'
<1>b. AdminTypeOK
  BY DEF BaseInv
<1>1. /\ pc[h] = "remove" /\ pc'[h] = "station" /\ my[h].todo = {}
      /\ UNCHANGED <<providers, catalog, pools, stations>>
      /\ my'[h].list = {<<s, columnKeys[s]>> : s \in stationRows}
  BY <1>b, RowsWritten
<1>2. Tidy /\ Have({}, {})
  BY <1>1 DEF Relays
<1>3. Tidy' /\ Have({}, {})'
  BY <1>1, <1>2 DEF Tidy, Have, providers
<1>4. stationRows' = stationRows /\ columnKeys' = columnKeys
  BY <1>1 DEF stations
<1>5. Done(h)' = {}
  <2>1. ASSUME NEW s \in stationRows PROVE \E st \in my'[h].list : s = st[1]
    <3>1. <<s, columnKeys[s]>> \in my'[h].list
      BY <1>1
    <3>2. QED
      BY <3>1
  <2>2. QED
    BY <1>4, <2>1 DEF Done
<1>6. QED
  BY <1>1, <1>3, <1>4, <1>5, RelaysOfMore DEF Relays

\* What the stations done so far rely on, while one of the others is at hand.
LEMMA DoneStands ==
  ASSUME AdminTypeOK, NEW h \in Handlers, Relays(h), UNCHANGED <<providers, stations>>,
         pc[h] \notin {"remove", "unregister"}, my'[h].list = my[h].list,
         NEW t \in Stations, t \notin Done(h),
         InStep(h) => \A s \in Stations \ {t} : KeysOf(s)' = KeysOf(s)
  PROVE  /\ Tidy' /\ Done(h)' = Done(h) /\ Done(h) \subseteq endpoints'
         /\ my'[h].list \subseteq {<<s, columnKeys'[s]>> : s \in stationRows'}
         /\ InStep(h) => \A s \in Done(h) : KeysOf(s)' = columnKeys'[s]
         /\ \A fs, rs : Have(fs, rs) => Have(fs, rs)'
<1>1. /\ UNCHANGED <<loaded, registered, endpoints, stationRows, columnKeys>>
      /\ stationRows \subseteq Stations
  BY DEF providers, stations, AdminTypeOK, StationsTypeOK
<1>2. Tidy' /\ Done(h)' = Done(h) /\ \A fs, rs : Have(fs, rs) => Have(fs, rs)'
  BY <1>1 DEF Relays, Tidy, Done, Have
<1>3. my'[h].list \subseteq {<<s, columnKeys'[s]>> : s \in stationRows'}
  BY <1>1 DEF Relays
<1>4. ASSUME InStep(h), NEW s \in Done(h) PROVE KeysOf(s)' = columnKeys'[s]
  <2>1. s \in Stations \ {t} /\ KeysOf(s) = columnKeys[s]
    BY <1>1, <1>4 DEF Relays, Done
  <2>2. KeysOf(s)' = KeysOf(s)
    BY <1>4, <2>1
  <2>3. QED
    BY <1>1, <2>1, <2>2
<1>5. Done(h) \subseteq endpoints'
  BY <1>1 DEF Relays
<1>6. QED
  BY <1>2, <1>3, <1>4, <1>5

\* Where the station is to be registered: all of its faces are missing yet.
LEMMA ReadyToRegister ==
  ASSUME NEW h \in Handlers, NEW t \in stationRows' \ Done(h)', pc'[h] = "register",
         my'[h].target = t, my'[h].seen = FacesOf[t],
         Tidy', Done(h)' \subseteq endpoints',
         my'[h].list \subseteq {<<s, columnKeys'[s]>> : s \in stationRows'},
         InStep(h)' => \A s \in Done(h)' : KeysOf(s)' = columnKeys'[s],
         InStep(h)' => KeysOf(t)' = columnKeys'[t],
         Have(RelaysOf(Done(h)), RelaysOf(Done(h)))'
  PROVE  Relays(h)'
<1>1. my'[h].seen = Here(h)'
  BY DEF Here
<1>2. RelaysOf(Done(h)') \cup (Here(h)' \ my'[h].seen) = RelaysOf(Done(h)')
  BY <1>1
<1>3. (Have(RelaysOf(Done(h)) \cup (Here(h) \ my[h].seen),
            RelaysOf(Done(h)) \cup (Here(h) \ my[h].seen)))'
  BY <1>2
<1>4. (InStep(h) => KeysOf(my[h].target) = columnKeys[my[h].target])'
  BY DEF KeysOf
<1>5. QED
  BY <1>1, <1>3, <1>4 DEF Relays

LEMMA SyncFollows ==
  ASSUME BaseInv, NEW h \in Handlers, RelaySync(h), Relays(h) PROVE Relays(h)'
<1>b. AdminTypeOK /\ stationRows \subseteq Stations
  BY DEF BaseInv, AdminTypeOK, StationsTypeOK
<1>1. /\ pc[h] = "station" /\ my'[h].list = my[h].list
      /\ UNCHANGED <<providers, catalog, pools, stations>>
  BY <1>b, SyncWritten
<1>2. PICK st \in my[h].list :
        /\ my'[h].target = st[1] /\ my'[h].merged = st[2]
        /\ \/ /\ pc'[h] = "sync" /\ my'[h].seen = KeysOf(st[1])
              /\ my'[h].covers = my[h].covers
           \/ /\ pc'[h] = "register" /\ my'[h].seen = FacesOf[st[1]]
              /\ my'[h].covers = my[h].covers \cup {"unsynced"}
  BY <1>b, SyncWritten
<1>3. PICK s \in stationRows : st = <<s, columnKeys[s]>>
  BY <1>1, <1>2 DEF Relays
<1>4. s \in Stations /\ s \notin Done(h) /\ my'[h].target = s /\ my'[h].merged = columnKeys[s]
  <2>1. s \in {e[1] : e \in my[h].list}
    BY <1>2, <1>3
  <2>2. QED
    BY <1>b, <1>2, <1>3, <2>1 DEF Done
<1>5. <<my'[h].target, my'[h].merged>> \in my'[h].list
  BY <1>1, <1>2, <1>3, <1>4
<1>6. keyRows' = keyRows /\ stationRows' = stationRows
  BY <1>1 DEF pools, stations
<1>7. /\ Tidy' /\ Done(h)' = Done(h) /\ Done(h) \subseteq endpoints'
      /\ my'[h].list \subseteq {<<r, columnKeys'[r]>> : r \in stationRows'}
      /\ InStep(h) => \A r \in Done(h) : KeysOf(r)' = columnKeys'[r]
      /\ \A fs, rs : Have(fs, rs) => Have(fs, rs)'
  <2>1. \A r \in Stations : KeysOf(r)' = KeysOf(r)
    BY <1>6 DEF KeysOf
  <2>2. QED
    BY <1>b, <1>1, <1>4, <2>1, DoneStands
<1>8. Have(RelaysOf(Done(h)), RelaysOf(Done(h)))'
  <2>1. Have(RelaysOf(Done(h)), RelaysOf(Done(h)))
    BY <1>1 DEF Relays
  <2>2. QED
    BY <1>7, <2>1
<1>9. CASE pc'[h] = "sync"
  <2>1. my'[h].seen = KeysOf(my[h].target)' /\ InStep(h)' = InStep(h)
    BY <1>2, <1>3, <1>4, <1>6, <1>9 DEF KeysOf, InStep
  <2>2. QED
    BY <1>5, <1>7, <1>8, <1>9, <2>1 DEF Relays
<1>10. CASE pc'[h] = "register"
  <2>1. ~InStep(h)' /\ my'[h].seen = FacesOf[s]
    BY <1>2, <1>3, <1>10 DEF InStep
  <2>2. s \in stationRows' \ Done(h)'
    BY <1>3, <1>4, <1>6, <1>7
  <2>3. QED
    BY <1>4, <1>7, <1>8, <1>10, <2>1, <2>2, ReadyToRegister
<1>11. QED
  BY <1>2, <1>9, <1>10

LEMMA SyncWritesFollow ==
  ASSUME BaseInv, NEW h \in Handlers, RelaySyncWrites(h), Relays(h) PROVE Relays(h)'
<1>b. AdminTypeOK /\ stationRows \subseteq Stations
  BY DEF BaseInv, AdminTypeOK, StationsTypeOK
<1> DEFINE t == my[h].target
<1>0. /\ UNCHANGED <<providers, catalog, stations>> /\ pc[h] = "sync"
      /\ my'[h].target = t /\ my'[h].list = my[h].list /\ my'[h].merged = my[h].merged
  BY <1>b, SyncWritesWritten
<1>1. /\ Have(RelaysOf(Done(h)), RelaysOf(Done(h))) /\ <<t, my[h].merged>> \in my[h].list
      /\ InStep(h) => my[h].seen = KeysOf(t)
  BY <1>0 DEF Relays
<1>2. t \in stationRows /\ my[h].merged = columnKeys[t] /\ t \in Stations /\ t \notin Done(h)
  <2>1. PICK s \in stationRows : <<t, my[h].merged>> = <<s, columnKeys[s]>>
    BY <1>0, <1>1 DEF Relays
  <2>2. t \in {e[1] : e \in my[h].list}
    BY <1>1
  <2>3. QED
    BY <1>b, <2>1, <2>2 DEF Done
<1>3. \A k \in columnKeys[t] : KeyOwner[k] = t
  BY <1>b, <1>2 DEF AdminTypeOK, StationsTypeOK, OwnKeys
<1>s. stationRows' = stationRows /\ columnKeys' = columnKeys
  BY <1>0 DEF stations
<1>4. ASSUME InStep(h) => \A s \in Stations \ {t} : KeysOf(s)' = KeysOf(s)
      PROVE  /\ Tidy' /\ Done(h)' = Done(h) /\ Done(h) \subseteq endpoints'
             /\ my'[h].list \subseteq {<<s, columnKeys'[s]>> : s \in stationRows'}
             /\ InStep(h) => \A s \in Done(h) : KeysOf(s)' = columnKeys'[s]
             /\ Have(RelaysOf(Done(h)), RelaysOf(Done(h)))'
  <2> HIDE DEF t
  <2>1. /\ Tidy' /\ Done(h)' = Done(h) /\ Done(h) \subseteq endpoints'
        /\ my'[h].list \subseteq {<<s, columnKeys'[s]>> : s \in stationRows'}
        /\ InStep(h) => \A s \in Done(h) : KeysOf(s)' = columnKeys'[s]
        /\ \A fs, rs : Have(fs, rs) => Have(fs, rs)'
    BY <1>b, <1>0, <1>2, <1>4, DoneStands
  <2>2. QED
    BY <1>1, <2>1
<1>5. ASSUME InStep(h) => \A s \in Stations \ {t} : KeysOf(s)' = KeysOf(s),
             InStep(h)' => InStep(h) /\ my'[h].seen = KeysOf(t)',
             pc'[h] = "sync"
      PROVE  Relays(h)'
  <2>1. (InStep(h) => my[h].seen = KeysOf(my[h].target))'
    BY <1>0, <1>5 DEF KeysOf
  <2>2. <<my'[h].target, my'[h].merged>> \in my'[h].list
    BY <1>0, <1>1
  <2>3. QED
    BY <1>4, <1>5, <2>1, <2>2 DEF Relays
<1>6. CASE /\ pc'[h] = "sync" /\ my'[h].covers = my[h].covers
           /\ \E k \in my[h].seen \ my[h].merged :
                 DeleteRows({k}) /\ my'[h].seen = my[h].seen \ {k}
  <2>1. PICK k \in my[h].seen \ my[h].merged :
          DeleteRows({k}) /\ my'[h].seen = my[h].seen \ {k}
    BY <1>6
  <2>2. keyRows' = keyRows \ {k}
    BY <2>1 DEF DeleteRows
  <2>3. InStep(h) => KeyOwner[k] = t
    BY <1>1, <2>1 DEF KeysOf
  <2>4. InStep(h) => /\ \A s \in Stations \ {t} : KeysOf(s)' = KeysOf(s)
                     /\ my'[h].seen = KeysOf(t)'
    BY <1>0, <1>1, <2>1, <2>2, <2>3 DEF KeysOf
  <2>5. InStep(h)' = InStep(h)
    BY <1>6 DEF InStep
  <2> HIDE DEF t
  <2>6. QED
    BY <1>5, <1>6, <2>4, <2>5
<1>7. CASE /\ pc'[h] = "sync" /\ my'[h].covers = my[h].covers
           /\ \E k \in my[h].merged \ my[h].seen :
                 CreateRows({k}) /\ my'[h].seen = my[h].seen \cup {k}
  <2>1. PICK k \in my[h].merged \ my[h].seen :
          CreateRows({k}) /\ my'[h].seen = my[h].seen \cup {k}
    BY <1>7
  <2>2. keyRows' = keyRows \cup {k}
    BY <2>1 DEF CreateRows
  <2>3. KeyOwner[k] = t
    BY <1>2, <1>3, <2>1
  <2>4. InStep(h) => /\ \A s \in Stations \ {t} : KeysOf(s)' = KeysOf(s)
                     /\ my'[h].seen = KeysOf(t)'
    BY <1>0, <1>1, <2>1, <2>2, <2>3 DEF KeysOf
  <2>5. InStep(h)' = InStep(h)
    BY <1>7 DEF InStep
  <2> HIDE DEF t
  <2>6. QED
    BY <1>5, <1>7, <2>4, <2>5
<1>8. CASE /\ pc'[h] = "sync" /\ my'[h].covers = my[h].covers \cup {"unsynced"}
           /\ UNCHANGED pools
  <2>1. ~InStep(h)' /\ \A s \in Stations : KeysOf(s)' = KeysOf(s)
    BY <1>8 DEF InStep, KeysOf, pools
  <2>2. QED
    BY <1>5, <1>8, <2>1
<1>9. CASE /\ pc'[h] = "register" /\ my'[h].covers = my[h].covers
           /\ my[h].seen = my[h].merged /\ my'[h].seen = FacesOf[my[h].target]
           /\ UNCHANGED pools
  <2>1. InStep(h)' = InStep(h) /\ \A s : KeysOf(s)' = KeysOf(s)
    BY <1>9 DEF InStep, KeysOf, pools
  <2>t. PICK u : u = my[h].target
    OBVIOUS
  <2>2. InStep(h)' => KeysOf(u)' = columnKeys'[u]
    BY <1>1, <1>2, <1>9, <1>s, <2>1, <2>t
  <2>3. /\ Tidy' /\ Done(h)' = Done(h) /\ Done(h) \subseteq endpoints'
        /\ my'[h].list \subseteq {<<s, columnKeys'[s]>> : s \in stationRows'}
        /\ InStep(h) => \A s \in Done(h) : KeysOf(s)' = columnKeys'[s]
        /\ Have(RelaysOf(Done(h)), RelaysOf(Done(h)))'
    BY <1>4, <2>1
  <2>4. u \in stationRows' \ Done(h)'
    BY <1>2, <1>s, <2>3, <2>t
  <2>5. my'[h].target = u /\ my'[h].seen = FacesOf[u]
    BY <1>0, <1>9, <2>t
  <2>d. Done(h)' \subseteq endpoints'
    BY <2>3
  <2>i. InStep(h)' => \A s \in Done(h)' : KeysOf(s)' = columnKeys'[s]
    BY <2>1, <2>3
  <2>h. Have(RelaysOf(Done(h)), RelaysOf(Done(h)))'
    BY <2>3
  <2> HIDE DEF t
  <2>6. QED
    BY <1>9, <2>2, <2>3, <2>4, <2>5, <2>d, <2>i, <2>h, ReadyToRegister
<1>10. QED
  BY <1>b, <1>6, <1>7, <1>8, <1>9, SyncWritesWritten

LEMMA RegisterFollows ==
  ASSUME BaseInv, NEW h \in Handlers, RelayRegisters(h), pc[h] = "register", Relays(h)
  PROVE  Relays(h)'
<1>b. AdminTypeOK /\ Shapes /\ keyRows \subseteq Keys /\ stationRows \subseteq Stations
  BY DEF BaseInv, AdminTypeOK, PoolsTypeOK, StationsTypeOK
<1>0. /\ my'[h].seen = my[h].seen /\ my'[h].target = my[h].target
      /\ UNCHANGED <<catalog, pools, stations>>
  BY <1>b, RegisterWritten
<1>i. InStep(h)' = InStep(h)
  BY <1>b, RegisterWritten DEF InStep
<1>s. stationRows' = stationRows /\ columnKeys' = columnKeys /\ keyRows' = keyRows
  BY <1>0 DEF stations, pools
<1> DEFINE t == my[h].target
           all == RelaysOf(Done(h)) \cup (Here(h) \ my[h].seen)
<1>1. /\ Tidy /\ my[h].list \subseteq {<<s, columnKeys[s]>> : s \in stationRows}
      /\ Done(h) \subseteq endpoints /\ (InStep(h) => \A s \in Done(h) : KeysOf(s) = columnKeys[s])
      /\ t \in stationRows \ Done(h) /\ (InStep(h) => KeysOf(t) = columnKeys[t])
      /\ my[h].seen = Here(h) \/ t \in endpoints
      /\ Have(all, all)
  BY DEF Relays
<1>2. CASE \E f \in my[h].seen :
             /\ RegisterRelay(f) /\ pc'[h] = "add"
             /\ my'[h].merged = {f} /\ my'[h].list = my[h].list
  <2>1. PICK f \in my[h].seen :
             /\ RegisterRelay(f) /\ pc'[h] = "add"
             /\ my'[h].merged = {f} /\ my'[h].list = my[h].list
    BY <1>2
  <2>2. UNCHANGED <<loaded, endpoints>> /\ registered' = registered \cup {f}
    BY <2>1 DEF RegisterRelay
  <2>3. Tidy' /\ Done(h)' = Done(h) /\ Here(h)' = Here(h)
    BY <1>0, <1>1, <1>s, <2>1, <2>2 DEF Tidy, Done, Here
  <2>4. (Have(RelaysOf(Done(h)) \cup (Here(h) \ my[h].seen),
              RelaysOf(Done(h)) \cup (Here(h) \ my[h].seen) \cup my[h].merged))'
    <3>1. loaded' = Configured \cup all /\ registered' = all \cup {f}
      BY <1>1, <2>2 DEF Have
    <3>2. RelaysOf(Done(h)') \cup (Here(h)' \ my'[h].seen) = all
      BY <1>0, <2>3
    <3> HIDE DEF all
    <3>3. QED
      BY <2>1, <3>1, <3>2 DEF Have
  <2>5. \A s : KeysOf(s)' = KeysOf(s)
    BY <1>s DEF KeysOf
  <2>6. InStep(h)' => KeysOf(my[h].target)' = columnKeys'[my'[h].target]
    BY <1>0, <1>1, <1>i, <1>s DEF KeysOf
  <2> HIDE DEF all
  <2>7. QED
    BY <1>0, <1>i, <1>1, <1>s, <2>1, <2>2, <2>3, <2>4, <2>5, <2>6 DEF Relays
<1>3. CASE /\ my[h].seen = {} /\ UNCHANGED providers /\ pc'[h] = "station"
           /\ my'[h].list = {st \in my[h].list : st[1] # my[h].target}
  <2>1. UNCHANGED <<loaded, registered, endpoints>>
    BY <1>3 DEF providers
  <2>2. Done(h)' = Done(h) \cup {t}
    BY <1>1, <1>3, <1>s DEF Done
  <2>3. t \in endpoints
    <3>1. Here(h) # {}
      BY <1>b, <1>1, NamesSorted DEF Here
    <3>2. QED
      BY <1>1, <1>3, <3>1
  <2>4. all = RelaysOf(Done(h)) \cup FacesOf[t]
    BY <1>3 DEF Here
  <2>5. RelaysOf(Done(h)') = all
    BY <2>2, <2>4, RelaysOfMore
  <2>6. Have(RelaysOf(Done(h)), RelaysOf(Done(h)))'
    <3> HIDE DEF all
    <3>1. QED
      BY <1>1, <2>1, <2>5 DEF Have
  <2>7. Tidy' /\ \A s : KeysOf(s)' = KeysOf(s)
    BY <1>1, <1>s, <2>1 DEF Tidy, KeysOf
  <2>8. /\ Done(h)' \subseteq endpoints'
        /\ InStep(h)' => \A s \in Done(h)' : KeysOf(s)' = columnKeys'[s]
        /\ my'[h].list \subseteq {<<s, columnKeys'[s]>> : s \in stationRows'}
    BY <1>1, <1>3, <1>i, <1>s, <2>1, <2>2, <2>3, <2>7
  <2> HIDE DEF all
  <2>9. QED
    BY <1>3, <2>6, <2>7, <2>8 DEF Relays
<1>4. QED
  BY <1>b, <1>2, <1>3, RegisterWritten

LEMMA AddFollows ==
  ASSUME BaseInv, NEW h \in Handlers, RelayRegisters(h), pc[h] = "add", Relays(h)
  PROVE  Relays(h)'
<1>b. /\ AdminTypeOK /\ Shapes /\ Loads /\ ProvidersTypeOK /\ keyRows \subseteq Keys
      /\ stationRows \subseteq Stations
  BY DEF BaseInv, MetaInv, AdminTypeOK, PoolsTypeOK, StationsTypeOK
<1>1. PICK f \in my[h].seen :
           /\ my[h].merged = {f} /\ AddProvider(f) /\ NewInstance(f)
           /\ pc'[h] = "register" /\ my'[h].seen = my[h].seen \ {f}
           /\ my'[h].target = my[h].target /\ my'[h].list = my[h].list
           /\ my'[h].covers = my[h].covers /\ UNCHANGED stations
  BY <1>b, AddWritten
<1>i. InStep(h)' = InStep(h)
  BY <1>1 DEF InStep
<1> DEFINE t == my[h].target
           all == RelaysOf(Done(h)) \cup (Here(h) \ my[h].seen)
<1>2. /\ Tidy /\ my[h].list \subseteq {<<s, columnKeys[s]>> : s \in stationRows}
      /\ Done(h) \subseteq endpoints /\ (InStep(h) => \A s \in Done(h) : KeysOf(s) = columnKeys[s])
      /\ t \in stationRows \ Done(h) /\ (InStep(h) => KeysOf(t) = columnKeys[t])
      /\ Have(all, all \cup {f})
  BY <1>1 DEF Relays
<1>3. f \in Here(h) /\ t \in Stations /\ f \in RelayFaces
  BY <1>b, <1>1, <1>2, NamesSorted DEF Shapes, Fit, Here, RelayFaces
<1>4. /\ loaded' = loaded \cup {f} /\ registered' = registered
      /\ endpoints' = endpoints \cup {f, VendorFor(f)}
  BY <1>1 DEF AddProvider
<1>5. VendorFor(f) = t
  <2>1. f \in registered
    BY <1>2 DEF Have
  <2>2. VendorOf[f] = t
    BY <1>3, NamesSorted, OneVendor DEF Here
  <2>3. QED
    BY <1>b, <1>3, <2>1, <2>2, NamesSorted, VendorForType DEF ProvidersTypeOK
<1>6. stationRows' = stationRows /\ columnKeys' = columnKeys /\ keyRows' = keyRows
  BY <1>1 DEF stations, NewInstance
<1>7. Done(h)' = Done(h) /\ Here(h)' = Here(h)
  BY <1>1, <1>6 DEF Done, Here
<1>8. RelaysOf(Done(h)') \cup (Here(h)' \ my'[h].seen) = all \cup {f}
  BY <1>1, <1>3, <1>7
<1>9. loaded \ Configured \subseteq registered /\ f \in registered
  BY <1>2 DEF Have
<1>10. Tidy'
  BY <1>b, <1>1, <1>2, <1>3, <1>9, TidyKept
<1>11. (Have(RelaysOf(Done(h)) \cup (Here(h) \ my[h].seen),
             RelaysOf(Done(h)) \cup (Here(h) \ my[h].seen)))'
  <2> HIDE DEF all
  <2>1. QED
    BY <1>2, <1>4, <1>8 DEF Have
<1>12. \A s : KeysOf(s)' = KeysOf(s)
  BY <1>6 DEF KeysOf
<1>13. InStep(h)' => KeysOf(my[h].target)' = columnKeys'[my'[h].target]
  BY <1>1, <1>2, <1>6, <1>i DEF KeysOf
<1>14. my'[h].target \in endpoints'
  BY <1>1, <1>4, <1>5
<1>15. /\ Done(h)' \subseteq endpoints'
       /\ InStep(h)' => \A s \in Done(h)' : KeysOf(s)' = columnKeys'[s]
       /\ my'[h].list \subseteq {<<s, columnKeys'[s]>> : s \in stationRows'}
       /\ my'[h].target \in stationRows' \ Done(h)'
  BY <1>i, <1>1, <1>2, <1>4, <1>6, <1>7, <1>12
<1> HIDE DEF all
<1>16. QED
  BY <1>1, <1>10, <1>11, <1>13, <1>14, <1>15 DEF Relays

\* All stations done: the manager and the registry have the database's stations.
LEMMA EndFollowed ==
  ASSUME BaseInv, NEW h \in Handlers, RelayEnds(h), Relays(h)
  PROVE  Followed' /\ (InStep(h)' => KeysFollowed')
<1>b. AdminTypeOK /\ MetadataKept /\ stationRows \subseteq Stations
  BY DEF BaseInv, MetaInv, AdminTypeOK, StationsTypeOK
<1>1. /\ pc[h] = "station" /\ my[h].list = {}
      /\ UNCHANGED <<providers, catalog, pools, stations>>
  BY <1>b, EndsWritten
<1>2. /\ Tidy /\ Done(h) \subseteq endpoints /\ (InStep(h) => \A s \in Done(h) : KeysOf(s) = columnKeys[s])
      /\ Have(RelaysOf(Done(h)), RelaysOf(Done(h)))
  BY <1>1 DEF Relays
<1>3. Done(h) = stationRows
  BY <1>1 DEF Done
<1>4. endpoints = loaded \cup stationRows
  <2>1. loaded \cup stationRows \subseteq endpoints
    BY <1>b, <1>2, <1>3 DEF MetadataKept
  <2>2. ASSUME NEW f \in loaded \ Configured PROVE VendorOf[f] \in stationRows
    BY <1>b, <1>2, <1>3, <2>2, RelaysAre DEF Have
  <2>3. QED
    BY <1>2, <2>1, <2>2 DEF Tidy
<1>5. Followed /\ (InStep(h) => KeysFollowed)
  BY <1>2, <1>3, <1>4 DEF Followed, KeysFollowed
<1>6. UNCHANGED <<loaded, registered, endpoints, stationRows, columnKeys, keyRows>>
  BY <1>1 DEF providers, pools, stations
<1>7. Followed' = Followed /\ KeysFollowed' = KeysFollowed
  BY <1>6 DEF Followed, KeysFollowed, Have, KeysOf
<1>8. InStep(h)' = InStep(h)
  BY <1>b, EndsWritten DEF InStep
<1>9. QED
  BY <1>5, <1>7, <1>8

LEMMA PoolsLeave ==
  ASSUME NEW h, ReloadPool(h)
  PROVE  UNCHANGED <<providers, stations, keyRows>>
BY DEF ReloadPool, ReloadNames, ReloadBuilds, ReloadCopies, ReloadVisits, ReloadRelays, ReloadSwaps,
       Build, SetPool, SwapServer, SwapRouter, SwapQuota, Same, pools

LEMMA FollowedStands ==
  ASSUME UNCHANGED <<providers, stations, keyRows>>
  PROVE  Followed' = Followed /\ KeysFollowed' = KeysFollowed
BY DEF Followed, KeysFollowed, Have, KeysOf, providers, stations

\* A clean handler in a reload came there clean.
LEMMA CleanBefore ==
  ASSUME AdminTypeOK, Shapes, NEW h \in Handlers, Handler(h), Clean(h)',
         pc[h] \in RelayStages \cup PoolStages
  PROVE  Clean(h) /\ (InStep(h)' => InStep(h))
<1>t. "stations" \notin Vendors /\ "unsynced" \notin Vendors
  BY NamesSorted DEF Tags
<1>1. CASE pc[h] \in RelayStages
  <2>1. my'[h].covers \in {{}, my[h].covers, my[h].covers \cup {"unsynced"}}
    BY <1>1, DoesReload, CoversOfRelays
  <2>2. QED
    BY <2>1 DEF Clean, InStep
<1>2. CASE pc[h] \in PoolStages
  <2>1. \/ my'[h].covers \in {{}, my[h].covers}
        \/ my'[h].covers \subseteq my[h].covers \cup Vendors /\ my[h].covers \subseteq my'[h].covers
    BY <1>2, DoesReload, CoversOfPools
  <2>2. QED
    BY <1>t, <2>1 DEF Clean, InStep
<1>3. QED
  BY <1>1, <1>2

\* The stages of a stations' reload follow on each other, and on its list of the faces.
LEMMA StageBefore ==
  ASSUME AdminTypeOK, Shapes, NEW h \in Handlers, Handler(h), pc'[h] \in RelayStages
  PROVE  RelayList(h) \/ (pc[h] \in RelayStages /\ (RelayRemoves(h) \/ RelayRows(h) \/ RelaySync(h)
                                                     \/ RelaySyncWrites(h) \/ RelayRegisters(h)))
<1>1. HandlersTypeOK
  BY DEF AdminTypeOK
<1>2. \/ RelayList(h) \/ RelayRemoves(h) \/ RelayRows(h) \/ RelaySync(h)
      \/ RelaySyncWrites(h) \/ RelayRegisters(h)
  BY <1>1, Enters DEF RelayStages
<1>3. ~RelayList(h) => pc[h] \in RelayStages
  BY <1>2 DEF RelayRemoves, RelayRows, RelaySync, RelaySyncWrites, Synced, Unsynced, RelayRegisters, RelayStages, At
<1>4. QED
  BY <1>2, <1>3

LEMMA PoolStageBefore ==
  ASSUME AdminTypeOK, NEW h \in Handlers, Handler(h), pc'[h] \in PoolStages
  PROVE  \/ RelayEnds(h) \/ pc[h] \in PoolStages
         \/ pc[h] \in {"create", "delete"}
<1>1. HandlersTypeOK
  BY DEF AdminTypeOK
<1> USE DEF PoolStages, At
<1>2. CASE pc'[h] \in {"names", "build", "copy"}
  BY <1>1, <1>2, Enters DEF ReloadNames, ReloadBuilds
<1>3. CASE pc'[h] \in {"visit", "server", "router", "quota"}
  BY <1>1, <1>3, Enters DEF ReloadNames, ReloadCopies, ReloadVisits, ReloadRelays
<1>4. QED
  BY <1>2, <1>3

LEMMA RelaysFollow ==
  ASSUME BaseInv, Announced, Following, NEW h \in Handlers, Handler(h),
         Solo(h)', Clean(h)', pc'[h] \in RelayStages
  PROVE  Relays(h)'
<1>b. AdminTypeOK /\ Shapes
  BY DEF BaseInv
<1>1. CASE RelayList(h)
  <2>1. pc[h] # "idle"
    BY <1>1 DEF RelayList, At
  <2>2. Solo(h)
    BY <1>b, <2>1, SoloBefore
  <2>3. QED
    BY <1>1, <2>2, ListFollows
<1>2. CASE pc[h] \in RelayStages
  <2>1. pc[h] # "idle"
    BY <1>2 DEF RelayStages
  <2>2. Solo(h) /\ Clean(h)
    BY <1>b, <1>2, <2>1, SoloBefore, CleanBefore
  <2>3. Relays(h)
    BY <1>2, <2>2 DEF Following
  <2>4. RelayRegisters(h) => pc[h] \in {"register", "add"}
    BY DEF RelayRegisters, At
  <2>5. ~RelayList(h)
    BY <1>2 DEF RelayList, At, RelayStages
  <2>6. QED
    BY <1>b, <2>3, <2>4, <2>5, StageBefore, RemoveFollows, RowsFollow, SyncFollows,
       SyncWritesFollow, RegisterFollows, AddFollows
<1>3. QED
  BY <1>b, <1>1, <1>2, StageBefore

LEMMA PoolsFollow ==
  ASSUME BaseInv, Following, NEW h \in Handlers, Handler(h),
         Solo(h)', Clean(h)', pc'[h] \in PoolStages
  PROVE  Followed' /\ (InStep(h)' => KeysFollowed')
<1>b. AdminTypeOK /\ Shapes
  BY DEF BaseInv
<1>1. CASE RelayEnds(h)
  <2>1. pc[h] = "station"
    BY <1>1 DEF RelayEnds, At
  <2>2. Solo(h) /\ Clean(h)
    BY <1>b, <2>1, SoloBefore, CleanBefore DEF RelayStages
  <2>3. Relays(h)
    BY <2>1, <2>2 DEF Following, RelayStages
  <2>4. QED
    BY <1>1, <2>3, EndFollowed
<1>2. CASE pc[h] \in PoolStages
  <2>1. pc[h] # "idle"
    BY <1>2 DEF PoolStages
  <2>2. Solo(h) /\ Clean(h) /\ (InStep(h)' => InStep(h))
    BY <1>b, <1>2, <2>1, SoloBefore, CleanBefore
  <2>3. Followed /\ (InStep(h) => KeysFollowed)
    BY <1>2, <2>2 DEF Following
  <2>4. QED
    BY <1>2, <2>2, <2>3, DoesReload, PoolsLeave, FollowedStands
<1>3. CASE pc[h] \in {"create", "delete"}
  <2>1. my[h].covers = {}
    BY <1>3 DEF Following, CoversFit, RelayStages, PoolStages
  <2>2. ~ReloadPool(h) /\ ~Reloading(h) /\ ~RelayList(h)
    BY <1>3 DEF ReloadPool, ReloadNames, ReloadBuilds, ReloadCopies,
                ReloadVisits, ReloadRelays, ReloadSwaps, Reloading, RelayRemoves, RelayRows,
                RelaySync, RelaySyncWrites, Synced, Unsynced, RelayRegisters, RelayEnds, RelayList, Fails, At
  <2>3. my'[h].covers = {}
    BY <1>b, <2>1, <2>2, CoversStand DEF Nobody
  <2>4. QED
    BY <2>3 DEF Clean
<1>4. QED
  BY <1>b, <1>1, <1>2, <1>3, PoolStageBefore

LEMMA StationsSettled ==
  ASSUME BaseInv, Following, NEW h \in Handlers, Handler(h) PROVE StationsFollow'
<1>b. AdminTypeOK /\ Shapes /\ Solitude
  BY DEF BaseInv
<1>1. SUFFICES ASSUME "stations" \in settled', "leftovers" \notin settled'
               PROVE  Followed' /\ ("unsynced" \notin settled' => KeysFollowed')
  BY DEF StationsFollow, Followed, KeysFollowed, Have
<1>2. Solo(h) /\ Settles(h, settled')
  BY <1>b, <1>1, SettledBy
<1>3. pc[h] = "quota" /\ Clean(h) /\ settled' = my[h].covers
  BY <1>1, <1>2 DEF Settles, Clean
<1>4. Followed /\ ("unsynced" \notin settled' => KeysFollowed)
  BY <1>2, <1>3 DEF Following, PoolStages, InStep
<1>5. ReloadPool(h)
  BY <1>3, Does DEF ReloadPool
<1>6. QED
  BY <1>4, <1>5, PoolsLeave, FollowedStands

LEMMA FollowingKept ==
  ASSUME BaseInv, Announced, Following, NEW h \in Handlers, Handler(h) PROVE Following'
<1>b. AdminTypeOK /\ Shapes /\ Solitude /\ HandlersTypeOK
  BY DEF BaseInv, AdminTypeOK
<1>1. ASSUME NEW g \in Handlers
      PROVE  /\ CoversFit(pc'[g], my'[g].covers)
             /\ Solo(g)' /\ Clean(g)' /\ pc'[g] \in RelayStages => Relays(g)'
             /\ Solo(g)' /\ Clean(g)' /\ pc'[g] \in PoolStages =>
                  Followed' /\ (InStep(g)' => KeysFollowed')
  <2>1. CASE g = h
    <3>1. CoversFit(pc[h], my[h].covers)
      BY DEF Following
    <3>2. QED
      BY <1>b, <2>1, <3>1, CoversKept, RelaysFollow, PoolsFollow
  <2>2. CASE g # h
    <3>1. CoversFit(pc'[g], my'[g].covers)
      BY <1>b, <2>2, Others DEF Following
    <3>2. ~Solo(g)'
      BY <1>b, <2>2, NoOtherSolo
    <3>3. QED
      BY <3>1, <3>2
  <2>3. QED
    BY <2>1, <2>2
<1>2. QED
  BY <1>1, StationsSettled DEF Following

LEMMA InitFollowing == AdminInit => Announced /\ Following
<1>1. SUFFICES ASSUME AdminInit PROVE Announced /\ Following
  OBVIOUS
<1>2. registered \subseteq loaded /\ settled = {}
  BY <1>1 DEF AdminInit, ProvidersInit
<1>3. \A h \in Handlers : pc[h] = "idle" /\ my[h] = Nobody
  BY <1>1 DEF AdminInit
<1>4. Announced
  BY <1>2 DEF Announced
<1>5. \A h \in Handlers : CoversFit(pc[h], my[h].covers) /\ ~Solo(h)
  BY <1>3 DEF CoversFit, Nobody, RelayStages, PoolStages, Solo, Busy
<1>6. QED
  BY <1>2, <1>4, <1>5 DEF Following, StationsFollow

LEMMA FollowingStays ==
  ASSUME Announced, Following, UNCHANGED admin PROVE Announced' /\ Following'
<1>1. UNCHANGED <<loaded, registered, endpoints, stationRows, columnKeys, keyRows, pc, my, alone, settled>>
  BY DEF admin, providers, stations, handlers, pools
<1>2. Announced'
  BY <1>1 DEF Announced
<1>3. /\ Followed' = Followed /\ KeysFollowed' = KeysFollowed
      /\ StationsFollow' = StationsFollow
  BY <1>1 DEF Followed, KeysFollowed, Have, KeysOf, StationsFollow
<1>4. ASSUME NEW h \in Handlers PROVE Relays(h)' = Relays(h)
  BY <1>1 DEF Relays, Tidy, Have, Done, Here, KeysOf, InStep
<1>5. \A h \in Handlers : Solo(h)' = Solo(h) /\ Clean(h)' = Clean(h) /\ InStep(h)' = InStep(h)
  BY <1>1 DEF Solo, Busy, Clean, InStep
<1>6. QED
  BY <1>1, <1>2, <1>3, <1>4, <1>5 DEF Following

LEMMA FollowingCorrect == AdminSpec => [](BaseInv /\ Announced /\ Following)
<1>1. BaseInv /\ Announced /\ Following /\ [AdminNext]_admin => Announced' /\ Following'
  <2>1. ASSUME BaseInv, Announced, Following, NEW h \in Handlers, Handler(h)
        PROVE  Announced' /\ Following'
    BY <2>1, AnnouncedKept, FollowingKept DEF BaseInv
  <2>2. QED
    BY <2>1, FollowingStays DEF AdminNext, AllEnded
<1>2. QED
  BY <1>1, InitFollowing, BaseCorrect, PTL DEF AdminSpec

\* Where overlapping reloads left nothing behind, a reload of the stations that nobody
\* disturbs leaves the manager, the registry, the endpoints and the key rows with exactly
\* the stations of the database: what is registered but not loaded is always in the hands
\* of a handler, so one that is alone finds none.
THEOREM AdminStationsFollow == AdminSpec => []StationsFollow
<1>1. Following => StationsFollow
  BY DEF Following
<1>2. QED
  BY <1>1, FollowingCorrect, PTL

-----------------------------------------------------------------------------
(* The pools that a reload which nobody disturbs builds and hands out.     *)

LEMMA SwapsWritten ==
  ASSUME AdminTypeOK, NEW h \in Handlers, ReloadSwaps(h)
  PROVE  /\ UNCHANGED <<providers, catalog, stations, keyRows, facePool>>
         /\ \/ /\ pc[h] = "server" /\ pc'[h] = "router" /\ my'[h] = my[h]
               /\ serverPools' = my[h].map
            \/ /\ pc[h] = "router" /\ pc'[h] = "quota" /\ my'[h] = my[h]
               /\ routerPools' = my[h].map /\ serverPools' = serverPools
            \/ /\ pc[h] = "quota" /\ pc'[h] = "done" /\ quotaPools' = my[h].map
               /\ serverPools' = serverPools /\ routerPools' = routerPools
<1>h. HandlersTypeOK
  BY DEF AdminTypeOK
<1>1. CASE At(h, "server") /\ SwapServer(my[h].map) /\ Go(h, "router") /\ Keep
  BY <1>h, <1>1 DEF ReloadSwaps, At, Go, Keep, SwapServer, HandlersTypeOK
<1>2. CASE At(h, "router") /\ SwapRouter(my[h].map) /\ Go(h, "quota") /\ Keep
  BY <1>h, <1>2 DEF ReloadSwaps, At, Go, Keep, SwapRouter, HandlersTypeOK
<1>3. CASE At(h, "quota") /\ SwapQuota(my[h].map) /\ Ends(h, my[h].covers)
  BY <1>h, <1>3 DEF ReloadSwaps, At, Ends, Finish, SwapQuota, HandlersTypeOK
<1>4. QED
  BY <1>1, <1>2, <1>3 DEF ReloadSwaps

LEMMA ItsStand ==
  ASSUME UNCHANGED providers, NEW v PROVE Its(v)' = Its(v) /\ \A f : VendorFor(f)' = VendorFor(f)
BY DEF Its, VendorFor, providers

LEMMA ItsAre ==
  ASSUME AdminTypeOK, NEW v, NEW f \in Its(v)
  PROVE  f \in loaded /\ f \in Faces /\ f \in Names /\ VendorFor(f) = v /\ v = VendorOf[f]
<1>1. f \in loaded /\ f \in Faces /\ f \in Configured \cup registered /\ VendorFor(f) = v
  BY DEF Its, AdminTypeOK, ProvidersTypeOK
<1>2. QED
  BY <1>1, NamesSorted DEF VendorFor

LEMMA NamesServe ==
  ASSUME BaseInv, NEW h \in Handlers, ReloadNames(h), Serving(h) PROVE Serving(h)'
<1>b. AdminTypeOK /\ Shapes
  BY DEF BaseInv
<1>t. "all" \notin Vendors
  BY NamesSorted DEF Tags
<1> DEFINE v == my[h].target
           its == {f \in loaded : VendorFor(f) = v}
<1>1. /\ pc[h] = "names" /\ my'[h].built = {} /\ my'[h].target = v
      /\ v = "all" => pc'[h] = "visit" /\ my'[h].todo = Configured
      /\ v # "all" => /\ pc'[h] = "build"
                      /\ my'[h].todo = IF its = {} THEN {v} ELSE its
                      /\ my'[h].covers = my[h].covers \cup {v}
  BY <1>b, NamesWritten
<1>2. UNCHANGED <<providers, pools>> /\ Covered(h) = {}
  BY <1>1 DEF ReloadNames, Same, Serving
<1>3. CASE v = "all"
  <2>1. \A f \in Configured : f \in my'[h].todo
    BY <1>1, <1>3
  <2>2. QED
    BY <1>1, <1>3, <1>t, <2>1 DEF Serving
<1>4. CASE v # "all"
  <2>1. Covered(h)' \subseteq {v}
    BY <1>1, <1>2, <1>4 DEF Covered
  <2>2. Its(v) \subseteq its
    BY DEF Its
  <2>3. Its(my[h].target)' = Its(v)
    BY <1>1, <1>2 DEF Its, VendorFor, providers
  <2> HIDE DEF its
  <2>4. Its(my[h].target)' \subseteq my'[h].todo
    BY <1>1, <1>4, <2>2, <2>3
  <2>5. QED
    BY <1>1, <1>4, <2>1, <2>4 DEF Serving
<1>5. QED
  BY <1>3, <1>4

LEMMA BuildsServe ==
  ASSUME BaseInv, NEW h \in Handlers, ReloadBuilds(h), Serving(h) PROVE Serving(h)'
<1>b. AdminTypeOK /\ Shapes
  BY DEF BaseInv
<1>1. /\ pc[h] = "build" /\ pc'[h] = "copy" /\ UNCHANGED <<providers, pools>>
      /\ my'[h].target = my[h].target /\ my'[h].todo = my[h].todo
  BY <1>b, BuildsWritten
<1>2. PICK p \in PoolType :
        /\ my'[h].built = {p}
        /\ \/ my'[h].covers = {}
           \/ my'[h].covers = my[h].covers /\ p.keys = KeysOf(p.vendor)
  BY <1>b, BuildsWritten
<1>3. Covered(h)' \subseteq {my'[h].target} /\ (Covered(h)' # {} => p.keys = KeysOf(p.vendor))
  BY <1>1, <1>2 DEF Serving, Covered
<1>4. Its(my[h].target)' \subseteq my'[h].todo
  BY <1>1 DEF Serving, Its, VendorFor, providers
<1>5. Covered(h)' # {} => \A q \in my'[h].built : q.keys = KeysOf(q.vendor)'
  BY <1>1, <1>2, <1>3 DEF KeysOf, pools
<1>6. QED
  BY <1>1, <1>3, <1>4, <1>5 DEF Serving

LEMMA CopiesServe ==
  ASSUME BaseInv, NEW h \in Handlers, ReloadCopies(h), Serving(h) PROVE Serving(h)'
<1>b. AdminTypeOK /\ Shapes
  BY DEF BaseInv
<1>1. /\ pc[h] = "copy" /\ pc'[h] = "visit" /\ UNCHANGED <<providers, pools>>
      /\ my'[h].target = my[h].target /\ my'[h].todo = my[h].todo
      /\ my'[h].built = my[h].built /\ my'[h].covers = my[h].covers
  BY <1>b, CopiesWritten
<1>2. Covered(h)' = Covered(h) /\ Covered(h) \subseteq {my[h].target}
  BY <1>1 DEF Serving, Covered
<1>3. \A v \in Covered(h)' : \A f \in Its(v)' : f \in my'[h].todo
  BY <1>1, <1>2, ItsStand DEF Serving
<1>4. Covered(h)' # {} => \A q \in my'[h].built : q.keys = KeysOf(q.vendor)'
  BY <1>1, <1>2 DEF Serving, PoolStages, KeysOf, pools
<1>5. QED
  BY <1>1, <1>2, <1>3, <1>4 DEF Serving

LEMMA VisitsServe ==
  ASSUME BaseInv, Mapped, NEW h \in Handlers, ReloadVisits(h), Serving(h) PROVE Serving(h)'
<1>b. AdminTypeOK /\ Shapes /\ PoolsTypeOK /\ registered \subseteq RelayFaces
  BY DEF BaseInv, AdminTypeOK, ProvidersTypeOK
<1>1. /\ pc[h] = "visit" /\ pc'[h] = "visit" /\ my'[h].target = my[h].target
      /\ my[h].target \in Vendors \cup {"all", "relays"} /\ (VisitBuilds(h) \/ VisitEnters(h))
  BY <1>b, VisitsWritten
<1>2. /\ my[h].target \in Vendors => Covered(h) \subseteq {my[h].target}
      /\ Covered(h) # {} => \A p \in my[h].built : p.keys = KeysOf(p.vendor)
      /\ \A v \in Covered(h) : \A f \in Its(v) :
           Serves(h, f) \/ f \in my[h].todo \/ (my[h].target = "all" /\ f \notin Configured)
  BY <1>1 DEF Serving, PoolStages
<1>3. CASE VisitBuilds(h)
  <2>1. /\ UNCHANGED <<providers, pools>>
        /\ my'[h].todo = my[h].todo /\ my'[h].map = my[h].map
    BY <1>3 DEF VisitBuilds
  <2>2. PICK p \in PoolType :
          /\ my'[h].built = my[h].built \cup {p}
          /\ \/ my'[h].covers = {}
             \/ my'[h].covers = my[h].covers /\ p.keys = KeysOf(p.vendor)
    BY <1>3 DEF VisitBuilds
  <2>3. Covered(h)' \subseteq Covered(h) /\ (Covered(h)' # {} => p.keys = KeysOf(p.vendor))
    BY <2>2 DEF Covered
  <2>4. Covered(h)' # {} => \A q \in my'[h].built : q.keys = KeysOf(q.vendor)'
    BY <1>2, <2>1, <2>2, <2>3 DEF KeysOf, pools
  <2>5. \A f : Serves(h, f) => Serves(h, f)'
    BY <2>1, <2>2, ItsStand DEF Serves, pools
  <2>6. \A v \in Covered(h)' : \A f \in Its(v)' :
          Serves(h, f)' \/ f \in my'[h].todo \/ (my'[h].target = "all" /\ f \notin Configured)
    BY <1>1, <1>2, <2>1, <2>3, <2>5, ItsStand
  <2>7. my'[h].target \in Vendors => Covered(h)' \subseteq {my'[h].target}
    BY <1>1, <1>2, <2>3
  <2>8. QED
    BY <1>1, <2>4, <2>6, <2>7 DEF Serving
<1>4. CASE VisitEnters(h)
  <2>0. PICK f \in my[h].todo : \E p \in Built(h, Owner(h, f)) :
          /\ IF f \in Faces THEN SetPool(f, p) ELSE UNCHANGED pools
          /\ my'[h].todo = my[h].todo \ {f}
          /\ my'[h].map = Under(my[h].map, Entered(h, f, Owner(h, f)), p)
    BY <1>4 DEF VisitEnters
  <2>1. PICK p \in Built(h, Owner(h, f)) :
          /\ IF f \in Faces THEN SetPool(f, p) ELSE UNCHANGED pools
          /\ my'[h].todo = my[h].todo \ {f}
          /\ my'[h].map = Under(my[h].map, Entered(h, f, Owner(h, f)), p)
    BY <2>0
  <2>2. /\ UNCHANGED providers /\ my'[h].built = my[h].built /\ my'[h].covers = my[h].covers
    BY <1>4 DEF VisitEnters
  <2>3. p \in my[h].built /\ p.vendor = Owner(h, f) /\ OneEach(my[h].built)
    BY <1>1 DEF Built, Mapped, MapFit
  <2>4. Covered(h)' = Covered(h) /\ keyRows' = keyRows
    BY <2>1, <2>2 DEF Covered, SetPool, pools
  <2>5. \A g \in Names : my'[h].map[g] = IF g \in Entered(h, f, Owner(h, f)) THEN p ELSE my[h].map[g]
    BY <2>1 DEF Under
  <2>6. \A g \in Faces : g # f => facePool'[g] = facePool[g]
    BY <1>b, <2>1 DEF SetPool, pools, PoolsTypeOK
  <2>7. f \in loaded /\ f \in Faces => facePool'[f] = p
    BY <1>b, <2>1 DEF SetPool, PoolsTypeOK
  <2>8. ASSUME NEW v \in Covered(h), NEW g \in Its(v), Serves(h, g) \/ g = f PROVE Serves(h, g)'
    <3>1. g \in loaded /\ g \in Faces /\ g \in Names /\ VendorFor(g) = v /\ v = VendorOf[g]
      BY <1>b, <2>8, ItsAre
    <3>2. VendorFor(g)' = v
      BY <2>2, <3>1, ItsStand
    <3>3. CASE g = f
      <4>1. Owner(h, f) = v
        BY <1>1, <1>2, <2>8, <3>1, <3>3 DEF Owner, Full
      <4>2. facePool'[g] = p
        BY <2>7, <3>1, <3>3
      <4>3. my'[h].map[g] = p
        BY <2>5, <3>1, <3>3 DEF Entered
      <4>4. QED
        BY <2>2, <2>3, <3>2, <4>1, <4>2, <4>3 DEF Serves
    <3>4. CASE g # f
      <4>1. facePool'[g] = facePool[g] /\ Serves(h, g)
        BY <2>6, <2>8, <3>1, <3>4
      <4>2. CASE g \notin Entered(h, f, Owner(h, f))
        BY <2>2, <2>5, <3>1, <3>2, <4>1, <4>2 DEF Serves
      <4>3. CASE g \in Entered(h, f, Owner(h, f))
        <5>1. g = VendorFor(f) /\ Owner(h, f) = VendorFor(f)
          BY <3>4, <4>3 DEF Entered, Owner, Full
        <5>2. v = g
          <6>1. f \in Names
            BY <1>b, Held
          <6>2. g \in Vendors
            BY <1>b, <3>4, <5>1, <6>1, VendorForType
          <6>3. QED
            BY <3>1, <6>2, OneVendor
        <5>3. facePool[g].vendor = p.vendor /\ facePool[g] \in my[h].built
          BY <2>3, <3>1, <4>1, <5>1, <5>2 DEF Serves
        <5>4. facePool[g] = p
          BY <2>3, <5>3 DEF OneEach
        <5>5. my'[h].map[g] = p
          BY <2>5, <3>1, <4>3
        <5>6. QED
          BY <2>2, <3>1, <3>2, <4>1, <5>4, <5>5 DEF Serves
      <4>4. QED
        BY <4>2, <4>3
    <3>5. QED
      BY <3>3, <3>4
  <2>9. \A v \in Covered(h)' : \A g \in Its(v)' :
          Serves(h, g)' \/ g \in my'[h].todo \/ (my'[h].target = "all" /\ g \notin Configured)
    BY <1>1, <1>2, <2>1, <2>2, <2>4, <2>8, ItsStand
  <2>10. Covered(h)' # {} => \A q \in my'[h].built : q.keys = KeysOf(q.vendor)'
    BY <1>2, <2>2, <2>4 DEF KeysOf
  <2>11. my'[h].target \in Vendors => Covered(h)' \subseteq {my'[h].target}
    BY <1>1, <1>2, <2>4
  <2>12. QED
    BY <1>1, <2>9, <2>10, <2>11 DEF Serving
<1>5. QED
  BY <1>1, <1>3, <1>4

LEMMA RelaysServe ==
  ASSUME BaseInv, NEW h \in Handlers, ReloadRelays(h), Serving(h) PROVE Serving(h)'
<1>b. AdminTypeOK /\ Shapes
  BY DEF BaseInv
<1>1. /\ pc[h] = "visit" /\ my[h].todo = {} /\ UNCHANGED <<providers, pools>>
      /\ my'[h].built = my[h].built /\ my'[h].map = my[h].map /\ my'[h].covers = my[h].covers
  BY <1>b, RelaysWritten
<1>2. Covered(h)' = Covered(h)
  BY <1>1 DEF Covered
<1>3. Covered(h)' # {} => \A q \in my'[h].built : q.keys = KeysOf(q.vendor)'
  BY <1>1, <1>2 DEF Serving, PoolStages, KeysOf, pools
<1>4. \A v \in Covered(h) : \A f \in Its(v) :
        Serves(h, f) \/ (my[h].target = "all" /\ f \notin Configured)
  BY <1>1 DEF Serving
<1>5. \A f : Serves(h, f) => Serves(h, f)'
  BY <1>1, ItsStand DEF Serves, pools
<1>6. CASE my[h].target = "all"
  <2>1. /\ pc'[h] = "visit" /\ my'[h].target = "relays"
        /\ my'[h].todo = {f \in loaded : f \in registered}
    BY <1>b, <1>6, RelaysWritten
  <2>2. \A v \in Covered(h) : \A f \in Its(v) : Serves(h, f) \/ f \in my'[h].todo
    BY <1>4, <2>1 DEF Its
  <2>3. \A v \in Covered(h)' : \A f \in Its(v)' : Serves(h, f)' \/ f \in my'[h].todo
    BY <1>1, <1>2, <1>5, <2>2, ItsStand
  <2>4. "relays" \notin Vendors
    BY NamesSorted DEF Tags
  <2>5. QED
    BY <1>3, <2>1, <2>3, <2>4 DEF Serving
<1>7. CASE my[h].target # "all"
  <2>1. pc'[h] = "server"
    BY <1>b, <1>7, RelaysWritten
  <2>2. \A v \in Covered(h)' : \A f \in Its(v)' : Serves(h, f)'
    BY <1>1, <1>2, <1>4, <1>5, <1>7, ItsStand
  <2>3. QED
    BY <1>3, <2>1, <2>2 DEF Serving
<1>8. QED
  BY <1>6, <1>7

LEMMA SwapsServe ==
  ASSUME BaseInv, NEW h \in Handlers, ReloadSwaps(h), Serving(h) PROVE Serving(h)'
<1>b. AdminTypeOK
  BY DEF BaseInv
<1>1. UNCHANGED <<providers, keyRows, facePool>>
  BY <1>b, SwapsWritten
<1>2. CASE pc'[h] = "done"
  BY <1>2 DEF Serving, PoolStages
<1>3. CASE pc'[h] \in {"router", "quota"}
  <2>1. pc[h] \in {"server", "router"} /\ my'[h] = my[h]
    BY <1>b, <1>3, SwapsWritten
  <2>2. Covered(h)' = Covered(h) /\ \A f : Serves(h, f) => Serves(h, f)'
    BY <1>1, <2>1, ItsStand DEF Covered, Serves
  <2>3. \A v \in Covered(h)' : \A f \in Its(v)' : Serves(h, f)'
    BY <1>1, <2>1, <2>2, ItsStand DEF Serving
  <2>4. Covered(h)' # {} => \A q \in my'[h].built : q.keys = KeysOf(q.vendor)'
    BY <1>1, <2>1, <2>2 DEF Serving, PoolStages, KeysOf
  <2>5. serverPools' = my'[h].map /\ (pc'[h] = "quota" => routerPools' = my'[h].map)
    BY <1>b, <1>3, SwapsWritten DEF Serving
  <2>6. QED
    BY <1>3, <2>3, <2>4, <2>5 DEF Serving
<1>4. QED
  BY <1>b, <1>2, <1>3, SwapsWritten

\* A pool reload begins with no vendor covered.
LEMMA NamesEntered ==
  ASSUME AdminTypeOK, Shapes, Following, NEW h \in Handlers, Handler(h), pc'[h] \in PoolStages,
         pc[h] \notin PoolStages
  PROVE  pc'[h] = "names" /\ Covered(h)' = {}
<1>h. HandlersTypeOK
  BY DEF AdminTypeOK
<1>t. {"stations", "leftovers", "unsynced"} \cap Vendors = {}
  BY NamesSorted DEF Tags
<1>1. CASE RelayEnds(h)
  <2>1. pc[h] = "station" /\ pc'[h] = "names" /\ my'[h].covers = my[h].covers
    BY <1>1, EndsWritten
  <2>2. my[h].covers \subseteq {"stations", "leftovers", "unsynced"}
    BY <2>1 DEF Following, CoversFit, RelayStages
  <2>3. QED
    BY <1>t, <2>1, <2>2 DEF Covered
<1>2. CASE pc[h] \in {"create", "delete"}
  <2>1. my[h].covers = {}
    BY <1>2 DEF Following, CoversFit, RelayStages, PoolStages
  <2>2. ~ReloadPool(h) /\ ~Reloading(h) /\ ~RelayList(h)
    BY <1>2 DEF ReloadPool, ReloadNames, ReloadBuilds, ReloadCopies,
                ReloadVisits, ReloadRelays, ReloadSwaps, Reloading, RelayRemoves, RelayRows,
                RelaySync, RelaySyncWrites, Synced, Unsynced, RelayRegisters, RelayEnds, RelayList, Fails, At
  <2>3. my'[h].covers = {}
    BY <2>1, <2>2, CoversStand DEF Nobody
  <2>4. pc'[h] = "names"
    BY <1>h, <2>2, Enters DEF PoolStages, ReloadPool
  <2>5. QED
    BY <2>3, <2>4 DEF Covered
<1>3. QED
  BY <1>1, <1>2, PoolStageBefore

LEMMA ServingKept ==
  ASSUME BaseInv, Mapped, Following, AllServing, NEW h \in Handlers, Handler(h), Solo(h)'
  PROVE  Serving(h)'
<1>b. AdminTypeOK /\ Shapes
  BY DEF BaseInv
<1>1. CASE pc'[h] \notin PoolStages
  BY <1>1 DEF Serving, PoolStages
<1>2. CASE pc'[h] \in PoolStages /\ pc[h] \notin PoolStages
  BY <1>b, <1>2, NamesEntered DEF Serving
<1>3. CASE pc[h] \in PoolStages
  <2>1. pc[h] # "idle" /\ ReloadPool(h)
    BY <1>3, DoesReload DEF PoolStages
  <2>2. Serving(h)
    BY <1>b, <2>1, SoloBefore DEF AllServing
  <2>3. QED
    BY <2>1, <2>2, NamesServe, BuildsServe, CopiesServe, VisitsServe, RelaysServe, SwapsServe
       DEF ReloadPool
<1>4. QED
  BY <1>1, <1>2, <1>3

LEMMA KeysSettled ==
  ASSUME BaseInv, AllServing, NEW h \in Handlers, Handler(h) PROVE KeysServed'
<1>b. AdminTypeOK /\ Shapes /\ Solitude
  BY DEF BaseInv
<1>1. SUFFICES ASSUME NEW v \in settled' \cap Vendors, NEW f \in Its(v)'
               PROVE  /\ facePool'[f] # NoPool
                      /\ facePool'[f].keys = KeysOf(v)'
                      /\ {serverPools'[f], routerPools'[f], quotaPools'[f]} = {facePool'[f]}
  BY DEF KeysServed, Its
<1>2. Solo(h) /\ Settles(h, settled')
  BY <1>b, <1>1, SettledBy
<1>3. pc[h] = "quota" /\ settled' = my[h].covers
  BY <1>1, <1>2, NamesSorted DEF Settles, Tags
<1>4. ReloadSwaps(h) /\ Serving(h)
  BY <1>2, <1>3, Does DEF AllServing
<1>5. /\ UNCHANGED <<providers, keyRows, facePool>> /\ quotaPools' = my[h].map
      /\ serverPools' = serverPools /\ routerPools' = routerPools
  BY <1>b, <1>3, <1>4, SwapsWritten
<1>6. v \in Covered(h) /\ f \in Its(v)
  BY <1>1, <1>3, <1>5, ItsStand DEF Covered
<1>7. /\ Serves(h, f) /\ serverPools = my[h].map /\ routerPools = my[h].map
      /\ \A p \in my[h].built : p.keys = KeysOf(p.vendor)
  BY <1>3, <1>4, <1>6 DEF Serving, PoolStages
<1>8. VendorFor(f) = v
  BY <1>b, <1>6, ItsAre
<1>9. facePool[f] \in PoolType
  BY <1>b, <1>7, Held DEF Serves
<1>10. facePool[f] # NoPool /\ facePool[f].keys = KeysOf(v) /\ my[h].map[f] = facePool[f]
  BY <1>7, <1>8, <1>9, NamesSorted DEF Serves
<1>11. KeysOf(v)' = KeysOf(v)
  BY <1>5 DEF KeysOf
<1>12. QED
  BY <1>5, <1>7, <1>10, <1>11

LEMMA AllServingKept ==
  ASSUME BaseInv, Mapped, Following, AllServing, NEW h \in Handlers, Handler(h) PROVE AllServing'
<1>b. AdminTypeOK /\ Solitude
  BY DEF BaseInv
<1>1. ASSUME NEW g \in Handlers, Solo(g)' PROVE Serving(g)'
  <2>1. g = h
    BY <1>b, <1>1, NoOtherSolo
  <2>2. QED
    BY <1>1, <2>1, ServingKept
<1>2. QED
  BY <1>1, KeysSettled DEF AllServing

LEMMA AllServingStays ==
  ASSUME AllServing, UNCHANGED admin PROVE AllServing'
<1>1. UNCHANGED <<loaded, registered, pc, my, alone, settled>> /\ UNCHANGED pools
  BY DEF admin, providers, handlers
<1>2. UNCHANGED <<keyRows, serverPools, routerPools, quotaPools, facePool>>
  BY <1>1 DEF pools
<1>3. KeysServed' = KeysServed
  BY <1>1, <1>2 DEF KeysServed, VendorFor, KeysOf
<1>4. ASSUME NEW h \in Handlers PROVE Serving(h)' = Serving(h) /\ Solo(h)' = Solo(h)
  BY <1>1, <1>2 DEF Serving, Covered, Its, Serves, VendorFor, KeysOf, Solo, Busy
<1>5. QED
  BY <1>3, <1>4 DEF AllServing

\* A reload that nobody disturbs puts the pools right, whatever overlapped before it: each
\* name of a vendor it covers leads the server, the router, the quota worker and the
\* provider instance to one pool, which has exactly the keys that the database has.
THEOREM AdminKeysServed == AdminSpec => []KeysServed
<1>1. AdminInit => AllServing
  BY DEF AdminInit, AllServing, KeysServed, Solo, Busy
<1>2. BaseInv /\ Mapped /\ Following /\ AllServing /\ [AdminNext]_admin => AllServing'
  BY AllServingKept, AllServingStays DEF AdminNext, AllEnded
<1>3. AllServing => KeysServed
  BY DEF AllServing
<1>4. QED
  BY <1>1, <1>2, <1>3, BaseCorrect, MappedCorrect, FollowingCorrect, PTL DEF AdminSpec
=============================================================================
