-------------------------------- MODULE Admin --------------------------------
(***************************************************************************)
(* The admin API at work: each handler is a goroutine that writes rows and *)
(* then rebuilds what the gateway runs on from the database, and nothing   *)
(* keeps two handlers apart.  One statement or critical section is a step; *)
(* a failed statement ends the handler where the code returns.             *)
(***************************************************************************)
EXTENDS Pools

CONSTANTS Handlers,
          Last,       \* the handler that starts when all the others have ended
          Ops,        \* the operations the handlers perform
          LastOps,    \* those of Last
          MaxFailures

Operations == {"createKey", "deleteKey", "order", "createStation", "updateStation", "deleteStation",
               "reload", "sync", "savePrice", "prune", "config"}

\* What stands in the place of a name, or beside names; no name is one of them.
Tags == {"all", "relays", "none", "order", "stations", "leftovers", "unsynced", "models"}

PoolType == [vendor : Names, keys : SUBSET Keys, by : Handlers \cup {"boot"}]

ASSUME AdminAssumption == /\ Last \in Handlers
                          /\ Ops \cup LastOps \subseteq Operations
                          /\ MaxFailures \in Nat
                          /\ Tags \cap Names = {}
                          /\ NoPool \notin PoolType

VARIABLES stationRows,  \* relay_stations: the enabled stations
          columnKeys,   \* the keys column of each station
          orderRows,    \* route_order of scope provider: the names ranked in it
          routerOrder,  \* the router's copy of them
          pc,           \* where each handler is
          my,           \* what it works with
          alone,        \* the handler at work began and went on with no other (history)
          settled,      \* what the handler that ended last left settled (history)
          failures      \* statements that have failed

stations == <<stationRows, columnKeys, orderRows, routerOrder>>
handlers == <<pc, my, alone, settled, failures>>
admin == <<providers, catalog, pools, stations, handlers>>

Nobody == [target |-> "none", todo |-> {}, map |-> [n \in Names |-> NoPool], built |-> {},
           seen |-> {}, covers |-> {}, merged |-> {}, list |-> {}, offers |-> {},
           rows |-> [vm \in Vendors \X Models |-> Absent]]

AdminInit ==
    /\ stationRows \in SUBSET Stations
    /\ columnKeys \in [Stations -> SUBSET Keys]
    /\ \A s \in Stations : \A k \in columnKeys[s] : KeyOwner[k] = s
    /\ ProvidersInit(stationRows)
    /\ CatalogInit
    /\ \E ks \in SUBSET {k \in Keys : KeyOwner[k] \notin Stations} :
           PoolsInit(ks \cup UNION {columnKeys[s] : s \in stationRows})
    /\ orderRows = stationRows /\ routerOrder = orderRows
    /\ pc = [h \in Handlers |-> "idle"]
    /\ my = [h \in Handlers |-> Nobody]
    /\ alone = TRUE
    /\ settled = {} /\ failures = 0

Busy(h) == pc[h] \notin {"idle", "done"}

At(h, l) == pc[h] = l
Go(h, l) == pc' = [pc EXCEPT ![h] = l] /\ UNCHANGED <<alone, settled, failures>>
Stay(h) == Go(h, pc[h])
Keep == UNCHANGED my
Put(h, m) == my' = [my EXCEPT ![h] = m]
Same == UNCHANGED <<providers, catalog, pools, stations>>

\* A handler that ends undisturbed leaves settled what it covered.
Finish(h, covers) == /\ pc' = [pc EXCEPT ![h] = "done"]
                     /\ my' = [my EXCEPT ![h] = Nobody]
                     /\ settled' = IF alone THEN covers ELSE {}
                     /\ UNCHANGED alone

Ends(h, covers) == Finish(h, covers) /\ UNCHANGED failures

MayFail == failures < MaxFailures /\ failures' = failures + 1

\* The statement the handler is about to execute fails, and it returns the error.
Fails(h, l) == At(h, l) /\ MayFail /\ Finish(h, {}) /\ Same

\* A request arrives; target is the vendor, the key or the model it is about.
Begin(h, op, l, target) ==
    /\ pc[h] = "idle"
    /\ op \in IF h = Last THEN LastOps ELSE Ops
    /\ h = Last => \A g \in Handlers \ {h} : pc[g] = "done"
    /\ pc' = [pc EXCEPT ![h] = l]
    /\ my' = [my EXCEPT ![h].target = target]
    /\ alone' = \A g \in Handlers : ~Busy(g)
    /\ settled' = {}
    /\ UNCHANGED failures

----------------------------------------------------------------------------
(* ReloadProviderPool(vendor), and ReloadProviderPool("") for target "all".  *)

\* The loaded names of the vendor, or the name itself.
ReloadNames(h) ==
    /\ At(h, "names")
    /\ LET v == my[h].target
           its == IF v = "all" THEN Configured ELSE {f \in loaded : VendorFor(f) = v}
       IN  Put(h, [my[h] EXCEPT !.todo = IF its = {} /\ v # "all" THEN {v} ELSE its,
                                !.covers = @ \cup IF v = "all" THEN Vendors ELSE {v}])
    /\ Go(h, IF my[h].target = "all" THEN "visit" ELSE "build")
    /\ Same

Full(h) == my[h].target \in {"all", "relays"}

Built(h, v) == {p \in my[h].built : p.vendor = v}

Build(h, v, fails) ==
    /\ Put(h, [my[h] EXCEPT !.built = @ \cup {BuildOnePool(v, h, fails)},
                            !.covers = IF fails THEN {} ELSE @])
    /\ Same

ReloadBuilds(h) ==
    /\ At(h, "build")
    /\ \/ Build(h, my[h].target, FALSE) /\ Go(h, "copy")
       \/ /\ MayFail
          /\ Build(h, my[h].target, TRUE)
          /\ pc' = [pc EXCEPT ![h] = "copy"]
          /\ UNCHANGED <<alone, settled>>

Under(map, names, p) == [n \in Names |-> IF n \in names THEN p ELSE map[n]]

\* poolSnapshot; the vendor's pool also goes under the vendor's own name.
ReloadCopies(h) ==
    /\ At(h, "copy")
    /\ \E p \in my[h].built : Put(h, [my[h] EXCEPT !.map = Under(serverPools, {p.vendor}, p)])
    /\ Go(h, "visit")
    /\ Same

\* Slip: the pool goes under the vendor's name alone.
VendorOnly(h, f, v) == {v}

\* The names under which the pool of a face goes.
Entered(h, f, v) == IF my[h].target = "relays" THEN {f, v} ELSE {f}

\* The full rebuild builds a vendor's pool at the first of its names.
ReloadVisits(h) ==
    /\ At(h, "visit")
    /\ \E f \in my[h].todo :
        LET v == IF Full(h) THEN VendorFor(f) ELSE my[h].target IN
        \/ Built(h, v) = {} /\ Build(h, v, FALSE) /\ Stay(h)
        \/ Built(h, v) = {} /\ Build(h, v, TRUE) /\ MayFail /\ UNCHANGED <<pc, alone, settled>>
        \/ \E p \in Built(h, v) :
               /\ IF f \in Faces THEN SetPool(f, p) ELSE UNCHANGED pools
               /\ Put(h, [my[h] EXCEPT !.todo = @ \ {f}, !.map = Under(@, Entered(h, f, v), p)])
               /\ Stay(h)
               /\ UNCHANGED <<providers, catalog, stations>>

\* The relay faces come from the manager, after the configured ones.
ReloadRelays(h) ==
    /\ At(h, "visit")
    /\ my[h].todo = {}
    /\ IF my[h].target = "all"
       THEN /\ Put(h, [my[h] EXCEPT !.todo = {f \in loaded : IsRelay(f)}, !.target = "relays"])
            /\ Stay(h)
       ELSE Keep /\ Go(h, "server")
    /\ Same

\* Slip: the router keeps its map.
ReloadSwapsTwo(h) ==
    /\ \/ At(h, "server") /\ SwapServer(my[h].map) /\ Go(h, "quota") /\ Keep
       \/ At(h, "quota") /\ SwapQuota(my[h].map) /\ Ends(h, my[h].covers)
    /\ UNCHANGED <<providers, catalog, stations>>

ReloadSwaps(h) ==
    /\ \/ At(h, "server") /\ SwapServer(my[h].map) /\ Go(h, "router") /\ Keep
       \/ At(h, "router") /\ SwapRouter(my[h].map) /\ Go(h, "quota") /\ Keep
       \/ At(h, "quota") /\ SwapQuota(my[h].map) /\ Ends(h, my[h].covers)
    /\ UNCHANGED <<providers, catalog, stations>>

ReloadPool(h) == \/ ReloadNames(h) \/ ReloadBuilds(h) \/ ReloadCopies(h) \/ ReloadVisits(h)
                 \/ ReloadRelays(h) \/ ReloadSwaps(h)

----------------------------------------------------------------------------
(* POST and DELETE of a provider's API keys; the key order.                  *)

CreateKey(h) ==
    \/ \E k \in Keys : Begin(h, "createKey", "create", k) /\ KeyOwner[k] \notin Stations /\ Same
    \/ /\ At(h, "create")
       /\ my[h].target \notin keyRows
       /\ CreateRows({my[h].target})
       /\ Put(h, [my[h] EXCEPT !.target = KeyOwner[my[h].target]])
       /\ Go(h, "names")
       /\ UNCHANGED <<providers, catalog, stations>>
    \/ At(h, "create") /\ my[h].target \in keyRows /\ Ends(h, {}) /\ Same

\* The row is looked up to know whose pool to rebuild; without it, all of them are.
DeleteKey(h) ==
    \/ \E k \in Keys : Begin(h, "deleteKey", "find", k) /\ Same
    \/ /\ At(h, "find")
       /\ \E found \in {my[h].target \in keyRows, FALSE} :
             /\ (found = (my[h].target \in keyRows)) \/ failures < MaxFailures
             /\ failures' = IF found = (my[h].target \in keyRows) THEN failures ELSE failures + 1
             /\ Put(h, [my[h] EXCEPT !.seen = IF found THEN {KeyOwner[my[h].target]} ELSE {"all"}])
       /\ pc' = [pc EXCEPT ![h] = "delete"]
       /\ UNCHANGED <<alone, settled>> /\ Same
    \/ /\ At(h, "delete")
       /\ my[h].target \in keyRows
       /\ DeleteRows({my[h].target})
       /\ Put(h, [my[h] EXCEPT !.target = CHOOSE v \in my[h].seen : TRUE])
       /\ Go(h, "names")
       /\ UNCHANGED <<providers, catalog, stations>>
    \/ At(h, "delete") /\ my[h].target \notin keyRows /\ Ends(h, {}) /\ Same

\* PUT of the order of a layer: the rows are replaced, the router gets what is read back.
ReplaceOrder(h) ==
    /\ At(h, "replace")
    /\ \E listed \in SUBSET {VendorFor(f) : f \in loaded} : orderRows' = listed \cap Vendors
    /\ Go(h, "readOrder") /\ Keep
    /\ UNCHANGED <<providers, catalog, pools, stationRows, columnKeys, routerOrder>>

ReloadProviderOrder(h) ==
    \/ /\ At(h, "readOrder")
       /\ Put(h, [my[h] EXCEPT !.seen = orderRows])
       /\ Go(h, "setOrder") /\ Same
    \/ /\ At(h, "setOrder")
       /\ routerOrder' = my[h].seen
       /\ Ends(h, {"order"})
       /\ UNCHANGED <<providers, catalog, pools, stationRows, columnKeys, orderRows>>

PutRouteOrder(h) == \/ Begin(h, "order", "replace", "none") /\ Same
                    \/ ReplaceOrder(h) \/ ReloadProviderOrder(h)

----------------------------------------------------------------------------
(* relay.ReloadFromDatabase.  syncRelayStationKeys makes the rows of the     *)
(* keys column the rows of the station.                                      *)

\* What reloads that overlapped left, and no reload takes away: a relay face that the
\* registry does not know, or the endpoint of a face that is not loaded.
Leftovers == \/ ~((loaded \ Configured) \subseteq registered)
             \/ ~(endpoints \subseteq loaded \cup {VendorFor(f) : f \in loaded \ Configured})

RelayList(h) ==
    /\ At(h, "relays")
    /\ Put(h, [my[h] EXCEPT !.todo = {f \in loaded : IsRelay(f)},
                            !.covers = IF Leftovers THEN {"stations", "leftovers"} ELSE {"stations"}])
    /\ Go(h, "remove") /\ Same

\* Slip: the names stay registered.
RelayRemovesOnly(h) ==
    /\ At(h, "remove")
    /\ \E f \in my[h].todo : RemoveProvider(f) /\ Put(h, [my[h] EXCEPT !.todo = @ \ {f}])
    /\ Go(h, "remove")
    /\ UNCHANGED <<catalog, pools, stations>>

RelayRemoves(h) ==
    /\ \/ /\ At(h, "remove")
          /\ \E f \in my[h].todo : /\ RemoveProvider(f)
                                   /\ Put(h, [my[h] EXCEPT !.seen = {f}])
          /\ Go(h, "unregister")
       \/ /\ At(h, "unregister")
          /\ \E f \in my[h].seen : /\ UnregisterRelay(f)
                                   /\ Put(h, [my[h] EXCEPT !.todo = @ \ {f}, !.seen = {}])
          /\ Go(h, "remove")
    /\ UNCHANGED <<catalog, pools, stations>>

RelayRows(h) ==
    /\ At(h, "remove")
    /\ my[h].todo = {}
    /\ Put(h, [my[h] EXCEPT !.list = {<<s, columnKeys[s]>> : s \in stationRows}])
    /\ Go(h, "station") /\ Same

\* The rows of the station as they are now are seen.  A query that fails is logged,
\* and the station registered without its keys being synchronised.
RelaySync(h) ==
    /\ At(h, "station")
    /\ \E st \in my[h].list :
        \/ /\ Put(h, [my[h] EXCEPT !.target = st[1], !.merged = st[2], !.seen = KeysOf(st[1])])
           /\ Go(h, "sync")
        \/ /\ MayFail
           /\ Put(h, [my[h] EXCEPT !.target = st[1], !.merged = st[2], !.seen = FacesOf[st[1]],
                                   !.covers = @ \cup {"unsynced"}])
           /\ pc' = [pc EXCEPT ![h] = "register"]
           /\ UNCHANGED <<alone, settled>>
    /\ Same

\* The statement about one key is done with.  One that fails is logged, no more.
Synced(h, seen) == Put(h, [my[h] EXCEPT !.seen = seen]) /\ Stay(h)

Unsynced(h, seen) == /\ MayFail
                     /\ Put(h, [my[h] EXCEPT !.seen = seen, !.covers = @ \cup {"unsynced"}])
                     /\ UNCHANGED <<pc, alone, settled, pools>>

\* First what is too much is deleted, then what is missing is created, key by key.
RelaySyncWrites(h) ==
    /\ At(h, "sync")
    /\ \/ \E k \in my[h].seen \ my[h].merged :
             \/ DeleteRows({k}) /\ Synced(h, my[h].seen \ {k})
             \/ Unsynced(h, my[h].seen \ {k})
       \/ /\ my[h].seen \subseteq my[h].merged
          /\ \E k \in my[h].merged \ my[h].seen :
                \/ CreateRows({k}) /\ Synced(h, my[h].seen \cup {k})
                \/ Unsynced(h, my[h].seen \cup {k})
       \/ /\ my[h].seen = my[h].merged
          /\ Put(h, [my[h] EXCEPT !.seen = FacesOf[my[h].target]])
          /\ Go(h, "register")
          /\ UNCHANGED pools
    /\ UNCHANGED <<providers, catalog, stations>>

RelayRegisters(h) ==
    \/ /\ At(h, "register")
       /\ \E f \in my[h].seen : RegisterRelay(f) /\ Put(h, [my[h] EXCEPT !.merged = {f}])
       /\ Go(h, "add")
       /\ UNCHANGED <<catalog, pools, stations>>
    \/ /\ At(h, "add")
       /\ \E f \in my[h].merged : /\ AddProvider(f)
                                  /\ NewInstance(f)
                                  /\ Put(h, [my[h] EXCEPT !.seen = @ \ {f}, !.merged = {}])
       /\ Go(h, "register")
       /\ UNCHANGED <<catalog, stations>>
    \/ /\ At(h, "register")
       /\ my[h].seen = {}
       /\ Put(h, [my[h] EXCEPT !.list = {st \in @ : st[1] # my[h].target}])
       /\ Go(h, "station") /\ Same

RelayEnds(h) == /\ At(h, "station")
                /\ my[h].list = {}
                /\ Put(h, [my[h] EXCEPT !.target = "all", !.seen = {}, !.merged = {}])
                /\ Go(h, "names") /\ Same

ReloadStations(h) == \/ Begin(h, "reload", "relays", "all") /\ Same
                     \/ RelayList(h) \/ RelayRemoves(h) \/ RelayRows(h) \/ RelaySync(h)
                     \/ RelaySyncWrites(h) \/ RelayRegisters(h) \/ RelayEnds(h)
                     \/ my[h].todo = {} /\ Fails(h, "remove")

----------------------------------------------------------------------------
(* The relay stations: each change ends in a reload of all of them.          *)

SaveStation(h, s, ks) == /\ stationRows' = stationRows \cup {s}
                         /\ columnKeys' = [columnKeys EXCEPT ![s] = ks]
                         /\ Go(h, "relays") /\ Keep
                         /\ UNCHANGED <<providers, catalog, pools, orderRows, routerOrder>>

OwnKeys(s) == {k \in Keys : KeyOwner[k] = s}

CreateStation(h) ==
    \/ \E s \in Stations : Begin(h, "createStation", "insert", s) /\ Same
    \/ At(h, "insert") /\ my[h].target \in stationRows /\ Ends(h, {}) /\ Same
    \/ /\ At(h, "insert")
       /\ my[h].target \notin stationRows
       /\ \E ks \in SUBSET OwnKeys(my[h].target) : SaveStation(h, my[h].target, ks)

\* Save writes every column, and inserts the row if it is gone by then.
UpdateStation(h) ==
    \/ \E s \in Stations : Begin(h, "updateStation", "get", s) /\ Same
    \/ At(h, "get") /\ my[h].target \notin stationRows /\ Ends(h, {}) /\ Same
    \/ At(h, "get") /\ my[h].target \in stationRows /\ Go(h, "save") /\ Keep /\ Same
    \/ At(h, "save") /\ \E ks \in SUBSET OwnKeys(my[h].target) : SaveStation(h, my[h].target, ks)

DropFaceRows(h) ==
    /\ At(h, "faceRows")
    /\ \E f \in my[h].todo : DeleteFaceModels(f) /\ Put(h, [my[h] EXCEPT !.todo = @ \ {f}])
    /\ Stay(h)
    /\ UNCHANGED <<providers, pools, stations>>

DropOrder(h) ==
    /\ At(h, "faceRows")
    /\ my[h].todo = {}
    /\ orderRows' = orderRows \ my[h].seen
    /\ Go(h, "purge") /\ Keep
    /\ UNCHANGED <<providers, catalog, pools, stationRows, columnKeys, routerOrder>>

PurgeKeys(h) ==
    /\ At(h, "purge")
    /\ DeleteRows(IF my[h].seen = {} THEN {} ELSE KeysOf(my[h].target))
    /\ Put(h, [my[h] EXCEPT !.seen = {}])
    /\ Go(h, "relays")
    /\ UNCHANGED <<providers, catalog, stations>>

\* The faces are known from the row, which is read before it is deleted.
DeleteStation(h) ==
    \/ \E s \in Stations : Begin(h, "deleteStation", "faces", s) /\ Same
    \/ /\ At(h, "faces")
       /\ Put(h, [my[h] EXCEPT !.seen = IF my[h].target \in stationRows THEN FacesOf[my[h].target] ELSE {}])
       /\ Go(h, "drop") /\ Same
    \/ /\ At(h, "drop")
       /\ stationRows' = stationRows \ {my[h].target}
       /\ Put(h, [my[h] EXCEPT !.todo = my[h].seen])
       /\ Go(h, "faceRows")
       /\ UNCHANGED <<providers, catalog, pools, columnKeys, orderRows, routerOrder>>
    \/ DropFaceRows(h) \/ DropOrder(h) \/ PurgeKeys(h)
    \/ Fails(h, "faceRows") \/ Fails(h, "purge")

----------------------------------------------------------------------------
(* The models: SyncVendorModels, SavePricing, PruneOrphanModels, each        *)
(* followed by LoadModelsFromStore, and the configuration's reload.          *)

\* Each face is asked for its list; one that does not answer is passed over.
SyncLists(h) ==
    /\ At(h, "list")
    /\ \E f \in my[h].todo :
        \/ Put(h, [my[h] EXCEPT !.todo = @ \ {f}]) /\ UNCHANGED catalog
        \/ \E ms \in SUBSET Models :
              /\ ReplaceFaceModels(f, ms)
              /\ Put(h, [my[h] EXCEPT !.todo = @ \ {f}, !.merged = @ \cup ms])
    /\ Stay(h)
    /\ UNCHANGED <<providers, pools, stations>>

\* No face answered: an error, but for a vendor that has rows from before.
SyncEnds(h) ==
    /\ At(h, "list")
    /\ my[h].todo = {}
    /\ IF my[h].merged # {} THEN Go(h, "prices") /\ Keep
       ELSE IF Rows(my[h].target) # {} THEN Go(h, "rows") /\ Keep
       ELSE Ends(h, {})
    /\ Same

SyncUpserts(h) ==
    \/ /\ At(h, "prices")
       /\ Put(h, [my[h] EXCEPT !.rows = modelRows])
       /\ Go(h, "upsert") /\ Same
    \/ /\ At(h, "upsert")
       /\ UpsertModels(my[h].target, my[h].merged, my[h].rows)
       /\ Go(h, "rows") /\ Keep
       /\ UNCHANGED <<providers, pools, stations>>

SyncModels(h) ==
    \/ \E v \in {VendorFor(f) : f \in loaded} \cap Vendors : Begin(h, "sync", "syncNames", v) /\ Same
    \/ /\ At(h, "syncNames")
       /\ Put(h, [my[h] EXCEPT !.todo = {f \in loaded : VendorFor(f) = my[h].target}])
       /\ Go(h, "list") /\ Same
    \/ SyncLists(h) \/ SyncEnds(h) \/ SyncUpserts(h)
    \/ Fails(h, "list") \/ Fails(h, "prices")

SavePrice(h) ==
    \/ \E v \in Vendors : Begin(h, "savePrice", "price", v) /\ Same
    \/ /\ At(h, "price")
       /\ \E m \in Models, p \in Prices : SavePricing(my[h].target, m, p, alone)
       /\ Go(h, "rows") /\ Keep
       /\ UNCHANGED <<providers, pools, stations>>

Prune(h) ==
    \/ \E v \in Vendors : Begin(h, "prune", "count", v) /\ Same
    \/ /\ At(h, "count")
       /\ Go(h, IF FaceRows(my[h].target) = {} THEN "rows" ELSE "orphans")
       /\ Keep /\ Same
    \/ /\ At(h, "orphans")
       /\ DeleteOrphans(my[h].target)
       /\ Go(h, "rows") /\ Keep
       /\ UNCHANGED <<providers, pools, stations>>

\* server.Reload, of which the pools take nothing.
ConfigReload(h) ==
    \/ Begin(h, "config", "billing", "none") /\ Same
    \/ /\ At(h, "billing")
       /\ ReloadPricing
       /\ Go(h, "rows") /\ Keep
       /\ UNCHANGED <<catalog, pools, stations>>

ReadRows(h) == /\ At(h, "rows")
               /\ Put(h, [my[h] EXCEPT !.rows = modelRows])
               /\ Go(h, "faceList") /\ Same

ReadFaceRows(h) == /\ At(h, "faceList")
                   /\ Put(h, [my[h] EXCEPT !.offers = faceRows])
                   /\ Go(h, "install") /\ Same

LoadModels(h) ==
    \/ ReadRows(h) \/ ReadFaceRows(h)
    \/ /\ At(h, "install")
       /\ InstallModels(my[h].rows, my[h].offers)
       /\ Ends(h, {"models"})
       /\ UNCHANGED <<providers, pools, stations>>

----------------------------------------------------------------------------
Handler(h) == \/ CreateKey(h) \/ DeleteKey(h) \/ PutRouteOrder(h)
              \/ CreateStation(h) \/ UpdateStation(h) \/ DeleteStation(h) \/ ReloadStations(h)
              \/ SyncModels(h) \/ SavePrice(h) \/ Prune(h) \/ ConfigReload(h) \/ LoadModels(h)
              \/ ReloadPool(h)

AllEnded == (\A h \in Handlers : ~Busy(h)) /\ UNCHANGED admin

AdminNext == (\E h \in Handlers : Handler(h)) \/ AllEnded

AdminSpec == AdminInit /\ [][AdminNext]_admin
----------------------------------------------------------------------------
Places == {"idle", "done", "names", "build", "copy", "visit", "server", "router", "quota",
           "create", "find", "delete", "replace", "readOrder", "setOrder",
           "relays", "remove", "unregister", "station", "sync", "register", "add",
           "insert", "get", "save", "faces", "drop", "faceRows", "purge",
           "syncNames", "list", "prices", "upsert", "price", "count", "orphans", "billing",
           "rows", "faceList", "install"}

Cells == [Vendors \X Models -> Prices \cup {Unpriced, Absent}]
PoolMaps == [Names -> PoolType \cup {NoPool}]

MyType == [target : Vendors \cup Keys \cup {"all", "relays", "none"},
           todo   : SUBSET Names,
           map    : PoolMaps,
           built  : SUBSET PoolType,
           seen   : SUBSET (Keys \cup Names \cup {"all"}),
           covers : SUBSET (Vendors \cup {"stations", "leftovers", "unsynced"}),
           merged : SUBSET (Keys \cup Faces \cup Models),
           list   : SUBSET (Stations \X SUBSET Keys),
           offers : SUBSET (Faces \X Models),
           rows   : Cells]

ProvidersTypeOK == /\ loaded \subseteq Faces /\ registered \subseteq RelayFaces
                   /\ endpoints \subseteq Names /\ billing \subseteq Names

CatalogTypeOK == /\ modelRows \in Cells /\ pricing \in Cells /\ priced \in Cells
                 /\ faceRows \subseteq Faces \X Models /\ faceModels \subseteq Faces \X Models

PoolsTypeOK == /\ keyRows \subseteq Keys
               /\ serverPools \in PoolMaps /\ routerPools \in PoolMaps /\ quotaPools \in PoolMaps
               /\ facePool \in [Faces -> PoolType \cup {NoPool}]
               /\ hooked \subseteq PoolType

StationsTypeOK == /\ stationRows \subseteq Stations
                  /\ columnKeys \in [Stations -> SUBSET Keys]
                  /\ \A s \in Stations : columnKeys[s] \subseteq OwnKeys(s)
                  /\ orderRows \subseteq Vendors /\ routerOrder \subseteq Vendors

HandlersTypeOK == /\ pc \in [Handlers -> Places] /\ my \in [Handlers -> MyType]
                  /\ alone \in BOOLEAN /\ failures \in 0 .. MaxFailures
                  /\ settled \subseteq Vendors \cup {"order", "stations", "leftovers", "unsynced", "models"}

AdminTypeOK == /\ ProvidersTypeOK /\ CatalogTypeOK /\ PoolsTypeOK
               /\ StationsTypeOK /\ HandlersTypeOK

RelaysOf(ss) == UNION {FacesOf[s] : s \in ss}

(* A reload that nobody disturbs puts things right, whatever overlapped      *)
(* before it: every name of a vendor it covers leads to one pool, for the    *)
(* request, its report, the quota worker and the admin page, and that pool   *)
(* has exactly the keys of the database, so a deleted key is served no more. *)
(* Relay faces that the registry does not know are excepted.                 *)
KeysServed ==
    \A v \in settled \cap Vendors :
        \A f \in {g \in loaded \cap (Configured \cup registered) : VendorFor(g) = v} :
            /\ facePool[f] # NoPool
            /\ facePool[f].keys = KeysOf(v)
            /\ {serverPools[f], routerPools[f], quotaPools[f]} = {facePool[f]}

(* Where reloads that ran at once left nothing behind, a reload that nobody  *)
(* disturbs leaves the manager, the registry and the metadata with the       *)
(* stations of the database and nothing of the deleted ones, and, when no    *)
(* statement about its keys failed, each station with its own keys.          *)
StationsFollow ==
    "stations" \in settled /\ "leftovers" \notin settled =>
        /\ loaded = Configured \cup RelaysOf(stationRows)
        /\ registered = RelaysOf(stationRows)
        /\ endpoints = loaded \cup stationRows
        /\ "unsynced" \notin settled => \A s \in stationRows : KeysOf(s) = columnKeys[s]

(* The same without the exception: one reload repairs everything.            *)
ReloadRepairs ==
    "stations" \in settled => loaded = Configured \cup RelaysOf(stationRows)

(* The faces of a configured vendor never part: in each of the three maps    *)
(* they have one pool, also while two reloads overlap, and always have one.  *)
VendorShared ==
    \A map \in {serverPools, routerPools, quotaPools} : \A f, g \in Configured :
        map[f] # NoPool /\ (VendorOf[f] = VendorOf[g] => map[f] = map[g])

(* Every loaded face has an endpoint and a billing source, of which its tier *)
(* is made, through every reload of the stations and of the configuration.   *)
MetadataKept == loaded \subseteq endpoints \cap billing

(* A price that an admin saved survives every sync with the upstream that    *)
(* does not overlap with the saving.                                         *)
PricesKept == \A vm \in DOMAIN priced : priced[vm] # Absent => modelRows[vm] = priced[vm]

(* No model is pruned of a vendor that has no face rows: its faces live on   *)
(* the rows then (database/provider_model_store.go:232).                     *)
PruneKeepsFallback ==
    [][\A h \in Handlers : pc[h] = "orphans" /\ pc'[h] = "rows" /\ FaceRows(my[h].target) = {} =>
           UNCHANGED modelRows]_admin

(* After the deletion of a station no name that it had keeps a rank.         *)
OrderFollows == "stations" \in settled => orderRows \subseteq {VendorOf[f] : f \in loaded}

(* The manager bills and routes by the rows as they are once a handler that  *)
(* changed them alone has ended.                                             *)
ModelsFresh == "models" \in settled => pricing = modelRows /\ faceModels = faceRows
=============================================================================
